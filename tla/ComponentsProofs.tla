--------------------------- MODULE ComponentsProofs ---------------------------
(***************************************************************************)
(* The components that share no state, side by side: a behaviour of the    *)
(* whole is one of each of them, and so has the types proved of each.      *)
(***************************************************************************)
EXTENDS MCComponents, BackupCatalogProofs, ImportsProofs, ShipmentsProofs, UpkeepProofs

\* Every component begins as its own specification says, whatever the first choice.
LEMMA ComponentsBegin ==
    ComponentsInit =>
        /\ Init /\ ImportsInit /\ ShipmentsInit /\ ConfigInit /\ ReleaseInit /\ AccountsInit
        /\ FiltersInit /\ TableInit /\ HostInit /\ DeployInit /\ ImportFileInit /\ SchedulesInit
BY DEF ComponentsInit

\* A step of one component is one of its own and leaves the others alone.
LEMMA ComponentsStep ==
    [ComponentsNext]_componentVars =>
        /\ [Next]_vars /\ [ImportsNext]_importVars /\ [ShipmentsNext]_shipmentVars /\ [ConfigNext]_configVars
        /\ [ReleaseNext]_releaseVars /\ [AccountsNext]_accountVars /\ [ColumnFiltersNext]_filterVars
        /\ [TableNext]_tableVars /\ [HostNext]_hostVars /\ [DeployNext]_deployVars
        /\ [ImportFileNext]_importFileVars /\ [SchedulesNext]_scheduleVars
BY DEF componentVars, ComponentsNext, CatalogueSteps, ImportSteps, ShipmentSteps, ConfigSteps, ReleaseSteps,
       AccountSteps, FilterSteps, TableSteps, HostSteps, DeploymentSteps, FileSteps, ScheduleSteps, Except

\* The variables of the component that is exercised have their types, at any
\* time, for every value of the constants of all twelve.
THEOREM ComponentsTyped == ComponentsSpec => []ComponentsTypeOK
<1>1. ComponentsSpec => Spec /\ ImportsSpec /\ ShipmentsSpec
  BY ComponentsBegin, ComponentsStep, PTL DEF ComponentsSpec, Spec, ImportsSpec, ShipmentsSpec
<1>2. ComponentsSpec => ConfigSpec /\ ReleaseSpec /\ AccountsSpec
  BY ComponentsBegin, ComponentsStep, PTL DEF ComponentsSpec, ConfigSpec, ReleaseSpec, AccountsSpec
<1>3. ComponentsSpec => ColumnFiltersSpec /\ TablePagesSpec /\ HostSpec
  BY ComponentsBegin, ComponentsStep, PTL DEF ComponentsSpec, ColumnFiltersSpec, TablePagesSpec, HostSpec
<1>4. ComponentsSpec => DeploymentSpec /\ ImportFileSpec /\ SchedulesSpec
  BY ComponentsBegin, ComponentsStep, PTL DEF ComponentsSpec, DeploymentSpec, ImportFileSpec, SchedulesSpec
<1>5. /\ TypeOK /\ ImportsTypeOK /\ ShipmentsTypeOK /\ FieldConfigTypeOK /\ ReleaseTypeOK /\ AccountsTypeOK
      /\ TablePagesTypeOK /\ ColumnFiltersTypeOK /\ HostTypeOK /\ DeploymentTypeOK /\ ImportFileTypeOK
      /\ SchedulesTypeOK
      => ComponentsTypeOK
  BY DEF ComponentsTypeOK
<1> QED BY <1>1, <1>2, <1>3, <1>4, <1>5, CatalogTypes, ImportsTyped, ShipmentsTyping, ConfigTyped, ReleaseTyped,
           AccountsTyped, TableViewsTyped, HostTyped, DeploymentTyped, ImportedAsShown, SchedulesTyped, PTL
        DEF TableViewsSpec
=============================================================================
