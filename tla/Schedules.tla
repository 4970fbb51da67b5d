----------------------------- MODULE Schedules -----------------------------
(***************************************************************************)
(* The schedules of backups (BackupSchedule): the next run each of them    *)
(* keeps, the tick of the scheduler that starts what is due, the form that *)
(* changes them, and restores, which bring back the schedules of a dump.   *)
(*                                                                         *)
(* Simplifications. Time is counted in parts of a day; a week is as short  *)
(* as a constant says. Of the queue of operations only whether one is      *)
(* active is kept (OperationQueue has the rest). The time zone has no      *)
(* change of clocks. Both schedules have next_run_at from the migration    *)
(* on, and the form keeps it: without it (_schedule_due, null) only the    *)
(* part of the present day that has passed is due.                         *)
(***************************************************************************)
EXTENDS Integers, Sequences

CONSTANTS
    WeekLength,     \* days of a week
    PartsOfDay,     \* times of a day a run can be set to
    ScheduleForms,  \* [enabled, weekdays, time] a schedule can be given in the form
    MaxMoment,       \* bound: time
    MaxScheduleSaves,  \* bound: forms saved
    MaxReloads      \* bound: dumps loaded

ASSUME ScheduleAssumption ==
    /\ WeekLength \in Nat \ {0, 1} /\ PartsOfDay \in Nat \ {0} /\ MaxMoment \in Nat
    /\ ScheduleForms \subseteq [enabled : BOOLEAN, weekdays : SUBSET (0..(WeekLength - 1)), time : 0..(PartsOfDay - 1)]
    /\ \A form \in ScheduleForms : form.enabled => form.weekdays # {}

VARIABLES
    moment,
    schedules,    \* [ScheduleTypes -> enabled, weekdays, time, next; covered and since are history]
    scheduleTick, \* the tick of the scheduler: pc and its "now"
    activeRun,    \* "none", a type, or "other": an operation a user started
    scheduleForm, \* the request that saves the form
    scheduleDump, \* the schedules in the dump that restores load
    runsOf,       \* history: [type -> slots run, since slots could repeat]
    scheduleLimits  \* forms saved and dumps loaded

scheduleVars ==
    <<moment, schedules, scheduleTick, activeRun, scheduleForm, scheduleDump, runsOf, scheduleLimits>>

\* In the order of backup_type.
ScheduleTypes == {"full", "incremental"}
Unset == -1

DayOf(t) == t \div PartsOfDay
Candidate(schedule, day) == day * PartsOfDay + schedule.time
OnDay(schedule, day) == day % WeekLength \in schedule.weekdays

\* Mutant: today and the days up to its next occurrence, which is left out.
NextRunWithinWeek(schedule, after) ==
    LET days == {d \in DayOf(after)..(DayOf(after) + WeekLength - 1) :
                    OnDay(schedule, d) /\ Candidate(schedule, d) > after}
    IN  IF days = {} THEN Unset ELSE Candidate(schedule, CHOOSE d \in days : \A e \in days : d <= e)

\* calculate_next_run: the first candidate after a moment, today's included, up
\* to the same day of the next week.
NextRun(schedule, after) ==
    LET days == {d \in DayOf(after)..(DayOf(after) + WeekLength) :
                    OnDay(schedule, d) /\ Candidate(schedule, d) > after}
    IN  IF days = {} THEN Unset ELSE Candidate(schedule, CHOOSE d \in days : \A e \in days : d <= e)

\* _schedule_due
Due(schedule, now) ==
    /\ schedule.enabled
    /\ IF schedule.next = Unset
       THEN OnDay(schedule, DayOf(now)) /\ Candidate(schedule, DayOf(now)) <= now
       ELSE schedule.next <= now

\* The slot a run stands for.
SlotOf(schedule, now) == IF schedule.next = Unset THEN Candidate(schedule, DayOf(now)) ELSE schedule.next

\* A schedule whose next run is computed; slots up to "since" are not expected.
Scheduled(form, after) ==
    [enabled |-> form.enabled, weekdays |-> form.weekdays, time |-> form.time,
     next |-> NextRun(form, after), since |-> after, covered |-> after]

-----------------------------------------------------------------------------

NoSave == [pc |-> "none", next |-> <<>>]

\* Migration 0009: full backups on the last day of the week, incremental ones on
\* the other days.
SchedulesInit ==
    /\ moment = 0
    /\ schedules = [k \in ScheduleTypes |->
          Scheduled([enabled |-> TRUE, time |-> 0,
                     weekdays |-> IF k = "full" THEN {WeekLength - 1} ELSE 0..(WeekLength - 2)], 0)]
    /\ scheduleTick = [pc |-> "idle", now |-> 0]
    /\ activeRun = "none" /\ scheduleForm = NoSave /\ scheduleDump = schedules
    /\ runsOf = [k \in ScheduleTypes |-> <<>>]
    /\ scheduleLimits = [saves |-> 0, reloads |-> 0]

ClockTicks ==
    /\ moment < MaxMoment
    /\ moment' = moment + 1
    /\ UNCHANGED <<schedules, scheduleTick, activeRun, scheduleForm, scheduleDump, runsOf, scheduleLimits>>

\* run_scheduler_tick takes the time once; the maintenance, which takes a while
\* once a day, comes before the claim.
TickBegins ==
    /\ scheduleTick.pc = "idle"
    /\ scheduleTick' = [pc |-> "maintenance", now |-> moment]
    /\ UNCHANGED <<moment, schedules, activeRun, scheduleForm, scheduleDump, runsOf, scheduleLimits>>

\* The order of next_run_at, then of backup_type.
Before(k, l) ==
    \/ schedules[k].next < schedules[l].next
    \/ schedules[k].next = schedules[l].next /\ k = "full"

\* _enqueue_due_scheduled_backup and the claim: one run of the first due schedule.
TickClaims ==
    LET now == scheduleTick.now
        due == {k \in ScheduleTypes : Due(schedules[k], now)}
    IN  /\ scheduleTick.pc = "maintenance"
        /\ scheduleTick' = [scheduleTick EXCEPT !.pc = "idle"]
        /\ \/ /\ activeRun # "none" \/ due = {}
              /\ UNCHANGED <<schedules, activeRun, runsOf>>
           \/ /\ activeRun = "none"
              /\ \E k \in due :
                   /\ \A l \in due \ {k} : Before(k, l)
                   /\ activeRun' = k
                   /\ runsOf' = [runsOf EXCEPT ![k] = Append(@, SlotOf(schedules[k], now))]
                   /\ schedules' = [schedules EXCEPT ![k].next = NextRun(schedules[k], now), ![k].covered = now]
        /\ UNCHANGED <<moment, scheduleForm, scheduleDump, scheduleLimits>>

\* The operation ends, with success or not: a slot is not tried again.
OperationEnds ==
    /\ activeRun # "none"
    /\ activeRun' = "none"
    /\ UNCHANGED <<moment, schedules, scheduleTick, scheduleForm, scheduleDump, runsOf, scheduleLimits>>

\* start_backup, start_restore
UserStartsOperation ==
    /\ activeRun = "none"
    /\ activeRun' = "other"
    /\ UNCHANGED <<moment, schedules, scheduleTick, scheduleForm, scheduleDump, runsOf, scheduleLimits>>

\* _dump_database of a backup
DumpSchedules ==
    /\ activeRun # "none"
    /\ scheduleDump' = schedules
    /\ UNCHANGED <<moment, schedules, scheduleTick, activeRun, scheduleForm, runsOf, scheduleLimits>>

\* _restore_database: what is due by the old schedules is due at once.
ReloadSchedules ==
    /\ activeRun = "other"
    /\ scheduleLimits.reloads < MaxReloads
    /\ scheduleLimits' = [scheduleLimits EXCEPT !.reloads = @ + 1]
    /\ schedules' = scheduleDump
    /\ runsOf' = [k \in ScheduleTypes |-> <<>>]
    /\ UNCHANGED <<moment, scheduleTick, activeRun, scheduleForm, scheduleDump>>

\* update_backup_schedule: a form with an enabled schedule without weekdays is
\* refused as a whole; the next runs of both schedules are computed anew, from
\* the present time, whether they were changed or not ...
SaveBegins ==
    /\ scheduleForm.pc = "none"
    /\ scheduleLimits.saves < MaxScheduleSaves
    /\ scheduleLimits' = [scheduleLimits EXCEPT !.saves = @ + 1]
    /\ \E forms \in [ScheduleTypes -> ScheduleForms] :
         scheduleForm' = [pc |-> "computed", next |-> [k \in ScheduleTypes |-> Scheduled(forms[k], moment)]]
    /\ UNCHANGED <<moment, schedules, scheduleTick, activeRun, scheduleDump, runsOf>>

\* ... and are written without a look at what the scheduler has made of them since.
SaveCommits ==
    LET saved == scheduleForm.next IN
    /\ scheduleForm.pc = "computed"
    /\ scheduleForm' = NoSave
    /\ schedules' = saved
    /\ runsOf' = [k \in ScheduleTypes |-> IF saved[k].next \in 0..moment THEN <<>> ELSE runsOf[k]]
    /\ UNCHANGED <<moment, scheduleTick, activeRun, scheduleDump, scheduleLimits>>

SchedulesNext ==
    \/ ClockTicks \/ TickBegins \/ TickClaims \/ OperationEnds \/ UserStartsOperation
    \/ DumpSchedules \/ ReloadSchedules \/ SaveBegins \/ SaveCommits

SchedulesSpec == SchedulesInit /\ [][SchedulesNext]_scheduleVars

-----------------------------------------------------------------------------

\* Types.
SchedulesTypeOK ==
    /\ moment \in 0..MaxMoment /\ activeRun \in ScheduleTypes \cup {"none", "other"}
    /\ \A k \in ScheduleTypes :
         /\ schedules[k].next \in Nat \cup {Unset}
         /\ schedules[k].enabled => schedules[k].weekdays # {}

\* Slots of an enabled schedule that have come and that no claim has covered.
Missed(k) ==
    {Candidate(schedules[k], d) : d \in {e \in 0..DayOf(moment) : OnDay(schedules[k], e)}}
        \cap {t \in 0..moment : t > schedules[k].since /\ t > schedules[k].covered}

\* However long operations take, whatever was restored and whenever the form was
\* saved, a slot after the last save stays due until a run is started for it.
NoSlotLost ==
    \A k \in ScheduleTypes : schedules[k].enabled =>
        \A t \in Missed(k) : schedules[k].next # Unset /\ schedules[k].next <= t

\* No slot is run twice, but after a restore of an older dump or a save that was
\* overtaken by the slot it had computed.
NoSlotTwice ==
    \A k \in ScheduleTypes : \A i, j \in DOMAIN runsOf[k] : i < j => runsOf[k][i] < runsOf[k][j]

\* Scheduled backups run once for each slot.
ScheduledOnce == NoSlotLost /\ NoSlotTwice
=============================================================================
