----------------------------- MODULE MCShipments -----------------------------
(* Shipments alone: two users with the form of one shipment.                *)
EXTENDS Shipments

=============================================================================
