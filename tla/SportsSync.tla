------------------------------ MODULE SportsSync ------------------------------
(***************************************************************************)
(* SportsSyncService as its processes use it: one synchronisation of a     *)
(* window of dates (module DailyDiscovery), or commands of an operator, one*)
(* after the other (module SyncCommands).  Both rely on the same promises  *)
(* of the provider client.                                                 *)
(***************************************************************************)
EXTENDS DailyDiscovery, SyncCommands

ServiceInit == Init /\ InitCommands

ServiceNext ==
  \/ made = 0 /\ Next /\ UNCHANGED commands
  \/ pc = "new" /\ CommandStep
     /\ UNCHANGED <<pc, day, rows, catalogue, funnel, left, causes, codes, tables,
                    fatal, record>>
  \/ CommandsEnd /\ UNCHANGED vars

ServiceSpec == ServiceInit /\ [][ServiceNext]_<<vars, commands>>
=============================================================================
