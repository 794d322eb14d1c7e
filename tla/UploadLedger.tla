------------------------------ MODULE UploadLedger ------------------------------
(***************************************************************************)
(* What an upload path promises its users, said without how it is done:    *)
(* a file is first assembled (its exact content is in the file store), then *)
(* recorded (tbl_file), then owned by the user (tbl_user_file), then         *)
(* acknowledged (the reply OK), and nothing of that is ever taken back.     *)
(***************************************************************************)
CONSTANTS Users, Files

VARIABLES
  assembled,  \* files whose exact content has been in the file store
  recorded,   \* files with a row in tbl_file
  owned,      \* <<user, file>> with a row in tbl_user_file
  acked       \* <<user, file>> whose upload was answered OK

vars == <<assembled, recorded, owned, acked>>

Init ==
  /\ assembled = {}
  /\ recorded = {}
  /\ owned = {}
  /\ acked = {}

Assemble(f) ==
  /\ assembled' = assembled \cup {f}
  /\ UNCHANGED <<recorded, owned, acked>>

Record(f) ==
  /\ f \in assembled
  /\ recorded' = recorded \cup {f}
  /\ UNCHANGED <<assembled, owned, acked>>

Own(u, f) ==
  /\ f \in recorded
  /\ owned' = owned \cup {<<u, f>>}
  /\ UNCHANGED <<assembled, recorded, acked>>

Acknowledge(u, f) ==
  /\ <<u, f>> \in owned
  /\ acked' = acked \cup {<<u, f>>}
  /\ UNCHANGED <<assembled, recorded, owned>>

Next ==
  \/ \E f \in Files : Assemble(f) \/ Record(f)
  \/ \E u \in Users, f \in Files : Own(u, f) \/ Acknowledge(u, f)

Spec == Init /\ [][Next]_vars

================================================================================
