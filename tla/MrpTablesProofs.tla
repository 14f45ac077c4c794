--------------------------- MODULE MrpTablesProofs ---------------------------
(***************************************************************************)
(* What the tables of MrpTables, looked up with the events that are        *)
(* raised, leave unreachable.  Msrp leaves out what these theorems say     *)
(* never happens.                                                          *)
(***************************************************************************)
EXTENDS MrpTables, TLAPS

(* The numbers of the events raised. *)
LEMMA EventNumbers == Events = 0..5 \cup {10, 11, 20}
BY DEF Events, WireEvents, MRP_EVENT_R_LA, MRP_EVENT_TX, MRP_EVENT_LEAVE_TIMER

(* What mad_attr_event finds for an applicant: a state, possibly a request  *)
(* for an opportunity, and nothing to send.                                 *)
LEMMA ApplicantCell ==
  ASSUME NEW s \in AppStates, NEW e \in Events, HasCell(ApplicantTable, s, e)
  PROVE  /\ ApplicantTable[s][e].state \in AppStates
         /\ ApplicantTable[s][e].send = "None"
         /\ ApplicantTable[s][e].request \in BOOLEAN
<1> DEFINE Silent == [state : AppStates, send : {"None"}, request : BOOLEAN]
<1>a. \A t \in AppStates : To(t) \in Silent /\ Ask(t) \in Silent
  BY DEF To, Ask
<1>b. e \in 1..5 \/ e \in {0, 10, 11, 20}
  BY EventNumbers
<1> HIDE DEF Silent
<1>c. SUFFICES ApplicantTable[s][e] \in Silent
  BY DEF Silent
<1>1. CASE s = "VO"
  BY <1>a, <1>b, <1>1 DEF ApplicantTable, HasCell, AppStates
<1>2. CASE s = "VP"
  BY <1>a, <1>b, <1>2 DEF ApplicantTable, HasCell, AppStates
<1>3. CASE s = "VN"
  BY <1>a, <1>b, <1>3 DEF ApplicantTable, HasCell, AppStates
<1>4. CASE s = "AN"
  BY <1>a, <1>b, <1>4 DEF ApplicantTable, HasCell, AppStates
<1>5. CASE s = "AA"
  BY <1>a, <1>b, <1>5 DEF ApplicantTable, HasCell, AppStates
<1>6. CASE s = "QA"
  BY <1>a, <1>b, <1>6 DEF ApplicantTable, HasCell, AppStates
<1>7. CASE s = "LA"
  BY <1>a, <1>b, <1>7 DEF ApplicantTable, HasCell, AppStates
<1>8. CASE s = "AO"
  BY <1>a, <1>b, <1>8 DEF ApplicantTable, HasCell, AppStates
<1>9. CASE s = "QO"
  BY <1>a, <1>b, <1>9 DEF ApplicantTable, HasCell, AppStates
<1>10. CASE s = "AP"
  BY <1>a, <1>b, <1>10 DEF ApplicantTable, HasCell, AppStates
<1>11. CASE s = "QP"
  BY <1>a, <1>b, <1>11 DEF ApplicantTable, HasCell, AppStates
<1>12. CASE s = "LO"
  BY <1>a, <1>b, <1>12 DEF ApplicantTable, HasCell, AppStates
<1> QED
  BY <1>1, <1>2, <1>3, <1>4, <1>5, <1>6, <1>7, <1>8, <1>9, <1>10, <1>11, <1>12 DEF AppStates

(* Whatever state an attribute is declared in and whatever event           *)
(* mad_attr_event is called with, nothing is sent: doTx, and with it every  *)
(* PDU but the empty one, is never reached.                                 *)
THEOREM NothingIsSent ==
  \A s \in AppStates, e \in Events :
    HasCell(ApplicantTable, s, e) => ApplicantTable[s][e].send = "None"
BY ApplicantCell

(* All that mad_attr_event finds for a registrar.                           *)
LEMMA RegistrarCell ==
  ASSUME NEW s \in RegStates, NEW e \in Events, HasCell(RegistrarTable, s, e)
  PROVE  \/ RegistrarTable[s][e] = Reg("IN", "NEW")
         \/ RegistrarTable[s][e] = Reg("IN", "JOIN")
         \/ RegistrarTable[s][e] = Reg("IN", "None") /\ s # "MT"
         \/ RegistrarTable[s][e] = Reg(s, "None")
         \/ RegistrarTable[s][e] = RegTimed("LV") /\ s = "IN"
<1>a. e \in 1..5 \/ e \in {0, 10, 11, 20}
  BY EventNumbers
<1>1. CASE s = "IN"
  BY <1>a, <1>1 DEF RegistrarTable, HasCell, LeavingRow
<1>2. CASE s = "LV"
  BY <1>a, <1>2 DEF RegistrarTable, HasCell, LeavingRow
<1>3. CASE s = "L3"
  BY <1>a, <1>3 DEF RegistrarTable, HasCell, LeavingRow
<1>4. CASE s = "L2"
  BY <1>a, <1>4 DEF RegistrarTable, HasCell, LeavingRow
<1>5. CASE s = "L1"
  BY <1>a, <1>5 DEF RegistrarTable, HasCell, LeavingRow
<1>6. CASE s = "MT"
  BY <1>a, <1>6 DEF RegistrarTable, HasCell, LeavingRow
<1> QED
  BY <1>1, <1>2, <1>3, <1>4, <1>5, <1>6 DEF RegStates

(* A registration is never withdrawn, in whatever state and for whatever    *)
(* event: neither msrp_mad_leave_indication nor msrp_mad_leave_propagation  *)
(* is called, and the registrar does not become empty.                      *)
THEOREM NothingIsWithdrawn ==
  \A s \in RegStates, e \in Events :
    HasCell(RegistrarTable, s, e) =>
      /\ RegistrarTable[s][e].indicate # "LV"
      /\ s # "MT" => RegistrarTable[s][e].state # "MT"
<1> SUFFICES ASSUME NEW s \in RegStates, NEW e \in Events, HasCell(RegistrarTable, s, e)
             PROVE  /\ RegistrarTable[s][e].indicate # "LV"
                    /\ s # "MT" => RegistrarTable[s][e].state # "MT"
  OBVIOUS
<1> DEFINE cell == RegistrarTable[s][e]
<1>1. \/ cell = Reg("IN", "NEW") \/ cell = Reg("IN", "JOIN")
      \/ cell = Reg("IN", "None") /\ s # "MT"
      \/ cell = Reg(s, "None")
      \/ cell = RegTimed("LV") /\ s = "IN"
  BY RegistrarCell
<1> HIDE DEF cell
<1>2. cell.indicate # "LV"
  BY <1>1 DEF Reg, RegTimed
<1>3. s # "MT" => cell.state # "MT"
  BY <1>1 DEF Reg, RegTimed
<1> QED BY <1>2, <1>3 DEF cell

(* The leave-all machine never moves: for no event that a participant is    *)
(* given has the table a column.  The leaveall timer, that only this table  *)
(* starts, never runs.                                                      *)
THEOREM LeaveAllIsInert ==
  \A s \in DOMAIN LeaveAllTable, e \in ParticipantEvents : ~HasCell(LeaveAllTable, s, e)
BY DEF LeaveAllTable, HasCell, ParticipantEvents, MRP_EVENT_R_LA, MRP_EVENT_TX,
       MRP_EVENT_LEAVEALL_TIMER

(* The expiry of the leave timer moves nothing.                             *)
THEOREM LeaveTimerIsInert ==
  /\ \A s \in AppStates : ~HasCell(ApplicantTable, s, MRP_EVENT_LEAVE_TIMER)
  /\ \A s \in RegStates : ~HasCell(RegistrarTable, s, MRP_EVENT_LEAVE_TIMER)
<1>1. \A s \in AppStates : ~HasCell(ApplicantTable, s, MRP_EVENT_LEAVE_TIMER)
  BY DEF AppStates, ApplicantTable, HasCell, MRP_EVENT_LEAVE_TIMER
<1>2. \A s \in RegStates : ~HasCell(RegistrarTable, s, MRP_EVENT_LEAVE_TIMER)
  BY DEF RegStates, RegistrarTable, LeavingRow, HasCell, MRP_EVENT_LEAVE_TIMER
<1> QED BY <1>1, <1>2

=============================================================================
