----------------------------- MODULE MrpTables -----------------------------
(***************************************************************************)
(* The three tables of the MRP state machines (src/msrp), as compiled: a   *)
(* row per state, a column per event.  The columns are positional, and are *)
(* looked up with the numbers of enum mrp_event and, for what is received, *)
(* with the numbers on the wire.                                           *)
(***************************************************************************)
EXTENDS Integers, Sequences

(* enum mrp_event, as far as the code raises it *)
MRP_EVENT_NEW            == 1
MRP_EVENT_JOIN           == 2
MRP_EVENT_R_JOIN_IN      == 5
MRP_EVENT_R_IN           == 6
MRP_EVENT_R_LA           == 10
MRP_EVENT_TX             == 11
MRP_EVENT_LEAVE_TIMER    == 20
MRP_EVENT_LEAVEALL_TIMER == 21

(* enum mrp_attr_event: New, JoinIn, In, JoinEmpty, Empty, Leave.  Received *)
(* events are not translated to enum mrp_event.                             *)
WireEvents == 0..5

(* The events an attribute is given. *)
Events == WireEvents \cup {MRP_EVENT_R_LA, MRP_EVENT_TX, MRP_EVENT_LEAVE_TIMER}

(* The events a participant is given. *)
ParticipantEvents == {MRP_EVENT_R_LA, MRP_EVENT_TX, MRP_EVENT_LEAVEALL_TIMER}

AppStates == {"VO", "VP", "VN", "AN", "AA", "QA", "LA", "AO", "QO", "AP", "QP", "LO"}
RegStates == {"IN", "LV", "L3", "L2", "L1", "MT"}

(* zero, what memory holds that was never assigned *)
Invalid == "INVALID"

(***************************************************************************)
(* The applicant.                                                          *)
(***************************************************************************)
To(state)            == [state |-> state, send |-> "None", request |-> FALSE]
Ask(state)           == [state |-> state, send |-> "None", request |-> TRUE]
Send(state, message) == [state |-> state, send |-> message, request |-> FALSE]
SendAsk(state, message) == [state |-> state, send |-> message, request |-> TRUE]

(* One column is missing in the row of VN: JOIN and what follows is shifted. *)
ApplicantTable ==
  [ VO |-> << Ask("VN"), Ask("VP"), To("VO"), To("VO"), To("AO"), To("VO"), To("VO"),
              To("VO"), Ask("LO"), Ask("LO"), Ask("LO"), To("VO"), To("VO"), Ask("LO"),
              Ask("LO") >>,
    VP |-> << Ask("VN"), To("VP"), To("VO"), To("VP"), Ask("AP"), To("VP"), To("VP"),
              To("VP"), To("VP"), To("VP"), To("VP"), To("VP"), SendAsk("AA", "S_JOIN"),
              SendAsk("AA", "S"), Ask("VP") >>,
    VN |-> << To("VN"), Ask("LA"), To("VN"), To("VN"), To("VN"), To("VN"), To("VN"),
              To("VN"), To("VN"), To("VN"), To("VN"), SendAsk("AN", "S_NEW"),
              SendAsk("AN", "S_NEW"), Ask("VN") >>,
    AN |-> << To("AN"), To("AN"), Ask("LA"), To("AN"), To("AN"), To("AN"), To("AN"),
              To("AN"), Ask("VN"), Ask("VN"), Ask("VN"), To("AN"), Send("QA", "S_NEW"),
              Send("QA", "S_NEW"), Ask("VN") >>,
    AA |-> << Ask("VN"), To("AA"), Ask("LA"), To("AA"), To("QA"), To("QA"), To("AA"),
              To("AA"), Ask("VP"), Ask("VP"), Ask("VP"), To("AA"), Send("QA", "S_JOIN"),
              Send("QA", "S_JOIN"), Ask("VP") >>,
    QA |-> << Ask("VN"), To("QA"), Ask("LA"), To("QA"), To("QA"), To("QA"), Ask("AA"),
              Ask("AA"), Ask("VP"), Ask("VP"), Ask("VP"), Ask("AA"), To("QA"),
              Send("QA", "S_JOIN"), Ask("VP") >>,
    LA |-> << Ask("VN"), Ask("AA"), To("LA"), To("LA"), To("LA"), To("LA"), To("LA"),
              To("LA"), To("LA"), To("LA"), To("LA"), To("LA"), Send("VO", "S_LV"),
              Ask("LO"), Ask("LO") >>,
    AO |-> << Ask("VN"), Ask("AP"), To("AO"), To("AO"), To("QO"), To("AO"), To("AO"),
              Ask("LO"), Ask("LO"), Ask("LO"), Ask("LO"), To("AO"), To("AO"), Ask("LO"),
              Ask("LO") >>,
    QO |-> << Ask("VN"), To("QP"), To("QO"), To("QO"), To("QO"), To("QO"), To("AO"),
              To("AO"), Ask("LO"), Ask("LO"), Ask("LO"), To("QO"), To("QO"), Ask("LO"),
              Ask("LO") >>,
    AP |-> << Ask("VN"), To("AP"), To("AO"), To("AP"), To("QP"), To("AP"), To("AP"),
              To("AP"), Ask("VP"), Ask("VP"), Ask("VP"), To("AP"), Send("QA", "S_JOIN"),
              Send("QA", "S_JOIN"), Ask("VP") >>,
    QP |-> << Ask("VN"), To("QP"), To("QO"), To("QP"), To("QP"), To("QP"), Ask("AP"),
              Ask("AP"), Ask("VP"), Ask("VP"), Ask("VP"), Ask("AP"), To("QP"),
              Send("QA", "S_JOIN"), Ask("VP") >>,
    LO |-> << Ask("VN"), Ask("VP"), To("LO"), To("LO"), To("LO"), To("LO"), To("VO"),
              To("VO"), To("LO"), To("LO"), To("LO"), To("LO"), Send("VO", "S"), To("LO"),
              To("LO") >> ]

(***************************************************************************)
(* The registrar.                                                          *)
(***************************************************************************)
Reg(state, indication)   == [state |-> state, indicate |-> indication, leaveTimer |-> FALSE]
RegTimed(state)          == [state |-> state, indicate |-> "None", leaveTimer |-> TRUE]

(* The rows of LV, L3, L2 and L1: a registration on its way out.  STOP is   *)
(* no action: "leave timer handled at participant level".                   *)
LeavingRow(state, expired) ==
  << Reg("IN", "NEW"), Reg("IN", "None"), Reg("IN", "None"), Reg(state, "None"),
     Reg(state, "None"), Reg(state, "None"), Reg(state, "None"), Reg("MT", "LV"), expired >>

RegistrarTable ==
  [ IN |-> << Reg("IN", "NEW"), Reg("IN", "None"), Reg("IN", "None"), RegTimed("LV"),
              RegTimed("LV"), RegTimed("LV"), RegTimed("LV"), Reg("MT", "None"),
              Reg("IN", "None") >>,
    LV |-> LeavingRow("LV", RegTimed("L3")),
    L3 |-> LeavingRow("L3", RegTimed("L2")),
    L2 |-> LeavingRow("L2", RegTimed("L1")),
    L1 |-> LeavingRow("L1", Reg("MT", "LV")),
    MT |-> << Reg("IN", "NEW"), Reg("IN", "JOIN"), Reg("IN", "JOIN"), Reg("MT", "None"),
              Reg("MT", "None"), Reg("MT", "None"), Reg("MT", "None"), Reg("MT", "None"),
              Reg("MT", "None") >> ]

(***************************************************************************)
(* The leave-all machine: the number of columns is all that matters below. *)
(***************************************************************************)
LeaveAllTable ==
  [ A |-> << "S_LA", "START_LEAVEALL_TIMER", "REQ_TX" >>,
    P |-> << "NONE", "START_LEAVEALL_TIMER", "REQ_TX" >> ]

(* All other cells are zero: the INVALID state, for which the callers do    *)
(* nothing.                                                                 *)
HasCell(table, state, event) ==
  state \in DOMAIN table /\ event \in DOMAIN table[state]

=============================================================================
