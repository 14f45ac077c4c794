--------------------------- MODULE GptpSyncProofs ---------------------------
(***************************************************************************)
(* Proofs about GptpSync: type correctness, then one inductive invariant   *)
(* for the matching of syncs and follow-ups, one for the pace of the syncs *)
(* sent, and the numbering of the latter.                                  *)
(***************************************************************************)
EXTENDS GptpSync, TLAPS

(***************************************************************************)
(* Records.                                                                *)
(***************************************************************************)
LEMMA SeqType ==
  ASSUME NEW n \in Nat  PROVE (n + 1) % SeqModulus \in 0..(SeqModulus - 1)
  BY SyncAssumption

LEMMA SentType ==
  ASSUME NEW r \in PortType
  PROVE  /\ Sent(r) \in PortType
         /\ Sent(r).seq = (r.seq + 1) % SeqModulus /\ Sent(r).counter = 0
         /\ Sent(r).valid = r.valid /\ Sent(r).waiting = r.waiting
<1>1. ASSUME NEW n \in 0..(SeqModulus - 1), NEW c \in 0..MaxTicks
      PROVE  LET s == [r EXCEPT !.counter = c, !.seq = n]
             IN  /\ s \in PortType /\ s.seq = n /\ s.counter = c
                 /\ s.valid = r.valid /\ s.waiting = r.waiting
  BY DEF PortType
<1>2. r.seq \in Nat
  BY SyncAssumption DEF PortType
<1>3. (r.seq + 1) % SeqModulus \in 0..(SeqModulus - 1) /\ 0 \in 0..MaxTicks
  BY <1>2, SeqType, SyncAssumption
<1>. QED  BY <1>1, <1>3, ZenonT(60) DEF Sent

LEMMA TickedType ==
  ASSUME NEW r \in PortType, NEW newRole
  PROVE  /\ Ticked(r, newRole) \in PortType
         /\ Ticked(r, newRole).valid = r.valid /\ Ticked(r, newRole).waiting = r.waiting
         /\ newRole # "MASTER" => Ticked(r, newRole) = r
         /\ newRole = "MASTER" /\ Due(r) => Ticked(r, newRole) = Sent(r)
         /\ newRole = "MASTER" /\ ~Due(r) =>
              /\ Ticked(r, newRole).seq = r.seq
              /\ Ticked(r, newRole).counter = AtMost(MaxTicks, r.counter + 1)
<1>1. CASE newRole # "MASTER"
  BY <1>1 DEF Ticked
<1>2. CASE newRole = "MASTER" /\ Due(r)
  <2>1. Ticked(r, newRole) = Sent(r)
    BY <1>2, Zenon DEF Ticked
  <2>. QED  BY <1>2, <2>1, SentType
<1>3. CASE newRole = "MASTER" /\ ~Due(r)
  <2>1. ASSUME NEW c \in 0..MaxTicks
        PROVE  LET s == [r EXCEPT !.counter = c]
               IN  /\ s \in PortType /\ s.seq = r.seq /\ s.counter = c
                   /\ s.valid = r.valid /\ s.waiting = r.waiting
    BY DEF PortType
  <2>2. AtMost(MaxTicks, r.counter + 1) \in 0..MaxTicks
    <3>1. r.counter \in 0..MaxTicks
      BY DEF PortType
    <3>. QED  BY <3>1, SyncAssumption DEF AtMost
  <2>3. Ticked(r, newRole) = [r EXCEPT !.counter = AtMost(MaxTicks, r.counter + 1)]
    BY <1>3, Zenon DEF Ticked
  <2>. HIDE DEF Ticked
  <2>. QED  BY <1>3, <2>1, <2>2, <2>3, Zenon
<1>. QED  BY <1>1, <1>2, <1>3

LEMMA RestartedType ==
  ASSUME NEW r \in PortType
  PROVE  /\ Restarted(r) \in PortType
         /\ Restarted(r).valid = FALSE /\ Restarted(r).counter = 0
<1>1. ASSUME NEW n \in 0..(SeqModulus - 1), NEW c \in 0..MaxTicks, NEW i \in Intervals,
             NEW b \in BOOLEAN
      PROVE  LET s == [r EXCEPT !.seq = n, !.valid = b, !.counter = c, !.interval = i]
             IN  s \in PortType /\ s.valid = b /\ s.counter = c
  BY DEF PortType
<1>2. 0 \in 0..(SeqModulus - 1) /\ 0 \in 0..MaxTicks /\ BootInterval \in Intervals
  BY SyncAssumption
<1>. QED  BY <1>1, <1>2, Zenon DEF Restarted

(***************************************************************************)
(* Type correctness.                                                       *)
(***************************************************************************)
LEMMA InitType == Init => TypeOK
<1>1. BootPort \in PortType
  BY SyncAssumption DEF BootPort, PortType
<1>2. Disabled \in [Ports -> PtpRoles]
  BY DEF Disabled, PtpRoles
<1>. QED  BY <1>1, <1>2, SyncAssumption DEF Init, TypeOK

LEMMA TickTransmits ==
  Tick => alive /\ TransmitSyncs
  BY Zenon DEF Tick, TickKeep, TickReselect

LEMMA NewSelection ==
  ASSUME TypeOK, Tick \/ Deinit
  PROVE  role' \in [Ports -> PtpRoles] /\ master' \in Sources \cup {OwnSource, NoSource}
<1>1. Disabled \in [Ports -> PtpRoles]
  BY DEF Disabled, PtpRoles
<1>2. ASSUME NEW s \in Selections, Select(s)
      PROVE  role' \in [Ports -> PtpRoles] /\ master' \in Sources \cup {OwnSource, NoSource}
  <2>1. s \in Selection
    BY DEF Selections
  <2>2. s.role \in [Ports -> PtpRoles] /\ s.master \in Sources \cup {OwnSource}
    BY <2>1 DEF Selection
  <2>. QED  BY <1>2, <2>2 DEF Select
<1>3. CASE Tick
  BY <1>2, <1>3, Zenon DEF Tick, TickKeep, TickReselect, TypeOK
<1>4. CASE Deinit
  <2>1. CASE role' = Disabled /\ master' = NoSource
    BY <1>1, <2>1
  <2>2. CASE \E s \in Selections : Select(s)
    BY <1>2, <2>2, Zenon
  <2>. QED  BY <1>4, <2>1, <2>2, Zenon DEF Deinit
<1>. QED  BY <1>3, <1>4

LEMMA SinceType ==
  ASSUME NEW n \in 0..MaxTicks
  PROVE  AtMost(MaxTicks, n + 1) \in 0..MaxTicks
  BY SyncAssumption DEF AtMost

LEMMA NextType == TypeOK /\ [Next]_vars => TypeOK'
<1>. SUFFICES ASSUME TypeOK, [Next]_vars  PROVE TypeOK'
  OBVIOUS
<1>1. ASSUME NEW p \in Ports, NEW m \in Messages, ReceiveSync(p, m)  PROVE TypeOK'
  <2>1. ASSUME NEW n \in 0..(SeqModulus - 1), NEW b \in BOOLEAN
        PROVE  [port EXCEPT ![p].seq = n, ![p].valid = b, ![p].waiting = b]
                 \in [Ports -> PortType]
    <3>1. [port[p] EXCEPT !.seq = n, !.valid = b, !.waiting = b] \in PortType
      BY DEF TypeOK, PortType
    <3>2. [port EXCEPT ![p] = [port[p] EXCEPT !.seq = n, !.valid = b, !.waiting = b]]
            \in [Ports -> PortType]
      BY <3>1 DEF TypeOK
    <3>3. [port EXCEPT ![p].seq = n, ![p].valid = b, ![p].waiting = b]
            = [port EXCEPT ![p] = [port[p] EXCEPT !.seq = n, !.valid = b, !.waiting = b]]
      BY DEF TypeOK
    <3>. QED  BY <3>2, <3>3, Zenon
  <2>2. m.seq \in 0..(SeqModulus - 1)
    BY SyncAssumption DEF MessageType
  <2>3. port' \in [Ports -> PortType]
    BY <1>1, <2>1, <2>2, Zenon DEF ReceiveSync
  <2>. QED  BY <1>1, <2>3 DEF ReceiveSync, TypeOK
<1>2. ASSUME NEW p \in Ports, NEW f \in Messages, ReceiveFollowUp(p, f)  PROVE TypeOK'
  <2>1. port' \in [Ports -> PortType]
    BY <1>2 DEF ReceiveFollowUp, UsedUp, TypeOK, PortType
  <2>. QED  BY <1>2, <2>1 DEF ReceiveFollowUp, TypeOK
<1>3. ASSUME NEW p \in Ports, NEW i \in Intervals, SetInterval(p, i)  PROVE TypeOK'
  <2>1. port' \in [Ports -> PortType]
    BY <1>3 DEF SetInterval, TypeOK, PortType
  <2>. QED  BY <1>3, <2>1 DEF SetInterval, TypeOK
<1>4. CASE Tick
  <2>1. TransmitSyncs
    BY <1>4, TickTransmits
  <2>2. port' \in [Ports -> PortType]
    <3>1. \A p \in Ports : Ticked(port[p], role'[p]) \in PortType
      BY TickedType DEF TypeOK
    <3>. QED  BY <2>1, <3>1, Zenon DEF TransmitSyncs
  <2>3. since' \in [Ports -> 0..MaxTicks]
    <3>1. \A p \in Ports : since[p] \in 0..MaxTicks
      BY DEF TypeOK
    <3>2. 0 \in 0..MaxTicks
      BY SyncAssumption
    <3>3. \A p \in Ports :
            (IF Sends(p, role') THEN 0 ELSE AtMost(MaxTicks, since[p] + 1)) \in 0..MaxTicks
      BY <3>1, <3>2, SinceType, Zenon
    <3>. QED  BY <2>1, <3>3, Zenon DEF TransmitSyncs
  <2>4. steady' \in [Ports -> BOOLEAN]
    BY <2>1, Zenon DEF TransmitSyncs
  <2>. QED  BY <1>4, <2>1, <2>2, <2>3, <2>4, NewSelection DEF TransmitSyncs, TypeOK
<1>5. CASE Deinit
  <2>1. port' \in [Ports -> PortType]
    <3>1. \A p \in Ports : Restarted(port[p]) \in PortType
      BY RestartedType DEF TypeOK
    <3>. QED  BY <1>5, <3>1, Zenon DEF Deinit, RestartSyncs
  <2>. QED  BY <1>5, <2>1, NewSelection DEF Deinit, RestartSyncs, TypeOK
<1>6. CASE UNCHANGED vars
  BY <1>6 DEF vars, TypeOK
<1>. QED  BY <1>1, <1>2, <1>3, <1>4, <1>5, <1>6, Zenon DEF Next

(* The variables keep their types for every number of ports, every width   *)
(* of the sequence number and every set of intervals: no counter      *)
(* passes its bound.                                                        *)
THEOREM SyncTypeCorrect == Spec => []TypeOK
<1>. QED  BY InitType, NextType, PTL DEF Spec

(* What the safety properties need of the specification: no fairness, so    *)
(* that they hold of whatever implements its steps.                         *)
Behaviour == Init /\ [][Next]_vars

LEMMA SpecBehaves == Spec => Behaviour
  BY PTL DEF Spec, Behaviour

(***************************************************************************)
(* Matching.  A sync is held by a port exactly while its number is valid,  *)
(* and it is still the number of the port as long as role and master are   *)
(* the ones it was taken under: only then does no sync sent overwrite it.  *)
(***************************************************************************)
HeldSync(p) ==
  port[p].valid =>
    /\ taken[p] \in Messages
    /\ steady[p] => /\ role[p] = "SLAVE"
                    /\ taken[p].source = master /\ taken[p].seq = port[p].seq

Held == \A p \in Ports : HeldSync(p)

LEMMA InitHeld == Init => Held
  BY DEF Init, BootPort, Held, HeldSync

LEMMA NextHeld == TypeOK /\ Held /\ [Next]_vars => Held'
<1>. SUFFICES ASSUME TypeOK, Held, [Next]_vars, NEW q \in Ports  PROVE HeldSync(q)'
  BY DEF Held
<1>. HeldSync(q) /\ port[q] \in PortType
  BY DEF Held, TypeOK
<1>1. ASSUME NEW p \in Ports, NEW m \in Messages, ReceiveSync(p, m)  PROVE HeldSync(q)'
  <2>1. CASE q = p
    <3>1. /\ port'[q].valid /\ port'[q].seq = m.seq
          /\ taken'[q] = m /\ role' = role /\ master' = master
      BY <1>1, <2>1 DEF ReceiveSync, TypeOK, PortType
    <3>2. role[p] = "SLAVE" /\ m.source = master
      BY <1>1 DEF ReceiveSync, Respects
    <3>. QED  BY <2>1, <3>1, <3>2 DEF HeldSync
  <2>2. CASE q # p
    <3>1. /\ port'[q] = port[q] /\ taken'[q] = taken[q] /\ steady'[q] = steady[q]
          /\ role' = role /\ master' = master
      BY <1>1, <2>2 DEF ReceiveSync, TypeOK
    <3>. QED  BY <3>1 DEF HeldSync
  <2>. QED  BY <2>1, <2>2
<1>2. ASSUME NEW p \in Ports, NEW f \in Messages, ReceiveFollowUp(p, f)  PROVE HeldSync(q)'
  <2>1. CASE q = p
    <3>1. ~port'[q].valid
      BY <1>2, <2>1 DEF ReceiveFollowUp, UsedUp, TypeOK, PortType
    <3>. QED  BY <3>1 DEF HeldSync
  <2>2. CASE q # p
    <3>1. /\ port'[q] = port[q] /\ taken'[q] = taken[q] /\ steady' = steady
          /\ role' = role /\ master' = master
      BY <1>2, <2>2 DEF ReceiveFollowUp, TypeOK
    <3>. QED  BY <3>1 DEF HeldSync
  <2>. QED  BY <2>1, <2>2
<1>3. ASSUME NEW p \in Ports, NEW i \in Intervals, SetInterval(p, i)  PROVE HeldSync(q)'
  <2>1. /\ port'[q].valid = port[q].valid /\ port'[q].seq = port[q].seq
        /\ taken' = taken /\ steady' = steady /\ role' = role /\ master' = master
    BY <1>3 DEF SetInterval, TypeOK, PortType
  <2>. QED  BY <2>1 DEF HeldSync
<1>4. CASE Tick
  <2>1. TransmitSyncs
    BY <1>4, TickTransmits
  <2>2. /\ port'[q] = Ticked(port[q], role'[q]) /\ taken' = taken
        /\ steady'[q] = (steady[q] /\ role'[q] = role[q] /\ master' = master)
    BY <2>1 DEF TransmitSyncs
  <2>3. port'[q].valid = port[q].valid
    BY <2>2, TickedType
  <2>4. CASE port[q].valid /\ steady'[q]
    <3>1. steady[q] /\ role'[q] = "SLAVE" /\ master' = master
      BY <2>2, <2>4 DEF HeldSync
    <3>2. port'[q] = port[q]
      BY <2>2, <3>1, TickedType
    <3>. QED  BY <2>2, <3>1, <3>2 DEF HeldSync
  <2>5. CASE ~(port[q].valid /\ steady'[q])
    BY <2>2, <2>3, <2>5 DEF HeldSync
  <2>. QED  BY <2>4, <2>5
<1>5. CASE Deinit
  <2>1. port'[q].valid = FALSE
    BY <1>5, RestartedType DEF Deinit, RestartSyncs
  <2>. QED  BY <2>1 DEF HeldSync
<1>6. CASE UNCHANGED vars
  BY <1>6 DEF vars, HeldSync
<1>. QED  BY <1>1, <1>2, <1>3, <1>4, <1>5, <1>6, Zenon DEF Next

LEMMA HeldAlways == Behaviour => [](TypeOK /\ Held)
<1>. QED  BY InitType, InitHeld, NextType, NextHeld, PTL DEF Behaviour

LEMMA MatchedAlways == Behaviour => []MatchedWhileSteady
<1>1. TypeOK /\ Held => MatchedWhileSteady
  <2>. SUFFICES ASSUME TypeOK, Held, NEW p \in Ports, NEW f \in Messages,
                       Accepts(p, f), steady[p]
                PROVE  taken[p] = f
    BY DEF MatchedWhileSteady
  <2>1. /\ taken[p] \in Messages /\ taken[p].source = master
        /\ taken[p].seq = port[p].seq
    BY Zenon DEF Held, HeldSync, Accepts
  <2>2. f.source = master /\ f.seq = port[p].seq
    BY Zenon DEF Accepts, Respects
  <2>3. taken[p] \in MessageType /\ f \in MessageType
    BY <2>1, SyncAssumption
  <2>. QED  BY <2>1, <2>2, <2>3 DEF MessageType
<1>. QED  BY <1>1, HeldAlways, PTL

(* A follow-up that would be accepted completes the sync the port took the  *)
(* time of, while role and master stay, for every instance.                 *)
THEOREM MatchedInvariant == Spec => []MatchedWhileSteady
  BY SpecBehaves, MatchedAlways, PTL

LEMMA UsedOnceAlways == Behaviour => []SyncUsedOnce
<1>1. TypeOK /\ Held => SyncUsedOnce
  <2>. SUFFICES ASSUME Held, NEW p \in Ports, NEW f \in Messages, Accepts(p, f)
                PROVE  taken[p] # NoSync
    BY DEF SyncUsedOnce
  <2>1. taken[p] \in Messages
    BY Zenon DEF Held, HeldSync, Accepts
  <2>. QED  BY <2>1, SyncAssumption
<1>. QED  BY <1>1, HeldAlways, PTL

(* The receive time of a sync enters the clock once, for every instance.    *)
THEOREM UsedOnceInvariant == Spec => []SyncUsedOnce
  BY SpecBehaves, UsedOnceAlways, PTL

(***************************************************************************)
(* The syncs sent.                                                         *)
(***************************************************************************)
LEMMA AtMostMonotonic ==
  ASSUME NEW a \in Nat, NEW b \in Nat, a <= b
  PROVE  AtMost(MaxTicks, a + 1) <= AtMost(MaxTicks, b + 1)
  BY SyncAssumption DEF AtMost

LEMMA NextPaced == TypeOK /\ SyncPaced /\ [Next]_vars => SyncPaced'
<1>. SUFFICES ASSUME TypeOK, SyncPaced, [Next]_vars, NEW q \in Ports
              PROVE  port'[q].counter <= since'[q]
  BY DEF SyncPaced
<1>. /\ port[q] \in PortType /\ port[q].counter \in 0..MaxTicks /\ since[q] \in 0..MaxTicks
     /\ port[q].counter <= since[q]
  BY DEF SyncPaced, TypeOK, PortType
<1>1. ASSUME NEW p \in Ports, NEW m \in Messages, ReceiveSync(p, m)
      PROVE  port'[q].counter <= since'[q]
  <2>1. port'[q].counter = port[q].counter /\ since' = since
    BY <1>1 DEF ReceiveSync, TypeOK, PortType
  <2>. QED  BY <2>1
<1>2. ASSUME NEW p \in Ports, NEW f \in Messages, ReceiveFollowUp(p, f)
      PROVE  port'[q].counter <= since'[q]
  <2>1. port'[q].counter = port[q].counter /\ since' = since
    BY <1>2 DEF ReceiveFollowUp, UsedUp, TypeOK, PortType
  <2>. QED  BY <2>1
<1>3. ASSUME NEW p \in Ports, NEW i \in Intervals, SetInterval(p, i)
      PROVE  port'[q].counter <= since'[q]
  <2>1. port'[q].counter = port[q].counter /\ since' = since
    BY <1>3 DEF SetInterval, TypeOK, PortType
  <2>. QED  BY <2>1
<1>4. CASE Tick
  <2>1. TransmitSyncs
    BY <1>4, TickTransmits
  <2>2. /\ port'[q] = Ticked(port[q], role'[q])
        /\ since'[q] = IF Sends(q, role') THEN 0 ELSE AtMost(MaxTicks, since[q] + 1)
    BY <2>1 DEF TransmitSyncs
  <2>3. since[q] + 1 \in Nat /\ since[q] <= AtMost(MaxTicks, since[q] + 1)
    BY SyncAssumption DEF AtMost
  <2>4. CASE role'[q] # "MASTER"
    <3>1. port'[q] = port[q] /\ since'[q] = AtMost(MaxTicks, since[q] + 1)
      BY <2>2, <2>4, TickedType, Zenon DEF Sends
    <3>. QED  BY <2>3, <3>1 DEF AtMost
  <2>5. CASE role'[q] = "MASTER" /\ Due(port[q])
    <3>1. port'[q] = Sent(port[q])
      BY <2>2, <2>5, TickedType
    <3>2. port'[q].counter = 0
      BY <3>1, SentType
    <3>3. since'[q] = 0
      BY <2>2, <2>5 DEF Sends
    <3>. QED  BY <3>2, <3>3
  <2>6. CASE role'[q] = "MASTER" /\ ~Due(port[q])
    <3>1. port'[q].counter = AtMost(MaxTicks, port[q].counter + 1)
      BY <2>2, <2>6, TickedType
    <3>2. since'[q] = AtMost(MaxTicks, since[q] + 1)
      BY <2>2, <2>6 DEF Sends
    <3>3. port[q].counter \in Nat /\ since[q] \in Nat
      OBVIOUS
    <3>. QED  BY <3>1, <3>2, <3>3, AtMostMonotonic
  <2>. QED  BY <2>4, <2>5, <2>6
<1>5. CASE Deinit
  <2>1. port'[q].counter = 0 /\ since' = since
    BY <1>5, RestartedType DEF Deinit, RestartSyncs
  <2>. QED  BY <2>1
<1>6. CASE UNCHANGED vars
  BY <1>6 DEF vars
<1>. QED  BY <1>1, <1>2, <1>3, <1>4, <1>5, <1>6, Zenon DEF Next

LEMMA PacedAlways == Behaviour => []SyncPaced
<1>1. Init => SyncPaced
  BY DEF Init, BootPort, SyncPaced
<1>. QED  BY <1>1, InitType, NextType, NextPaced, PTL DEF Behaviour

(* Syncs on a port are never closer than its interval, for every instance.  *)
THEOREM PacedInvariant == Spec => []SyncPaced
  BY SpecBehaves, PacedAlways, PTL

LEMMA NumberedAlways == Behaviour => MasterSequence
<1>. DEFINE Numbered(q) ==
       role[q] = "MASTER" /\ role'[q] = "MASTER" =>
         \/ port'[q].seq = port[q].seq /\ since'[q] >= since[q]
         \/ port'[q].seq = (port[q].seq + 1) % SeqModulus /\ since'[q] = 0
         \/ port'[q] = Restarted(port[q])
<1>1. TypeOK /\ [Next]_vars => [\A q \in Ports : Numbered(q)]_vars
  <2>. SUFFICES ASSUME TypeOK, [Next]_vars, NEW q \in Ports,
                       role[q] = "MASTER", role'[q] = "MASTER"
                PROVE  Numbered(q)
    OBVIOUS
  <2>. port[q] \in PortType /\ since[q] \in 0..MaxTicks
    BY DEF TypeOK
  <2>1. ASSUME NEW p \in Ports, NEW m \in Messages, ReceiveSync(p, m)  PROVE Numbered(q)
    <3>1. q # p
      BY <2>1 DEF ReceiveSync, Respects
    <3>2. port'[q] = port[q] /\ since' = since
      BY <2>1, <3>1 DEF ReceiveSync, TypeOK
    <3>. QED  BY <3>2
  <2>2. ASSUME NEW p \in Ports, NEW f \in Messages, ReceiveFollowUp(p, f)  PROVE Numbered(q)
    <3>1. port'[q].seq = port[q].seq /\ since' = since
      BY <2>2 DEF ReceiveFollowUp, UsedUp, TypeOK, PortType
    <3>. QED  BY <3>1
  <2>3. ASSUME NEW p \in Ports, NEW i \in Intervals, SetInterval(p, i)  PROVE Numbered(q)
    <3>1. port'[q].seq = port[q].seq /\ since' = since
      BY <2>3 DEF SetInterval, TypeOK, PortType
    <3>. QED  BY <3>1
  <2>4. CASE Tick
    <3>1. TransmitSyncs
      BY <2>4, TickTransmits
    <3>2. /\ port'[q] = Ticked(port[q], role'[q])
          /\ since'[q] = IF Sends(q, role') THEN 0 ELSE AtMost(MaxTicks, since[q] + 1)
      BY <3>1 DEF TransmitSyncs
    <3>3. CASE Due(port[q])
      <4>1. port'[q] = Sent(port[q])
        BY <3>2, <3>3, TickedType
      <4>2. port'[q].seq = (port[q].seq + 1) % SeqModulus
        BY <4>1, SentType
      <4>3. since'[q] = 0
        BY <3>2, <3>3 DEF Sends
      <4>. QED  BY <4>2, <4>3
    <3>4. CASE ~Due(port[q])
      <4>1. port'[q].seq = port[q].seq
        BY <3>2, <3>4, TickedType
      <4>2. since'[q] = AtMost(MaxTicks, since[q] + 1)
        BY <3>2, <3>4 DEF Sends
      <4>3. AtMost(MaxTicks, since[q] + 1) >= since[q]
        BY SyncAssumption DEF AtMost
      <4>. QED  BY <4>1, <4>2, <4>3
    <3>. QED  BY <3>3, <3>4
  <2>5. CASE Deinit
    BY <2>5 DEF Deinit, RestartSyncs
  <2>6. CASE UNCHANGED vars
    BY <2>6 DEF vars
  <2>. QED  BY <2>1, <2>2, <2>3, <2>4, <2>5, <2>6, Zenon DEF Next
<1>2. [\A q \in Ports : Numbered(q)]_vars
        => [\A p \in Ports : role[p] = "MASTER" /\ role'[p] = "MASTER" =>
             \/ port'[p].seq = port[p].seq /\ since'[p] >= since[p]
             \/ port'[p].seq = (port[p].seq + 1) % SeqModulus /\ since'[p] = 0
             \/ port'[p] = Restarted(port[p])]_vars
  OBVIOUS
<1>. HIDE DEF Numbered
<1>. QED  BY <1>1, <1>2, InitType, NextType, PTL DEF Behaviour, MasterSequence

(* A port that stays master numbers its syncs without gap and without       *)
(* repeat, whatever it receives, for every instance.                        *)
THEOREM MasterSequenceProperty == Spec => MasterSequence
  BY SpecBehaves, NumberedAlways, PTL

(***************************************************************************)
(* The syncs go on.  ENABLED is out of the provers' reach: TickMoves is a  *)
(* hypothesis, which TLC checks.                                           *)
(*                                                                         *)
(* Every tick takes one off what the counter of a master port lacks to the *)
(* longest interval, or sends, so that this rank decreases until a sync is *)
(* sent.  That it falls by one in time is one step of temporal logic; that *)
(* it falls by 2w when it falls by w, wherever it starts, another: after   *)
(* 32 of them it has fallen further than a counter of 32 bits reaches.     *)
(***************************************************************************)
Lacks(p) == MaxTicks - port[p].counter

Falls(p, a, b) == (Lacks(p) < a) ~> (Lacks(p) < b \/ since[p] = 0)

FallsBy(p, w) == \A n \in Nat : Falls(p, n + w, n)

LEMMA FallsFurther ==
  ASSUME NEW p, NEW a, NEW b, NEW c
  PROVE  Falls(p, a, b) /\ Falls(p, b, c) => Falls(p, a, c)
  BY PTL DEF Falls

LEMMA FallsTwice ==
  ASSUME NEW p, NEW w \in Nat
  PROVE  FallsBy(p, w) => FallsBy(p, w + w)
<1>. SUFFICES ASSUME FallsBy(p, w), NEW n \in Nat  PROVE Falls(p, n + (w + w), n)
  BY DEF FallsBy
<1>1. n + w \in Nat /\ (n + w) + w = n + (w + w)
  OBVIOUS
<1>2. Falls(p, n + w, n)
  BY DEF FallsBy
<1>3. Falls(p, (n + w) + w, n + w)
  BY <1>1 DEF FallsBy
<1>. QED  BY <1>1, <1>2, <1>3, FallsFurther

LEMMA FallsSixteenTimes ==
  ASSUME NEW p, NEW w \in Nat
  PROVE  FallsBy(p, w) => FallsBy(p, 16 * w)
<1>1. /\ 2 * w \in Nat /\ 4 * w \in Nat /\ 8 * w \in Nat
      /\ 2 * w = w + w /\ 4 * w = 2 * w + 2 * w /\ 8 * w = 4 * w + 4 * w
      /\ 16 * w = 8 * w + 8 * w
  OBVIOUS
<1>2. FallsBy(p, w) => FallsBy(p, 2 * w)
  BY <1>1, FallsTwice
<1>3. FallsBy(p, 2 * w) => FallsBy(p, 4 * w)
  BY <1>1, FallsTwice
<1>4. FallsBy(p, 4 * w) => FallsBy(p, 8 * w)
  BY <1>1, FallsTwice
<1>5. FallsBy(p, 8 * w) => FallsBy(p, 16 * w)
  BY <1>1, FallsTwice
<1>. QED  BY <1>2, <1>3, <1>4, <1>5

LEMMA FallsAllTheWay ==
  ASSUME NEW p
  PROVE  FallsBy(p, 1) => Falls(p, 4294967296, 0)
<1>1. FallsBy(p, 1) => FallsBy(p, 16)
  BY FallsSixteenTimes
<1>2. FallsBy(p, 16) => FallsBy(p, 256)
  BY FallsSixteenTimes
<1>3. FallsBy(p, 256) => FallsBy(p, 4096)
  BY FallsSixteenTimes
<1>4. FallsBy(p, 4096) => FallsBy(p, 65536)
  BY FallsSixteenTimes
<1>5. FallsBy(p, 65536) => FallsBy(p, 1048576)
  BY FallsSixteenTimes
<1>6. FallsBy(p, 1048576) => FallsBy(p, 16777216)
  BY FallsSixteenTimes
<1>7. FallsBy(p, 16777216) => FallsBy(p, 268435456)
  BY FallsSixteenTimes
<1>8. FallsBy(p, 268435456) => FallsBy(p, 4294967296)
  BY FallsSixteenTimes
<1>9. FallsBy(p, 4294967296) => Falls(p, 4294967296, 0)
  <2>1. 0 \in Nat /\ 0 + 4294967296 = 4294967296
    OBVIOUS
  <2>. QED  BY <2>1 DEF FallsBy
<1>. QED  BY <1>1, <1>2, <1>3, <1>4, <1>5, <1>6, <1>7, <1>8, <1>9

(* A tick sends a sync on a master port or brings it one tick nearer.       *)
LEMMA MasterTick ==
  ASSUME TypeOK, Tick, NEW p \in Ports, role'[p] = "MASTER"
  PROVE  since'[p] = 0 \/ Lacks(p)' = Lacks(p) - 1
<1>. port[p] \in PortType
  BY DEF TypeOK
<1>1. /\ port'[p] = Ticked(port[p], role'[p])
      /\ since'[p] = IF Sends(p, role') THEN 0 ELSE AtMost(MaxTicks, since[p] + 1)
  BY TickTransmits DEF TransmitSyncs
<1>2. CASE Due(port[p])
  BY <1>1, <1>2 DEF Sends
<1>3. CASE ~Due(port[p])
  <2>1. port'[p].counter = AtMost(MaxTicks, port[p].counter + 1)
    BY <1>1, <1>3, TickedType
  <2>2. /\ port[p].counter \in 0..MaxTicks /\ port[p].interval \in 0..MaxTicks
        /\ ~(port[p].counter + 1 >= port[p].interval)
    BY <1>3, SyncAssumption DEF Due, PortType
  <2>3. port'[p].counter = port[p].counter + 1
    BY <2>1, <2>2, SyncAssumption DEF AtMost
  <2>. QED  BY <2>2, <2>3, SyncAssumption DEF Lacks
<1>. QED  BY <1>2, <1>3

(* No other step but a restart touches the counter.                         *)
LEMMA NotSetBack ==
  ASSUME TypeOK, TypeOK', [Next /\ ~Deinit]_vars, NEW p \in Ports, role'[p] = "MASTER"
  PROVE  since'[p] = 0 \/ Lacks(p)' = Lacks(p) \/ Lacks(p)' = Lacks(p) - 1
<1>1. CASE \/ \E q \in Ports, m \in Messages : ReceiveSync(q, m) \/ ReceiveFollowUp(q, m)
           \/ \E q \in Ports, i \in Intervals : SetInterval(q, i)
  <2>1. ASSUME NEW q \in Ports, NEW m \in Messages, ReceiveSync(q, m)
        PROVE  port'[p].counter = port[p].counter
    BY <2>1 DEF ReceiveSync, TypeOK, PortType
  <2>2. ASSUME NEW q \in Ports, NEW m \in Messages, ReceiveFollowUp(q, m)
        PROVE  port'[p].counter = port[p].counter
    BY <2>2 DEF ReceiveFollowUp, UsedUp, TypeOK, PortType
  <2>3. ASSUME NEW q \in Ports, NEW i \in Intervals, SetInterval(q, i)
        PROVE  port'[p].counter = port[p].counter
    BY <2>3 DEF SetInterval, TypeOK, PortType
  <2>. QED  BY <1>1, <2>1, <2>2, <2>3 DEF Lacks
<1>2. CASE Tick
  BY <1>2, MasterTick
<1>3. CASE UNCHANGED vars
  BY <1>3 DEF vars, Lacks
<1>. QED  BY <1>1, <1>2, <1>3, Zenon DEF Next

Reign(p) ==
  /\ []TypeOK /\ []TickMoves /\ WF_vars(Tick)
  /\ [][Next /\ ~Deinit]_vars
  /\ [](alive /\ role[p] = "MASTER")

LEMMA ReignFalls ==
  ASSUME NEW p \in Ports
  PROVE  Reign(p) => FallsBy(p, 1)
<1>1. ASSUME NEW n \in Nat
      PROVE  Reign(p) => Falls(p, n + 1, n)
  <2>1. /\ TypeOK /\ TypeOK' /\ (role[p] = "MASTER")' /\ Lacks(p) < n + 1
        /\ [Next /\ ~Deinit]_vars
        => (Lacks(p) < n + 1)' \/ (since[p] = 0)'
    <3>1. TypeOK => Lacks(p) \in Int
      BY SyncAssumption DEF TypeOK, PortType, Lacks
    <3>. QED  BY <3>1, NotSetBack
  <2>2. /\ TypeOK /\ TypeOK' /\ (role[p] = "MASTER")' /\ Lacks(p) < n + 1 /\ <<Tick>>_vars
        => (Lacks(p) < n)' \/ (since[p] = 0)'
    <3>1. TypeOK => Lacks(p) \in Int
      BY SyncAssumption DEF TypeOK, PortType, Lacks
    <3>. QED  BY <3>1, MasterTick
  <2>3. alive /\ role[p] = "MASTER" /\ ~(since[p] = 0)
        => SyncOutstanding
    BY DEF SyncOutstanding
  <2>. QED  BY <2>1, <2>2, <2>3, PTL DEF Reign, Falls, TickMoves
<1>. QED  BY <1>1 DEF FallsBy

(* A port that stays master goes on sending syncs, for every number of      *)
(* ports, all neighbours and every set of intervals a 32-bit tick counter   *)
(* can wait for.                                                            *)
THEOREM KeepsSyncingInTime ==
  ASSUME MaxTicks < 4294967296
  PROVE  Spec /\ []TickMoves => KeepsSyncing
<1>1. ASSUME NEW p \in Ports
      PROVE  Spec /\ []TickMoves /\ <>[][~Deinit]_vars =>
               (<>[](alive /\ role[p] = "MASTER") => []<>(since[p] = 0))
  <2>1. TypeOK => Lacks(p) < 4294967296 /\ ~(Lacks(p) < 0)
    BY SyncAssumption DEF TypeOK, PortType, Lacks
  <2>2. Reign(p) => Falls(p, 4294967296, 0)
    BY ReignFalls, FallsAllTheWay
  <2>3. [Next]_vars /\ [~Deinit]_vars => [Next /\ ~Deinit]_vars
    OBVIOUS
  <2>. QED  BY <2>1, <2>2, <2>3, SyncTypeCorrect, PTL DEF Spec, Reign, Falls
<1>. QED  BY <1>1 DEF KeepsSyncing

=============================================================================
