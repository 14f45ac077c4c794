-------------------------- MODULE PriorityVectors --------------------------
(***************************************************************************)
(* The priority vectors the best master clock algorithm of src/ptp         *)
(* compares (vtss_gptp_private.h, struct PtpPriorityVector).  The code     *)
(* keeps a vector as 28 big-endian bytes and compares with memcmp, so a    *)
(* vector is better when it is lexicographically smaller.  A field is      *)
(* modelled by its rank: what the algorithm sees of a system identity, of  *)
(* a source port identity or of a port number is its order and which       *)
(* identities carry this clock's own clockIdentity.                        *)
(***************************************************************************)
EXTENDS Naturals

CONSTANTS
  NumPorts,      \* gptpm.numPorts
  MaxRoot,       \* rank of the all-ones system identity (priority1 = 255, ...)
  SystemRoot,    \* rank of this system's own identity, systemPriority.rootSystemIdentity
  SelfRoots,     \* the identities whose clockIdentity is this clock's, whatever their priorities
  NoGmRoots,     \* the identities with priority1 = 255
  MaxSteps,      \* the largest stepsRemoved, 2^16 - 1 in the code
  MaxSource,     \* rank of the all-ones source port identity
  OwnSource      \* rank of this clock's own sourcePortIdentity.clockIdentity

Roots   == 0 .. MaxRoot
Steps   == 0 .. MaxSteps
Sources == 0 .. MaxSource
Ports   == 0 .. NumPorts - 1          \* the code's port indices are 0-based
PortNumbers == 0 .. NumPorts + 1      \* 0: this system; p + 1: port p; NumPorts + 1: all ones

Vectors == [root : Roots, steps : Steps, source : Sources, portNumber : PortNumbers]

ASSUME VectorsAssumption ==
  /\ NumPorts \in Nat \ {0}
  /\ MaxRoot \in Nat /\ MaxSteps \in Nat /\ MaxSource \in Nat
  /\ SelfRoots \subseteq Roots /\ NoGmRoots \subseteq Roots
  /\ SystemRoot \in SelfRoots
  /\ MaxRoot \in NoGmRoots \ SelfRoots
  /\ OwnSource \in Sources \ {MaxSource}

(***************************************************************************)
(* memcmp(a, b, sizeof(PtpPriorityVector)) < 0, the order every comparison *)
(* of the code reduces to.                                                 *)
(***************************************************************************)
Better(a, b) ==
  \/ a.root < b.root
  \/ /\ a.root = b.root
     /\ \/ a.steps < b.steps
        \/ /\ a.steps = b.steps
           /\ \/ a.source < b.source
              \/ a.source = b.source /\ a.portNumber < b.portNumber

(* memset(&vector, 0xFF, sizeof(PtpPriorityVector)) *)
AllOnes ==
  [root |-> MaxRoot, steps |-> MaxSteps, source |-> MaxSource, portNumber |-> NumPorts + 1]

(* The vector of a port no state machine has run for: zero-initialised memory. *)
ZeroVector == [root |-> 0, steps |-> 0, source |-> 0, portNumber |-> 0]

(* systemPriority, as gptp_sw_init builds it *)
SystemPriority ==
  [root |-> SystemRoot, steps |-> 0, source |-> OwnSource, portNumber |-> 0]

(* Mutant: the addition does not wrap. *)
NextStepUnbounded(n) == n + 1

(* The 16-bit addition of one hop. *)
NextStep(n) == (n + 1) % (MaxSteps + 1)

(* gmPathPriority: the port's vector one hop further. *)
OneHopFurther(v) == [v EXCEPT !.steps = NextStep(@)]

(* masterPriority: the grandmaster's vector as port p of this system announces it. *)
MasterPriority(v, p) == [v EXCEPT !.source = OwnSource, !.portNumber = p + 1]

(* messagePriority: the vector of announce message m received on port p. *)
MessagePriority(m, p) ==
  [root |-> m.root, steps |-> m.steps, source |-> m.source, portNumber |-> p + 1]

=============================================================================
