----------------------------- MODULE BlockDevice -----------------------------
(***************************************************************************)
(* What a BlockBackend promises the threads that share it: each call reads *)
(* or writes its sector in one instant between the call and its return.    *)
(* A write that fails may have spoiled its own sector and no other.        *)
(* The abstract specification of SectorFile.                               *)
(***************************************************************************)
EXTENDS Naturals

CONSTANTS
  Callers,   \* the threads that share the backend
  Sectors,   \* its sectors
  Contents,  \* what a sector may hold
  Data,      \* what may be written to one
  Whole(_),  \* the content of a sector that was written so
  Read(_), Write(_, _),   \* the requests
  NoRequest, NoAnswer, Done, Error

VARIABLES
  disk,      \* what each sector holds
  request,   \* what each caller asked for
  applied,   \* the callers whose write has taken effect
  answer     \* what each caller's last call returned

vars == <<disk, request, applied, answer>>

Init ==
  /\ disk \in [Sectors -> Contents]
  /\ request = [c \in Callers |-> NoRequest]
  /\ applied = {}
  /\ answer = [c \in Callers |-> NoAnswer]

Ask(c, r) ==
  /\ request[c] = NoRequest
  /\ request' = [request EXCEPT ![c] = r]
  /\ UNCHANGED <<disk, applied, answer>>

\* A sector out of range is asked for and refused in one step.
Call(c) == \E s \in Sectors : Ask(c, Read(s)) \/ \E d \in Data : Ask(c, Write(s, d))

Refuse(c) ==
  /\ request[c] = NoRequest
  /\ answer' = [answer EXCEPT ![c] = Error]
  /\ UNCHANGED <<disk, request, applied>>

Return(c, a) ==
  /\ answer' = [answer EXCEPT ![c] = a]
  /\ request' = [request EXCEPT ![c] = NoRequest]

ReadSector(c) ==
  /\ \E s \in Sectors : request[c] = Read(s) /\ Return(c, disk[s])
  /\ UNCHANGED <<disk, applied>>

WriteSector(c) ==
  /\ c \notin applied
  /\ \E s \in Sectors, d \in Data :
       request[c] = Write(s, d) /\ disk' = [disk EXCEPT ![s] = Whole(d)]
  /\ applied' = applied \cup {c}
  /\ UNCHANGED <<request, answer>>

WriteReturns(c) ==
  /\ c \in applied
  /\ applied' = applied \ {c}
  /\ Return(c, Done)
  /\ UNCHANGED disk

\* An I/O error: a write that has begun leaves anything in its sector.
Fail(c) ==
  /\ request[c] # NoRequest
  /\ Return(c, Error)
  /\ applied' = applied \ {c}
  /\ \/ disk' = disk
     \/ c \in applied /\ \E s \in Sectors, d \in Data, junk \in Contents :
          request[c] = Write(s, d) /\ disk' = [disk EXCEPT ![s] = junk]

Next ==
  \E c \in Callers :
    Call(c) \/ Refuse(c) \/ ReadSector(c) \/ WriteSector(c) \/ WriteReturns(c) \/ Fail(c)

Spec == Init /\ [][Next]_vars

=============================================================================
