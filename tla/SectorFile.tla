------------------------------ MODULE SectorFile ------------------------------
(***************************************************************************)
(* A disk image served sector by sector to several threads: RawBackend and *)
(* VhdFixedBackend after open, whose read_sector and write_sector are the  *)
(* same.                                                                   *)
(* Source: hyperpod/src/vmm/common/storage/raw.rs and vhd.rs.              *)
(*                                                                         *)
(* A call checks its arguments, takes the file's mutex, seeks and          *)
(* transfers.  The file has one position for all callers; read_exact and   *)
(* write_all move a sector in several system calls (here two, one half     *)
(* each), any of which can fail.  `?` then returns and drops the guard.    *)
(* Nothing panics while the mutex is held, so it is never poisoned.        *)
(* flush takes the mutex and does nothing: File::flush is a no-op.         *)
(***************************************************************************)
EXTENDS Integers, FiniteSets

CONSTANTS
  Callers,   \* the threads that share the backend
  SectorCount,   \* its sectors
  FileSectors,   \* the file's: one more than SectorCount with a VHD footer
  Data,      \* what a caller may write to a sector
  Nobody

\* A backend serves n sectors of a file of m.
FileHolds(n, m) == n \in Nat \ {0} /\ m \in Nat /\ n <= m

\* What open established (see RootfsOpen, and RootfsFitsFile in StorageProofs).
ASSUME FileAssumption ==
  FileHolds(SectorCount, FileSectors) /\ Nobody \notin Callers

Sectors == 0..(SectorCount - 1)
Units == 0..(2 * FileSectors - 1)   \* the half sectors of the file

Blank == "blank"        \* the payload of a new image
Footer == "footer"      \* whatever follows the payload
Pieces == Data \cup {Blank, Footer}

VARIABLES
  file,      \* the content of each half sector
  pos,       \* the position of the open file
  holder,    \* who holds the mutex
  pc,        \* "idle", "called", "locked", "first", "second", "over"
  op,        \* the call each caller makes
  buf,       \* the halves a read has filled in
  answer     \* what each caller's last call returned

vars == <<file, pos, holder, pc, op, buf, answer>>

NoRequest == <<"none">>
ReadOf(s) == <<"read", s>>
WriteOf(s, d) == <<"write", s, d>>
Requests == {ReadOf(s) : s \in Sectors} \cup {WriteOf(s, d) : s \in Sectors, d \in Data}
NoAnswer == <<"none">>
Done == <<"ok">>
Error == <<"error">>
Nothing == <<Blank, Blank>>

Writes(c) == op[c][1] = "write"

Init ==
  /\ file = [u \in Units |-> IF u < 2 * SectorCount THEN Blank ELSE Footer]
  /\ pos = 0
  /\ holder = Nobody
  /\ pc = [c \in Callers |-> "idle"]
  /\ op = [c \in Callers |-> NoRequest]
  /\ buf = [c \in Callers |-> Nothing]
  /\ answer = [c \in Callers |-> NoAnswer]

-----------------------------------------------------------------------------

\* Faulty InRange: an off-by-one.
InRangeOrNext(sector) == sector <= SectorCount

\* `sector >= self.sectors` is refused.
InRange(sector) == sector < SectorCount

Call(c, request) ==
  /\ pc[c] = "idle"
  /\ InRange(request[2])
  /\ op' = [op EXCEPT ![c] = request]
  /\ pc' = [pc EXCEPT ![c] = "called"]
  /\ UNCHANGED <<file, pos, holder, buf, answer>>

\* The sector is out of range, or the buffer is not one sector long.
Refuse(c) ==
  /\ pc[c] = "idle"
  /\ answer' = [answer EXCEPT ![c] = Error]
  /\ UNCHANGED <<file, pos, holder, pc, op, buf>>

\* Faulty Lock: the guard is dropped as soon as it is taken.
LockAndDrop(c) ==
  /\ pc[c] = "called" /\ holder = Nobody
  /\ pc' = [pc EXCEPT ![c] = "locked"]
  /\ UNCHANGED <<file, pos, holder, op, buf, answer>>

Lock(c) ==
  /\ pc[c] = "called" /\ holder = Nobody
  /\ holder' = c
  /\ pc' = [pc EXCEPT ![c] = "locked"]
  /\ UNCHANGED <<file, pos, op, buf, answer>>

\* Faulty Seek: the file is read from where the last call left it.
SeekNowhere(c) ==
  /\ pc[c] = "locked"
  /\ pc' = [pc EXCEPT ![c] = "first"]
  /\ UNCHANGED <<file, pos, holder, op, buf, answer>>

Seek(c) ==
  /\ pc[c] = "locked"
  /\ pos' = 2 * op[c][2]
  /\ pc' = [pc EXCEPT ![c] = "first"]
  /\ UNCHANGED <<file, holder, op, buf, answer>>

\* One system call of read_exact or write_all: half a sector at the file's
\* position, which it moves on.
Transfer(c) ==
  /\ pc[c] \in {"first", "second"}
  /\ pos \in Units
  /\ IF Writes(c)
     THEN file' = [file EXCEPT ![pos] = op[c][3]] /\ UNCHANGED buf
     ELSE /\ buf' = [buf EXCEPT ![c][IF pc[c] = "first" THEN 1 ELSE 2] = file[pos]]
          /\ UNCHANGED file
  /\ pos' = pos + 1
  /\ pc' = [pc EXCEPT ![c] = IF pc[c] = "first" THEN "second" ELSE "over"]
  /\ UNCHANGED <<holder, op, answer>>

\* The call returns and the guard is dropped.
Return(c, a) ==
  /\ answer' = [answer EXCEPT ![c] = a]
  /\ pc' = [pc EXCEPT ![c] = "idle"]
  /\ op' = [op EXCEPT ![c] = NoRequest]
  /\ buf' = [buf EXCEPT ![c] = Nothing]
  /\ holder' = IF holder = c THEN Nobody ELSE holder

Finish(c) ==
  /\ pc[c] = "over"
  /\ Return(c, IF Writes(c) THEN Done ELSE buf[c])
  /\ UNCHANGED <<file, pos>>

\* Faulty Fail: the guard is not dropped.
FailHolding(c) ==
  /\ pc[c] \in {"locked", "first", "second"}
  /\ answer' = [answer EXCEPT ![c] = Error]
  /\ pc' = [pc EXCEPT ![c] = "idle"]
  /\ op' = [op EXCEPT ![c] = NoRequest]
  /\ buf' = [buf EXCEPT ![c] = Nothing]
  /\ UNCHANGED <<file, pos, holder>>

\* seek or a transfer fails.
Fail(c) ==
  /\ pc[c] \in {"locked", "first", "second"}
  /\ Return(c, Error)
  /\ UNCHANGED <<file, pos>>

CallerStep(c) == Lock(c) \/ Seek(c) \/ Transfer(c) \/ Finish(c) \/ Fail(c)

Next ==
  \E c \in Callers :
    \/ \E s \in 0..SectorCount : Call(c, ReadOf(s)) \/ \E d \in Data : Call(c, WriteOf(s, d))
    \/ Refuse(c)
    \/ CallerStep(c)

\* The mutex of std is not fair; a thread that holds it is scheduled and its
\* system calls return, and one that waits may be overtaken.
Fairness == \A c \in Callers : WF_vars(CallerStep(c))

Spec == Init /\ [][Next]_vars /\ Fairness

-----------------------------------------------------------------------------

TypeOK ==
  /\ file \in [Units -> Pieces]
  /\ pos \in 0..(2 * FileSectors)
  /\ holder \in Callers \cup {Nobody}
  /\ pc \in [Callers -> {"idle", "called", "locked", "first", "second", "over"}]
  /\ op \in [Callers -> Requests \cup {NoRequest}]
  /\ buf \in [Callers -> Pieces \X Pieces]
  /\ answer \in [Callers -> {NoAnswer, Done, Error} \cup (Pieces \X Pieces)]

(***************************************************************************)
(* "the footer is untouched" (vhd.rs): whatever the callers ask for and    *)
(* wherever a transfer fails, nothing after the payload changes.           *)
(***************************************************************************)
FooterUntouched == \A u \in Units : u >= 2 * SectorCount => file[u] = Footer

(***************************************************************************)
(* Every transfer of a caller happens at the sector it asked for: no other *)
(* caller moved the shared position between its seek and its transfer.     *)
(***************************************************************************)
TransfersAtOwnSector ==
  \A c \in Callers :
    /\ pc[c] = "first" => pos = 2 * op[c][2]
    /\ pc[c] = "second" => pos = 2 * op[c][2] + 1

-----------------------------------------------------------------------------
\* The block device this file stands for.

\* A write has taken effect for the others once its first half is down: they
\* cannot look until it returns.
Begun(c) == Writes(c) /\ pc[c] \in {"second", "over"}
Writing(s) == holder # Nobody /\ Begun(holder) /\ op[holder][2] = s

\* What the next caller to get the mutex will find if nothing fails.
Seen ==
  [s \in Sectors |->
     IF Writing(s) THEN <<op[holder][3], op[holder][3]>> ELSE <<file[2 * s], file[2 * s + 1]>>]

Device == INSTANCE BlockDevice WITH
  Contents <- Pieces \X Pieces,
  Whole <- LAMBDA d : <<d, d>>,
  Read <- ReadOf, Write <- WriteOf,
  disk <- Seen,
  request <- op,
  applied <- {c \in Callers : Begun(c)}

(***************************************************************************)
(* A shared backend is a block device of atomic sectors: a read returns a  *)
(* sector as one write left it, halves of two writes are seen only after a *)
(* write failed, and no call touches a sector it was not given.            *)
(***************************************************************************)
ImplementsDevice == Device!Init /\ [][Device!Next]_(Device!vars)

(***************************************************************************)
(* No call blocks for ever on a mutex whose owner returned early: whoever  *)
(* waits, the file is free again.                                          *)
(***************************************************************************)
MutexComesFree == \A c \in Callers : (holder = c) ~> (holder = Nobody)

=============================================================================
