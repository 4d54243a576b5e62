--------------------------- MODULE Conversations ---------------------------
(***************************************************************************)
(* The conversation files (persistence.py): save_exchange in the threads   *)
(* of one process, which may crash at any step, and the file they share:   *)
(* exchanges with one peer on one day.                                     *)
(*                                                                         *)
(* A file is the sequence of the exchanges in it.  fsync and rename are    *)
(* atomic and durable.  Other processes that write the same file, which    *)
(* the name of the temporary file foresees, are not modelled: the lock is  *)
(* of this process only.                                                   *)
(***************************************************************************)
EXTENDS Integers, SequencesExt

CONSTANTS
  Savers,     \* threads; each saves one exchange, named after it
  MaxSize,    \* exchanges a file may hold before it is rotated: _MAX_FILE_SIZE
  MaxSecond   \* bound of the model: seconds that pass

Free == "free"

ASSUME ConversationsAssumption == Free \notin Savers /\ MaxSize \in Nat /\ MaxSecond \in Nat

VARIABLES
  second,     \* the time of day
  stamp,      \* the time each thread read before it took the lock
  saving,     \* how far each thread is
  lock,       \* who holds _lock
  existing,   \* what the holder read
  file,       \* the file
  temporary,  \* the temporary file and whether it is complete
  rotated,    \* per second in the name, the file that was renamed to it
  clobbered,  \* whether a rotated file was overwritten by another
  saved       \* exchanges whose save_exchange returned

memory == <<stamp, saving, lock, existing>>
disk == <<file, temporary, rotated, clobbered>>
conversations == <<second, memory, disk, saved>>

CInit ==
  /\ second = 0
  /\ stamp = [t \in Savers |-> 0]
  /\ saving = [t \in Savers |-> "no"]
  /\ lock = Free /\ existing = <<>>
  /\ file = <<>> /\ temporary = [content |-> <<>>, complete |-> FALSE]
  /\ rotated = [x \in 0 .. MaxSecond |-> <<>>]
  /\ clobbered = FALSE /\ saved = {}

Step(t, from, to) == saving[t] = from /\ saving' = [saving EXCEPT ![t] = to]

Second ==
  /\ second < MaxSecond
  /\ second' = second + 1
  /\ UNCHANGED <<memory, disk, saved>>

\* save_exchange: now is read first ...
Stamp(t) ==
  /\ Step(t, "no", "stamped")
  /\ stamp' = [stamp EXCEPT ![t] = second]
  /\ UNCHANGED <<second, lock, existing, disk, saved>>

\* Mutant: without the lock.
LockBlind(t) ==
  /\ Step(t, "stamped", "locked")
  /\ lock' = t
  /\ UNCHANGED <<second, stamp, existing, disk, saved>>

\* ... then the lock is taken ...
Lock(t) ==
  /\ lock = Free
  /\ Step(t, "stamped", "locked")
  /\ lock' = t
  /\ UNCHANGED <<second, stamp, existing, disk, saved>>

\* ... a file that is too large is renamed, over one of the same second ...
Rotate(t) ==
  /\ Step(t, "locked", "rotated")
  /\ IF Len(file) > MaxSize
     THEN /\ rotated' = [rotated EXCEPT ![stamp[t]] = file]
          /\ clobbered' = (clobbered \/ rotated[stamp[t]] # <<>>)
          /\ file' = <<>>
     ELSE UNCHANGED <<rotated, clobbered, file>>
  /\ UNCHANGED <<second, stamp, lock, existing, temporary, saved>>

\* ... what there is is read, and a temporary file opened, which empties it ...
Open(t) ==
  /\ Step(t, "rotated", "opened")
  /\ existing' = file
  /\ temporary' = [content |-> <<>>, complete |-> FALSE]
  /\ UNCHANGED <<second, stamp, lock, file, rotated, clobbered, saved>>

\* ... written and synced ...
Write(t) ==
  /\ Step(t, "opened", "written")
  /\ temporary' = [content |-> Append(existing, t), complete |-> TRUE]
  /\ UNCHANGED <<second, stamp, lock, existing, file, rotated, clobbered, saved>>

\* ... and put in place of the file.
Replace(t) ==
  /\ Step(t, "written", "done")
  /\ file' = temporary.content
  /\ lock' = Free
  /\ saved' = saved \cup {t}
  /\ UNCHANGED <<second, stamp, existing, temporary, rotated, clobbered>>

\* Any step fails: the lock is released and the caller goes on without a word.
DiskFails(t) ==
  /\ saving[t] \in {"locked", "rotated", "opened", "written"}
  /\ saving' = [saving EXCEPT ![t] = "failed"]
  /\ lock' = Free
  /\ UNCHANGED <<second, stamp, existing, disk, saved>>

Save(t) == Stamp(t) \/ Lock(t) \/ Rotate(t) \/ Open(t) \/ Write(t) \/ Replace(t) \/ DiskFails(t)

-----------------------------------------------------------------------------
(***************************************************************************)
(* Properties.                                                             *)
(***************************************************************************)
CTypeOK ==
  /\ lock \in Savers \cup {Free} /\ saved \subseteq Savers
  /\ saving \in [Savers -> {"no", "stamped", "locked", "rotated", "opened", "written",
                            "done", "failed", "dead"}]
  /\ stamp \in [Savers -> 0 .. MaxSecond]
  /\ \A t \in Savers : saving[t] \in {"locked", "rotated", "opened", "written"} => lock = t

OnDisk == ToSet(file) \cup UNION {ToSet(rotated[x]) : x \in DOMAIN rotated}

\* An exchange that was saved stays on disk, in the file or in a rotated one,
\* whatever fails or crashes at which step of later saves, as long as no rotated file
\* was overwritten by another of the same second.
SavedStays == clobbered \/ saved \subseteq OnDisk

\* No exchange is on disk twice: what was rotated away is not copied again.
SavedOnce ==
  /\ IsInjective(file)
  /\ \A x \in DOMAIN rotated : IsInjective(rotated[x]) /\ ToSet(file) \cap ToSet(rotated[x]) = {}
  /\ \A x, y \in DOMAIN rotated : x # y => ToSet(rotated[x]) \cap ToSet(rotated[y]) = {}

\* An exchange that was saved is on disk, as said, and no exchange is there twice.
SavedExactly == SavedStays /\ SavedOnce
=============================================================================
