------------------------------ MODULE CsvReader ------------------------------
(***************************************************************************)
(* How DataMonitorReplayMgr reads its log: io::LineReader and              *)
(* detail::AsynchronousReader of the CSV library                           *)
(* (src/libs/fast-cpp-csv-parser/fast-cpp-csv-parser/csv.h) over the       *)
(* FilteredByteSource of src/src/dm_replay_mgr.cpp.                        *)
(*                                                                         *)
(* The buffer has three blocks.  The caller's thread ("main") looks for    *)
(* lines in the first two, without a lock, while a worker thread reads     *)
(* ahead into the third.  They meet in start_read and finish_read, by a    *)
(* mutex and two condition variables.  Each critical section of main and   *)
(* each stretch of main outside of them is one action; the worker keeps    *)
(* the mutex while it reads, which takes two.                              *)
(*                                                                         *)
(* Bytes are known by their place in the text, 0 is a NUL or no byte.      *)
(***************************************************************************)
EXTENDS Integers, Sequences, FiniteSets

CONSTANTS
  B,          \* block_len
  Texts,      \* the texts that may be read, as in CsvLines
  MayFail     \* a read of the byte source may throw

ASSUME ReaderAssumption ==
  /\ B \in Nat \ {0}
  /\ MayFail \in BOOLEAN
  /\ Texts \subseteq [size : Nat, breaks : SUBSET Nat]
  /\ \A t \in Texts : /\ t.breaks \subseteq 1..t.size
                      /\ t.size > 0 => t.size \in t.breaks

VARIABLES
  text,       \* what the byte source has, comments and blank lines left out
  taken,      \* bytes read from it
  buffer,     \* buffer: the bytes at its places 0 to 3 * block_len - 1
  begin,      \* data_begin
  end,        \* data_end
  main,       \* the caller's thread: "idle", or in next_line at "finish", "copy",
              \* "start" or "scan", or in the destructor at "terminate", "notify"
              \* or "join", or "gone"
  worker,     \* the worker: "none", "waiting", "reading", when it has the mutex,
              \* or "done"
  requested,  \* desired_byte_count is not -1
  count,      \* read_byte_count
  error,      \* read_error is set
  ending,     \* termination_requested
  asleep,     \* the threads that wait at their condition variable
  at,         \* history: bytes of the text covered by the lines given
  line,       \* the last line given
  outcome     \* history: what was made of the calls, as in CsvLines

shared == <<requested, count, error, ending, asleep>>
data == <<text, taken, buffer, begin, end>>
told == <<at, line, outcome>>
vars == <<data, main, worker, shared, told>>

Nul == 0
Unknown == -1    \* no count was reported since the last start_read

Least(m, n) == IF m < n THEN m ELSE n

\* reader.is_valid: there is a worker if the text filled two blocks.
Valid == text.size >= 2 * B

MutexFree == worker # "reading"

-----------------------------------------------------------------------------
(* The byte source.                                                        *)

\* A fault: read gives what it has at hand, at most one line.
ReadShort(n) ==
  LET ends == {b \in text.breaks : b > taken}
  IN  IF ends = {} THEN 0
      ELSE Least(n, (CHOOSE b \in ends : \A c \in ends : b <= c) - taken)

\* What read returns for n bytes asked of it: less only at the end.
Read(n) == Least(n, text.size - taken)

\* The buffer with n bytes of the text put at place p of it.
Filled(p, n) ==
  [i \in DOMAIN buffer |-> IF i >= p /\ i < p + n THEN taken + (i - p) + 1
                           ELSE buffer[i]]

\* The buffer with the block from place p copied to the block from place q.
Copied(p, q) ==
  [i \in DOMAIN buffer |-> IF i >= q /\ i < q + B THEN buffer[p + (i - q)]
                           ELSE buffer[i]]

-----------------------------------------------------------------------------
(* LineReader, on the caller's thread.                                     *)

Init ==
  /\ text \in Texts
  /\ taken = Least(2 * B, text.size)
  /\ buffer = [i \in 0..(3 * B - 1) |-> IF i < taken THEN i + 1 ELSE Nul]
  /\ begin = 0 /\ end = taken
  /\ main = "idle"
  /\ worker = IF Valid THEN "waiting" ELSE "none"
  /\ requested = Valid
  /\ count = Unknown /\ error = FALSE /\ ending = FALSE /\ asleep = {}
  /\ at = 0 /\ line = <<>> /\ outcome = "none"

\* next_line up to the look for the line's end.  A first block that is used up
\* is given up for the second, and the third has to follow.
NextLine ==
  /\ main = "idle" /\ begin # end
  /\ IF begin >= B
     THEN /\ buffer' = Copied(B, 0)
          /\ begin' = begin - B /\ end' = end - B
          /\ main' = IF Valid THEN "finish" ELSE "scan"
     ELSE /\ main' = "scan" /\ UNCHANGED <<buffer, begin, end>>
  /\ UNCHANGED <<text, taken, worker, shared, told>>

\* next_line returns nullptr.
NoMoreLines ==
  /\ main = "idle" /\ begin = end
  /\ outcome' = "end"
  /\ UNCHANGED <<data, main, worker, shared, at, line>>

\* A fault: the next read is asked for before the third block is copied.
FinishReadEager ==
  /\ main = "finish" /\ count # Unknown /\ ~error /\ MutexFree
  /\ "main" \notin asleep
  /\ end' = end + count /\ main' = "copy"
  /\ requested' = TRUE /\ count' = Unknown /\ asleep' = asleep \ {"worker"}
  /\ UNCHANGED <<text, taken, buffer, begin, worker, error, ending, told>>

\* finish_read, when the worker has reported.
FinishRead ==
  /\ main = "finish" /\ count # Unknown /\ ~error /\ MutexFree
  /\ "main" \notin asleep
  /\ end' = end + count
  /\ main' = "copy"
  /\ UNCHANGED <<text, taken, buffer, begin, worker, shared, told>>

\* finish_read waits for the worker.
AwaitRead ==
  /\ main = "finish" /\ count = Unknown /\ ~error /\ MutexFree
  /\ "main" \notin asleep
  /\ asleep' = asleep \union {"main"}
  /\ UNCHANGED <<data, main, worker, requested, count, error, ending, told>>

\* finish_read throws what the worker caught, out of next_line.
FinishReadThrows ==
  /\ main = "finish" /\ error /\ MutexFree
  /\ "main" \notin asleep
  /\ main' = "idle"
  /\ outcome' = "failed"
  /\ UNCHANGED <<data, worker, shared, at, line>>

\* The block read ahead is copied.
CopyBlock ==
  /\ main = "copy"
  /\ buffer' = Copied(2 * B, B)
  /\ main' = "start"
  /\ UNCHANGED <<text, taken, begin, end, worker, shared, told>>

\* start_read
StartRead ==
  /\ main = "start" /\ MutexFree
  /\ requested' = TRUE /\ count' = Unknown
  /\ asleep' = asleep \ {"worker"}
  /\ main' = "scan"
  /\ UNCHANGED <<data, worker, error, ending, told>>

\* The place of the line's end: its line feed, or the end of the data.
LineEnd ==
  CHOOSE e \in begin..end :
    /\ e = end \/ buffer[e] \in text.breaks
    /\ \A i \in begin..(e - 1) : buffer[i] \notin text.breaks

\* The line and its end do not fit in a block.
TooLong == LineEnd - begin + 1 > B

\* The rest of next_line: the line's end is overwritten, also where the line
\* has none.  Lines that follow a failure are told as such.
GiveLine ==
  /\ main = "scan" /\ ~TooLong
  /\ buffer' = [buffer EXCEPT ![LineEnd] = Nul]
  /\ line' = [i \in 1..(LineEnd - begin) |-> buffer[begin + i - 1]]
  /\ begin' = LineEnd + 1
  /\ end' = IF LineEnd = end THEN end + 1 ELSE end
  /\ at' = IF LineEnd = end THEN at + LineEnd - begin
           ELSE at + LineEnd - begin + 1
  /\ outcome' = CASE LineEnd = end -> "torn"
                  [] LineEnd # end /\ outcome = "failed" -> "failed"
                  [] OTHER -> "line"
  /\ main' = "idle"
  /\ UNCHANGED <<text, taken, worker, shared>>

\* next_line throws line_length_limit_exceeded; the line stays the next one.
ThrowTooLong ==
  /\ main = "scan" /\ TooLong
  /\ outcome' = "tooLong"
  /\ main' = "idle"
  /\ UNCHANGED <<data, worker, shared, at, line>>

-----------------------------------------------------------------------------
(* The destructor of AsynchronousReader.                                   *)

Destroy ==
  /\ main = "idle"
  /\ main' = IF Valid THEN "terminate" ELSE "gone"
  /\ UNCHANGED <<data, worker, shared, told>>

RequestTermination ==
  /\ main = "terminate" /\ MutexFree
  /\ ending' = TRUE
  /\ main' = "notify"
  /\ UNCHANGED <<data, worker, requested, count, error, asleep, told>>

NotifyTermination ==
  /\ main = "notify"
  /\ asleep' = asleep \ {"worker"}
  /\ main' = "join"
  /\ UNCHANGED <<data, worker, requested, count, error, ending, told>>

Join ==
  /\ main = "join" /\ worker = "done"
  /\ main' = "gone"
  /\ UNCHANGED <<data, worker, shared, told>>

-----------------------------------------------------------------------------
(* The worker of AsynchronousReader.                                       *)

\* It tests what it waits for, and ends, reads or sleeps.
WorkerTests ==
  /\ worker = "waiting" /\ "worker" \notin asleep
  /\ \/ /\ ending
        /\ worker' = "done" /\ UNCHANGED asleep
     \/ /\ ~ending /\ requested
        /\ worker' = "reading" /\ UNCHANGED asleep
     \/ /\ ~ending /\ ~requested
        /\ asleep' = asleep \union {"worker"} /\ UNCHANGED worker
  /\ UNCHANGED <<data, main, requested, count, error, ending, told>>

\* A fault: at the end of the text nobody is told.
WorkerReadsUntold ==
  /\ worker = "reading"
  /\ buffer' = Filled(2 * B, Read(B)) /\ taken' = taken + Read(B)
  /\ count' = Read(B)
  /\ requested' = FALSE
  /\ IF Read(B) = 0
     THEN worker' = "done" /\ asleep' = asleep
     ELSE worker' = "waiting" /\ asleep' = {"worker"}
  /\ UNCHANGED <<text, begin, end, main, error, ending, told>>

\* What was read is reported, and the worker sleeps as nothing is requested;
\* at the end of the text it ends.
WorkerReads ==
  /\ worker = "reading"
  /\ buffer' = Filled(2 * B, Read(B)) /\ taken' = taken + Read(B)
  /\ count' = Read(B)
  /\ requested' = FALSE
  /\ IF Read(B) = 0
     THEN worker' = "done" /\ asleep' = asleep \ {"main"}
     ELSE worker' = "waiting" /\ asleep' = {"worker"}
  /\ UNCHANGED <<text, begin, end, main, error, ending, told>>

\* The byte source throws.
WorkerFails ==
  /\ MayFail
  /\ worker = "reading"
  /\ error' = TRUE
  /\ worker' = "done" /\ asleep' = asleep \ {"main"}
  /\ UNCHANGED <<data, main, requested, count, ending, told>>

\* A condition variable may let a thread go without being notified.
WakesByItself ==
  /\ \E t \in asleep : asleep' = asleep \ {t}
  /\ UNCHANGED <<data, main, worker, requested, count, error, ending, told>>

-----------------------------------------------------------------------------

MainSteps ==
  \/ FinishRead \/ AwaitRead \/ FinishReadThrows \/ CopyBlock \/ StartRead
  \/ GiveLine \/ ThrowTooLong
  \/ RequestTermination \/ NotifyTermination \/ Join

WorkerSteps == WorkerTests \/ WorkerReads \/ WorkerFails

Next ==
  \/ NextLine \/ NoMoreLines \/ Destroy
  \/ MainSteps \/ WorkerSteps \/ WakesByItself

Spec == Init /\ [][Next]_vars

\* Both threads are scheduled.  Nobody has to call the reader, and no thread
\* has to wake by itself.
Fairness == WF_vars(MainSteps) /\ WF_vars(WorkerSteps)

FairSpec == Spec /\ Fairness

-----------------------------------------------------------------------------
(* Properties.                                                             *)

\* The lines given are those of the text, whole and in order, and the end is
\* told at the end of the text only: reading ahead, the blocks that move and
\* the worker that ends are not to be seen.  After a failed read the lines
\* that are in the buffer follow, the last one perhaps torn.
Lines == INSTANCE CsvLines WITH Limit <- B

GivesTheLines == Lines!Spec

\* While the worker may write the third block, main keeps out of it: it does
\* not copy it, and the end it writes into a line lies before it.
NoRace ==
  requested => /\ main # "copy"
               /\ main = "scan" /\ ~TooLong => LineEnd < 2 * B

\* The assertions in next_line hold wherever it goes on.
AssertionsHold ==
  main = "idle" /\ begin # end => begin < end /\ end <= 2 * B

\* Nobody waits in vain, for a block or for the worker's end: a call of
\* next_line and the destructor always return.
CallsReturn == (main # "idle") ~> (main \in {"idle", "gone"})

=============================================================================
