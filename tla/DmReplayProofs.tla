--------------------------- MODULE DmReplayProofs ---------------------------
(***************************************************************************)
(* Theorems about DmReplay, for every set of logs and every delay.         *)
(***************************************************************************)
EXTENDS DmReplay, TLAPS

\* A manager that is typed and that the procedures can work with: one that
\* may read has a log, and start_time is known once a stamp was read.
Sound(m) ==
  /\ m \in Managers
  /\ m.state \in {"idle", "playing", "paused", "eof"} => m.file # NoFile
  /\ m.file = NoFile => m.row = 0
  /\ m.file # NoFile => m.row <= Length(m)
  /\ m.row > 0 => (Rows[m.file][m.row] > 0 => m.age # NotStarted)

\* The timer w is that of the last row m has sent, unless m is stuck.
Scheduled(m, w) ==
  IsPlaying(m) /\ w # Idle /\ m.row > 0 /\ ~Jammed(m) =>
    (Rows[m.file][m.row] > 0
       => w = IF Due(m) > m.age THEN Due(m) - m.age ELSE 0)

\* The inductive invariant.
Inv ==
  /\ TypeOK
  /\ Sound(mgr)
  /\ asked => mgr.state # "idle" /\ file # NoFile
  /\ ReplayHasTimer
  /\ Scheduled(mgr, wait)
  /\ ButtonsTell

-----------------------------------------------------------------------------
(* The procedures of the manager.                                          *)

\* A row of a log is a stamp or one of the three marks.
LEMMA RowType ==
  ASSUME NEW f \in Files, NEW n \in 1..Len(Rows[f])
  PROVE  /\ Rows[f][n] \in 1..Horizon \union {Undated, Unreadable, TooLong}
         /\ Len(Rows[f]) \in Nat
BY ReplayAssumption DEF Undated, Unreadable, TooLong

\* A manager just constructed is sound, and does not play.
LEMMA NewManager ==
  ASSUME NEW f \in Files, NEW driver \in BOOLEAN
  PROVE  /\ Sound(Manager(f, driver))
         /\ ~IsPlaying(Manager(f, driver))
<1>1. Len(Rows[f]) \in Nat
  BY ReplayAssumption
<1>2. CreatedAt(f) \in 0..Horizon
  BY ReplayAssumption DEF CreatedAt, NoStamp
<1> QED BY <1>1, <1>2, ReplayAssumption
        DEF Manager, Sound, Managers, States, IsPlaying, Length, NoStamp, NotStarted

\* After sending a row the manager is sound, plays, and has its clock started.
LEMMA SentManager ==
  ASSUME NEW m, Sound(m), Active(m), m.row < Length(m), ~Skips(m), ~Jammed(m)
  PROVE  /\ Sound(Sent(m))
         /\ Sent(m).state = "playing"
         /\ Sent(m).age \in 0..Horizon
         /\ Sent(m).row \in Nat \ {0}
<1> DEFINE a == IF m.age = NotStarted THEN 0 ELSE m.age
           g == IF m.first = NoStamp /\ NextRow(m) # Undated
                THEN NextRow(m) ELSE m.first
           c == IF NextRow(m) # Undated THEN NextRow(m) ELSE m.curr
<1>1. m \in Managers /\ m.file \in Files
  BY DEF Sound, Managers, Active
<1>2. /\ m.row \in Nat /\ m.first \in 0..Horizon /\ m.curr \in 0..Horizon
      /\ m.age \in 0..Horizon \union {NotStarted}
      /\ m.row < Length(m) /\ Length(m) \in Nat
  BY <1>1, RowType, ReplayAssumption DEF Managers, Length
<1>3. NextRow(m) \in 1..Horizon \union {Undated}
  BY <1>1, <1>2, RowType DEF NextRow, Length, Skips, Jammed
<1>4. Horizon \in Nat /\ NoFile \notin Files
  BY ReplayAssumption
<1>5. a \in 0..Horizon /\ g \in 0..Horizon /\ c \in 0..Horizon
  BY <1>2, <1>3, <1>4 DEF Undated, NotStarted
<1>6. Sent(m) = [m EXCEPT !.state = "playing", !.row = m.row + 1, !.age = a, !.first = g,
                       !.curr = c]
  BY DEF Sent
<1>7. "playing" \in States /\ m.row + 1 \in Nat \ {0}
  BY <1>2 DEF States
<1>8. a \in 0..Horizon \union {NotStarted}
  BY <1>5
<1> HIDE DEF a, g, c
<1>9. Sent(m) \in Managers
  BY <1>1, <1>5, <1>6, <1>7, <1>8 DEF Managers
<1>10. /\ Sent(m).state = "playing" /\ Sent(m).file = m.file
       /\ Sent(m).row = m.row + 1 /\ Sent(m).age = a /\ Sent(m).first = g
  BY <1>1, <1>6 DEF Managers
<1>11. Sent(m).file # NoFile /\ a # NotStarted
  BY <1>1, <1>4, <1>5, <1>10 DEF NotStarted
<1> QED
  BY <1>2, <1>5, <1>7, <1>9, <1>10, <1>11 DEF Sound, Length

\* The delay computed for a row just sent is not negative, and is the time
\* until the row is due.
LEMMA DelayOfSent ==
  ASSUME NEW m, Sound(m), Active(m), m.row < Length(m), ~Skips(m), ~Jammed(m)
  PROVE  /\ ComputeDelay(Sent(m)) \in Nat
         /\ Scheduled(Sent(m), ComputeDelay(Sent(m)))
<1> DEFINE s == Sent(m)
           stamp == Rows[s.file][s.row]
<1>1. /\ Sound(s) /\ s.age \in 0..Horizon /\ s.row \in Nat \ {0}
      /\ s.state = "playing"
  BY SentManager
<1>2. s.file \in Files /\ s.row \in 1..Len(Rows[s.file]) /\ s.first \in 0..Horizon
  <2>1. s.file \in Files /\ s.first \in 0..Horizon /\ s.row <= Length(s)
    BY <1>1 DEF Sound, Managers
  <2>2. Len(Rows[s.file]) \in Nat
    BY <2>1, ReplayAssumption
  <2> QED BY <1>1, <2>1, <2>2 DEF Length
<1>3. stamp \in 1..Horizon \union {Undated, Unreadable, TooLong}
  BY <1>2, RowType
<1> HIDE DEF s
<1>4. Horizon \in Nat /\ DefaultDelay \in Nat
  BY ReplayAssumption
<1>5. CASE stamp = Undated
  <2>1. ComputeDelay(s) = DefaultDelay
    BY <1>5 DEF ComputeDelay
  <2> QED BY <1>4, <1>5, <2>1 DEF Scheduled, Undated, s
<1>6. CASE stamp # Undated
  <2>1. Due(s) \in Int
    BY <1>2, <1>3, <1>4 DEF Due, Undated, Unreadable, TooLong
  <2>2. ComputeDelay(s) = IF Due(s) > s.age THEN Due(s) - s.age ELSE 0
    BY <1>6 DEF ComputeDelay
  <2>3. ComputeDelay(s) \in Nat
    BY <1>1, <1>4, <2>1, <2>2
  <2> QED BY <2>2, <2>3 DEF Scheduled, s
<1> QED BY <1>5, <1>6

\* Notify keeps a manager sound.  A manager that plays afterwards has a delay,
\* which is that of the last row sent; one that could not read is unchanged.
LEMMA NotifiedManager ==
  ASSUME NEW m, Sound(m)
  PROVE  /\ Sound(Notified(m))
         /\ Delay(m) \in Nat \union {Idle}
         /\ Notified(m).state \in {m.state, "playing", "eof"}
         /\ ~Active(m) => Notified(m) = m
         /\ IsPlaying(Notified(m)) => Active(m)
         /\ IsPlaying(Notified(m)) =>
              Delay(m) # NoDelay /\ Scheduled(Notified(m), Delay(m))
<1> USE DEF Idle, NoDelay
<1>1. CASE ~Active(m)
  <2>1. Notified(m) = m /\ Delay(m) = NoDelay
    BY <1>1 DEF Notified, Delay, Jammed, Skips
  <2>2. ~IsPlaying(m)
    BY <1>1 DEF Active, IsPlaying
  <2> QED BY <2>1, <2>2
<1>2. CASE Active(m) /\ m.row = Length(m)
  <2>1. m.row \in Nat
    BY DEF Sound, Managers
  <2>2. ~(m.row < Length(m)) /\ ~Skips(m) /\ ~Jammed(m)
    BY <1>2, <2>1 DEF Skips, Jammed
  <2>3. Notified(m) = [m EXCEPT !.state = "eof"] /\ Delay(m) = NoDelay
    BY <1>2, <2>2 DEF Notified, Delay
  <2>4. m \in Managers /\ m.file # NoFile
    BY <1>2 DEF Active, Sound
  <2>5. Notified(m) \in Managers
    BY <2>3, <2>4 DEF Managers, States
  <2>6. /\ Notified(m).state = "eof" /\ Notified(m).file = m.file
        /\ Notified(m).row = m.row /\ Notified(m).age = m.age
    BY <2>3, <2>4 DEF Managers
  <2>7. Sound(Notified(m))
    BY <2>4, <2>5, <2>6 DEF Sound, Length
  <2> QED BY <1>2, <2>3, <2>6, <2>7 DEF IsPlaying
<1>3. CASE Skips(m)
  <2>1. m \in Managers /\ m.file \in Files /\ m.row \in Nat /\ Length(m) \in Nat
    BY <1>3, ReplayAssumption DEF Active, Sound, Managers, Length, Skips
  <2>2. m.row # Length(m) /\ Active(m) /\ ~Jammed(m)
    BY <1>3, <2>1 DEF Skips, Jammed, Unreadable, TooLong
  <2>3. Notified(m) = [m EXCEPT !.row = m.row + 1] /\ Delay(m) = 0
    BY <1>3, <2>2 DEF Notified, Delay
  <2>4. m.row + 1 \in Nat
    BY <2>1
  <2>5. Notified(m) \in Managers
    BY <2>1, <2>3, <2>4 DEF Managers
  <2>6. /\ Notified(m).state = m.state /\ Notified(m).file = m.file
        /\ Notified(m).row = m.row + 1 /\ Notified(m).age = m.age
    BY <2>1, <2>3 DEF Managers
  <2>7. ~(Rows[m.file][m.row + 1] > 0)
    BY <1>3 DEF NextRow, Unreadable, Skips
  <2>8. m.file # NoFile /\ m.row + 1 <= Length(m)
    BY <1>3, <2>1, ReplayAssumption DEF Skips
  <2>9. Sound(Notified(m))
    BY <2>5, <2>6, <2>7, <2>8 DEF Sound, Length
  <2>10. Scheduled(Notified(m), 0)
    BY <2>6, <2>7 DEF Scheduled
  <2> QED BY <2>2, <2>3, <2>6, <2>9, <2>10
<1>4. CASE Jammed(m)
  <2>1. m.row # Length(m) /\ Active(m) /\ ~Skips(m)
    BY <1>4, ReplayAssumption DEF Jammed, Skips, Unreadable, TooLong, Sound, Managers, Length,
       Active
  <2>2. Notified(m) = m /\ Delay(m) = 0
    BY <1>4, <2>1 DEF Notified, Delay
  <2>3. Scheduled(m, 0)
    BY <1>4 DEF Scheduled
  <2> QED BY <2>1, <2>2, <2>3
<1>5. CASE Active(m) /\ m.row < Length(m) /\ ~Skips(m) /\ ~Jammed(m)
  <2>1. m.row \in Nat /\ Length(m) \in Nat
    BY <1>5, ReplayAssumption DEF Active, Sound, Managers, Length
  <2>2. m.row # Length(m)
    BY <1>5, <2>1
  <2>3. Notified(m) = Sent(m) /\ Delay(m) = ComputeDelay(Sent(m))
    BY <1>5, <2>2 DEF Notified, Delay
  <2>4. Sound(Sent(m)) /\ Sent(m).state = "playing"
    BY <1>5, SentManager
  <2>5. ComputeDelay(Sent(m)) \in Nat /\ Scheduled(Sent(m), ComputeDelay(Sent(m)))
    BY <1>5, DelayOfSent
  <2> QED BY <1>5, <2>3, <2>4, <2>5
<1>6. Active(m) => m.row = Length(m) \/ m.row < Length(m)
  <2> SUFFICES ASSUME Active(m) PROVE m.row = Length(m) \/ m.row < Length(m)
    OBVIOUS
  <2>1. m.file \in Files /\ m.row \in Nat /\ m.row <= Length(m)
    BY DEF Active, Sound, Managers
  <2>2. Length(m) \in Nat
    BY <2>1, ReplayAssumption DEF Length
  <2> QED BY <2>1, <2>2
<1> QED BY <1>1, <1>2, <1>3, <1>4, <1>5, <1>6

\* A change of state among those that have a log keeps a manager sound.
LEMMA StateChanged ==
  ASSUME NEW m, Sound(m), m.file # NoFile, NEW s \in {"playing", "paused"}
  PROVE  /\ Sound([m EXCEPT !.state = s])
         /\ [m EXCEPT !.state = s].state = s
<1> DEFINE q == [m EXCEPT !.state = s]
<1>1. m \in Managers /\ s \in States
  BY DEF Sound, States
<1>2. q \in Managers
  BY <1>1 DEF Managers
<1>3. q.state = s /\ q.file = m.file /\ q.row = m.row /\ q.age = m.age
  BY <1>1 DEF Managers
<1>4. Sound(q)
  BY <1>2, <1>3 DEF Sound, Length
<1> QED BY <1>3, <1>4

\* Start keeps a manager sound and does not leave it idle.
LEMMA StartedManager ==
  ASSUME NEW m, Sound(m)
  PROVE  /\ Sound(Started(m))
         /\ Started(m).state # "idle"
<1> DEFINE q == [m EXCEPT !.state = IF m.state \in {"paused", "idle"}
                                   THEN "playing" ELSE m.state]
<1>1. m \in Managers
  BY DEF Sound
<1>2. Sound(q) /\ q.state # "idle"
  <2>1. CASE m.state \in {"paused", "idle"}
    <3>1. m.file # NoFile /\ q = [m EXCEPT !.state = "playing"]
      BY <2>1 DEF Sound
    <3> QED BY <3>1, StateChanged
  <2>2. CASE m.state \notin {"paused", "idle"}
    <3>1. q = m
      BY <1>1, <2>2 DEF Managers
    <3> QED BY <2>2, <3>1
  <2> QED BY <2>1, <2>2
<1>3. Started(m) = Notified(q)
  BY DEF Started
<1> HIDE DEF q
<1> QED BY <1>2, <1>3, NotifiedManager

-----------------------------------------------------------------------------
(* The invariant.                                                          *)

\* The timer keeps the invariant: only what can read begins to play.
LEMMA TimerKeeps ==
  ASSUME Inv, TimerFires
  PROVE  Inv'
<1>1. Sound(mgr) /\ mgr' = Notified(mgr)
  BY DEF Inv, TimerFires
<1>2. Sound(mgr')
  BY <1>1, NotifiedManager
<1>3. wait' = Delay(mgr) /\ wait' \in Nat \union {Idle}
  BY <1>1, NotifiedManager DEF TimerFires, Idle, NoDelay
<1>4. IsPlaying(mgr') => wait' # Idle /\ Scheduled(mgr', wait')
  BY <1>1, <1>3, NotifiedManager DEF Idle, NoDelay
<1>5. mgr'.state \in {mgr.state, "playing", "eof"} /\ (IsPlaying(mgr') => Active(mgr))
  BY <1>1, NotifiedManager
<1>6. asked' => mgr'.state # "idle" /\ file' # NoFile
  BY <1>5 DEF Inv, TimerFires
<1>7. ButtonsTell'
  <2>1. CASE mgr'.state = "eof" /\ mgr.state # "eof"
    <3>1. canLoad' = ~IsPlaying(mgr') /\ (file' # NoFile => clock' = GetCurrentTimestamp(mgr'))
      BY <2>1 DEF TimerFires, UpdateControls
    <3>2. asked' => file' # NoFile
      BY DEF Inv, TimerFires
    <3> QED BY <3>1, <3>2 DEF ButtonsTell
  <2>2. CASE ~(mgr'.state = "eof" /\ mgr.state # "eof")
    <3>1. canLoad' = canLoad /\ clock' = clock /\ asked' = asked
      BY <2>2 DEF TimerFires
    <3>2. CASE Active(mgr)
      <4>1. asked => mgr'.state = "playing" /\ IsPlaying(mgr)
        BY <1>5, <2>2, <3>2 DEF Inv, Active, IsPlaying
      <4> QED BY <3>1, <4>1 DEF Inv, ButtonsTell, IsPlaying
    <3>3. CASE ~Active(mgr)
      <4>1. mgr' = mgr
        BY <1>1, <3>3, NotifiedManager
      <4> QED BY <3>1, <4>1 DEF Inv, ButtonsTell
    <3> QED BY <3>2, <3>3
  <2> QED BY <2>1, <2>2
<1>8. canLoad' \in BOOLEAN /\ canPlay' \in BOOLEAN /\ clock' \in 0..Horizon \union {NoTime}
  BY <1>2 DEF Inv, TypeOK, TimerFires, UpdateControls, GetCurrentTimestamp, Sound, Managers
<1> QED
  BY <1>2, <1>3, <1>4, <1>6, <1>7, <1>8
  DEF Inv, TypeOK, Sound, ReplayHasTimer, Scheduled, TimerFires, Jammed, Active, NextRow, Due, Length, IsPlaying

\* A file that was just loaded is not played.
LEMMA LoadKeeps ==
  ASSUME Inv, NEW f \in Files, NEW driver \in BOOLEAN,
         LoadFile(f, driver) \/ LoadFails(f, driver)
  PROVE  Inv'
<1>1. mgr' = Manager(f, driver)
  BY DEF LoadFile, LoadFails, ClearInputFile
<1>2. Sound(mgr') /\ ~IsPlaying(mgr')
  BY <1>1, NewManager
<1>3. file' \in Files \union {NoFile} /\ ~asked' /\ halted' \in BOOLEAN
  BY DEF LoadFile, LoadFails, ClearInputFile
<1>4. canLoad' \in BOOLEAN /\ canPlay' \in BOOLEAN /\ clock' \in 0..Horizon \union {NoTime}
  BY <1>2 DEF LoadFile, LoadFails, UpdateControls, GetCurrentTimestamp, Sound, Managers
<1> QED
  BY <1>2, <1>3, <1>4
  DEF Inv, TypeOK, Sound, ReplayHasTimer, Scheduled, ButtonsTell, Length, IsPlaying,
      LoadFile, LoadFails, ClearInputFile

\* Of the two calls of Notify by a start, the timer is set from the second.
LEMMA StartKeeps ==
  ASSUME Inv, NEW driver \in BOOLEAN, StartPlayback(driver)
  PROVE  Inv'
<1> DEFINE m == IF mgr.state = "paused" THEN mgr ELSE Manager(file, driver)
           q == Started(m)
<1>1. file \in Files
  BY DEF Inv, TypeOK, StartPlayback
<1>2. Sound(m)
  BY <1>1, NewManager DEF Inv
<1>3. Sound(q) /\ q.state # "idle"
  BY <1>2, StartedManager
<1>4. mgr' = Notified(q) /\ wait' = IF Delay(q) # NoDelay THEN Delay(q) ELSE wait
  BY DEF StartPlayback
<1> HIDE DEF m, q
<1>5. Sound(mgr') /\ mgr'.state # "idle"
  BY <1>3, <1>4, NotifiedManager
<1>6. wait' \in Nat \union {Idle}
  BY <1>3, <1>4, NotifiedManager DEF Inv, TypeOK
<1>7. IsPlaying(mgr') => wait' # Idle /\ Scheduled(mgr', wait')
  BY <1>3, <1>4, NotifiedManager DEF Idle, NoDelay
<1>8. /\ canLoad' = ~IsPlaying(mgr') /\ clock' = GetCurrentTimestamp(mgr')
      /\ canLoad' \in BOOLEAN /\ canPlay' \in BOOLEAN
      /\ clock' \in 0..Horizon \union {NoTime}
  BY <1>5 DEF StartPlayback, UpdateControls, GetCurrentTimestamp, Sound, Managers
<1> QED
  BY <1>5, <1>6, <1>7, <1>8
  DEF Inv, TypeOK, Sound, ReplayHasTimer, Scheduled, ButtonsTell, Jammed, Active, NextRow, Due, Length, IsPlaying,
      StartPlayback

\* After a pause nothing plays.
LEMMA PauseKeeps ==
  ASSUME Inv, PausePlayback
  PROVE  Inv'
<1>1. Sound(mgr) /\ mgr.file # NoFile /\ mgr' = [mgr EXCEPT !.state = "paused"]
  BY DEF Inv, Sound, PausePlayback, Paused, IsPlaying
<1>2. Sound(mgr') /\ mgr'.state = "paused"
  BY <1>1, StateChanged
<1>3. /\ canLoad' = ~IsPlaying(mgr') /\ (file # NoFile => clock' = GetCurrentTimestamp(mgr'))
      /\ canLoad' \in BOOLEAN /\ canPlay' \in BOOLEAN
      /\ clock' \in 0..Horizon \union {NoTime}
  BY <1>2 DEF PausePlayback, UpdateControls, GetCurrentTimestamp, Sound, Managers
<1> QED
  BY <1>2, <1>3
  DEF Inv, TypeOK, Sound, ReplayHasTimer, Scheduled, ButtonsTell, Length, IsPlaying,
      PausePlayback

\* The panel's own actions leave the manager alone, and hiding the panel
\* stops the timer.
LEMMA PanelKeeps ==
  ASSUME Inv, OnToolbarPlay \/ ClosePanel \/ ShowPreferencesDialog \/ StartFails
  PROVE  Inv'
<1>1. mgr' = mgr /\ file' = file /\ asked' = asked
  BY DEF OnToolbarPlay, ClosePanel, ShowPreferencesDialog, StartFails
<1>2. /\ wait' \in {wait, Idle}
      /\ halted' \in BOOLEAN /\ shown' \in BOOLEAN
      /\ canLoad' \in BOOLEAN /\ canPlay' \in BOOLEAN
      /\ clock' \in 0..Horizon \union {NoTime}
  BY <1>1 DEF Inv, TypeOK, OnToolbarPlay, ClosePanel, ShowPreferencesDialog, StartFails,
      UpdateControls, GetCurrentTimestamp, Managers
<1>3. ReplayHasTimer'
  BY <1>1
  DEF Inv, TypeOK, ReplayHasTimer, OnToolbarPlay, ClosePanel, ShowPreferencesDialog,
      StartFails
<1>4. ButtonsTell'
  BY <1>1 DEF Inv, ButtonsTell, OnToolbarPlay, ClosePanel, ShowPreferencesDialog, StartFails,
      UpdateControls
<1>5. Scheduled(mgr, wait')
  BY <1>2 DEF Inv, Scheduled
<1> QED
  BY <1>1, <1>2, <1>3, <1>4, <1>5 DEF Inv, TypeOK, Sound, Scheduled, Jammed, Active,
     NextRow, Due, Length, IsPlaying

\* The clock and the timer advance together.
LEMMA TickKeeps ==
  ASSUME Inv, Tick
  PROVE  Inv'
<1> DEFINE a == IF mgr.age # NotStarted /\ mgr.age < Horizon
                THEN mgr.age + 1 ELSE mgr.age
<1>1. /\ Sound(mgr) /\ mgr \in Managers /\ wait \in Nat \union {Idle}
      /\ mgr.age \in 0..Horizon \union {NotStarted} /\ Horizon \in Nat
  BY ReplayAssumption DEF Inv, TypeOK, Managers
<1>2. a \in 0..Horizon \union {NotStarted} /\ (mgr.age # NotStarted => a # NotStarted)
  BY <1>1 DEF NotStarted
<1>3. mgr' = [mgr EXCEPT !.age = a] /\ mgr'.curr = mgr.curr
  BY <1>1 DEF Tick, Managers
<1> HIDE DEF a
<1>4. mgr' \in Managers
  BY <1>1, <1>2, <1>3 DEF Managers
<1>5. /\ mgr'.state = mgr.state /\ mgr'.file = mgr.file /\ mgr'.row = mgr.row
      /\ mgr'.first = mgr.first /\ mgr'.age = a
  BY <1>1, <1>3 DEF Managers
<1>6. Sound(mgr')
  BY <1>1, <1>2, <1>4, <1>5 DEF Sound, Length
<1>7. wait' = IF wait > 0 THEN wait - 1 ELSE wait
  BY DEF Tick
<1>8. wait' \in Nat \union {Idle} /\ (wait' = Idle <=> wait = Idle)
  BY <1>1, <1>7 DEF Idle
<1>9. Scheduled(mgr', wait')
  <2> SUFFICES ASSUME IsPlaying(mgr), wait # Idle, mgr.row > 0,
                      Rows[mgr.file][mgr.row] > 0, ~Jammed(mgr)
               PROVE  wait' = IF Due(mgr) > a THEN Due(mgr) - a ELSE 0
    BY <1>5, <1>8 DEF Scheduled, IsPlaying, Jammed, Active, NextRow, Length, Due
  <2>1. wait = IF Due(mgr) > mgr.age THEN Due(mgr) - mgr.age ELSE 0
    BY DEF Inv, Scheduled
  <2>2. mgr.age \in 0..Horizon
    BY <1>1 DEF Sound
  <2>3. Due(mgr) \in Int /\ Due(mgr) <= Horizon
    <3>1. mgr.file \in Files /\ mgr.first \in 0..Horizon
          /\ mgr.row \in 1..Len(Rows[mgr.file])
      BY <1>1, ReplayAssumption DEF Sound, Managers, IsPlaying, Length
    <3>2. Rows[mgr.file][mgr.row] \in 1..Horizon \union {Undated, Unreadable, TooLong}
      BY <3>1, RowType
    <3> QED BY <1>1, <3>1, <3>2 DEF Due, Undated, Unreadable, TooLong
  <2>4. a = IF mgr.age < Horizon THEN mgr.age + 1 ELSE mgr.age
    BY <2>2, <1>1 DEF a, NotStarted
  <2> QED BY <1>1, <1>7, <2>1, <2>2, <2>3, <2>4
<1> QED
  BY <1>5, <1>6, <1>8, <1>9
  DEF Inv, TypeOK, Sound, ReplayHasTimer, Scheduled, ButtonsTell, Jammed, Active, NextRow, Due, Length, IsPlaying,
      GetCurrentTimestamp, Tick

\* The invariant holds in every state.
THEOREM ReplayInvariant == Spec => []Inv
<1>1. Init => Inv
  <2>1. "notInited" \in States /\ 0 \in 0..Horizon
    BY ReplayAssumption DEF States
  <2>2. Dormant \in Managers
    BY <2>1 DEF Dormant, Managers, NoStamp
  <2>3. Sound(Dormant) /\ ~IsPlaying(Dormant)
    BY <2>2 DEF Dormant, Sound, IsPlaying
  <2>4. Dormant.file = NoFile
    BY DEF Dormant
  <2> QED
    BY <2>2, <2>3, <2>4
    DEF Init, Inv, TypeOK, Sound, ReplayHasTimer, Scheduled, ButtonsTell, IsPlaying, Length
<1>2. Inv /\ [Next]_vars => Inv'
  <2> SUFFICES ASSUME Inv, [Next]_vars PROVE Inv'
    OBVIOUS
  <2>1. CASE TimerFires
    BY <2>1, TimerKeeps
  <2>2. CASE \E f \in Files, driver \in GetLoopbackDriver :
               LoadFile(f, driver) \/ LoadFails(f, driver)
    BY <2>2, LoadKeeps DEF GetLoopbackDriver
  <2>3. CASE \E driver \in GetLoopbackDriver : StartPlayback(driver)
    BY <2>3, StartKeeps DEF GetLoopbackDriver
  <2>4. CASE PausePlayback
    BY <2>4, PauseKeeps
  <2>5. CASE OnToolbarPlay \/ ClosePanel \/ ShowPreferencesDialog \/ StartFails
    BY <2>5, PanelKeeps
  <2>6. CASE Tick
    BY <2>6, TickKeeps
  <2>7. CASE UNCHANGED vars
    BY <2>7 DEF vars, Inv, TypeOK, Sound, ReplayHasTimer, Scheduled, ButtonsTell, Jammed, Active, NextRow, Due,
       Length, IsPlaying
  <2> QED BY <2>1, <2>2, <2>3, <2>4, <2>5, <2>6, <2>7 DEF Next
<1> QED BY <1>1, <1>2, PTL DEF Spec

\* Every variable of the replay keeps its type.
THEOREM ReplayTypeCorrect == Spec => []TypeOK
<1>1. Inv => TypeOK
  BY DEF Inv
<1> QED BY <1>1, ReplayInvariant, PTL

\* A replay in progress has a timer, unless the panel was hidden under it.
THEOREM ReplayTimed == Spec => []ReplayHasTimer
<1>1. Inv => ReplayHasTimer
  BY DEF Inv
<1> QED BY <1>1, ReplayInvariant, PTL

\* The timer of a replay fires when the last row sent is due.
THEOREM ReplayOnSchedule == Spec => []OnSchedule
<1>1. Inv => OnSchedule
  BY DEF Inv, Scheduled, OnSchedule
<1> QED BY <1>1, ReplayInvariant, PTL

\* The load button tells whether a replay started by the user is in progress.
THEOREM ReplayButtonsTell == Spec => []ButtonsTell
<1>1. Inv => ButtonsTell
  BY DEF Inv
<1> QED BY <1>1, ReplayInvariant, PTL

=============================================================================
