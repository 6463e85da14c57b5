------------------------- MODULE MovieSession_proofs -------------------------
(***************************************************************************)
(* Movies for all machines and inputs, movies and rewinders of every size: *)
(* whatever is recorded, played, rewound, loaded, closed or goes wrong,    *)
(* the stream is there exactly while there is a movie; a recording stands  *)
(* at the end of its file until rewinding fails to cut it; and between two *)
(* frames the movie leads to the machine there is, until a state that is   *)
(* loaded behind its back, or a failing load or rewind, moves the machine. *)
(***************************************************************************)
EXTENDS MovieSession, SequenceTheorems, WellFoundedInduction, TLAPS

Snap == [machine : Machines, input : Inputs, own : BOOLEAN,
         fpos : 1..MaxLen \cup {NoMovie}]

(* The parts of TypeOK by what changes together.                            *)
MachineOK ==
  /\ machine \in Machines \cup {Closed} /\ PortData \in Inputs
  /\ NeedRewind \in BOOLEAN /\ active \in BOOLEAN
  /\ disturbed \subseteq {"machine", "file"}
(* A movie begins with a state, and the stream stands behind it.            *)
Movie(f) == f \in Seq(Entries) /\ Len(f) <= MaxLen
            /\ (Len(f) > 0 => f[1].type = "LOADSTATE")
FileOK ==
  /\ mode \in {"stopped", "playing", "recording"} /\ stream \in BOOLEAN
  /\ Movie(file) /\ pos \in 0..MaxLen
  /\ stream => pos > 0 /\ Len(file) > 0
HistOK == hist \in Seq(Snap) /\ Len(hist) <= Capacity
(* A closed game has no frame.                                              *)
FrameOK ==
  /\ pc \in {"idle", "input", "rewind", "core", "midsync", "rest"}
  /\ pc # "idle" => machine # Closed

IInv == MachineOK /\ FileOK /\ HistOK /\ FrameOK /\ StreamMatchesMode
-----------------------------------------------------------------------------
USE MovieAssumption

LEMMA EntriesTyped ==
  ASSUME NEW g \in Machines \cup {Closed}, NEW i \in Inputs
  PROVE  /\ State(g, i) \in Entries /\ Polled(i) \in Entries
         /\ Cmd \in Entries /\ Rest \in Entries
  BY DEF State, Polled, Entries

(* What an entry says of the machine and the input.                         *)
LEMMA EntryFields ==
  ASSUME NEW e \in Entries
  PROVE  /\ e.type = "LOADSTATE" => e.machine \in Machines \cup {Closed}
         /\ e.type \in {"LOADSTATE", "input"} => e.input \in Inputs
  BY DEF Entries, Cmd, Rest

LEMMA LoadedTyped ==
  ASSUME NEW e \in Entries, e.type = "LOADSTATE", NEW g \in Loaded(e)
  PROVE  g \in Machines /\ g # Closed
  BY EntryFields DEF Loaded

LEMMA MovieChangesTyped == HistOK /\ MovieChanges => HistOK'
<1> SUFFICES ASSUME HistOK, MovieChanges PROVE HistOK'
  OBVIOUS
<1>1. /\ DOMAIN hist = 1..Len(hist) /\ Len(hist) \in Nat
      /\ \A k \in 1..Len(hist) : hist[k] \in Snap
  BY DEF HistOK
<1>2. \A k \in 1..Len(hist) : [hist[k] EXCEPT !.own = FALSE] \in Snap
  BY <1>1 DEF Snap
<1>3. hist' = [k \in 1..Len(hist) |-> [hist[k] EXCEPT !.own = FALSE]]
  BY <1>1 DEF MovieChanges
<1>4. hist' \in Seq(Snap) /\ Len(hist') = Len(hist)
  BY <1>1, <1>2, <1>3
<1>5. QED
  BY <1>4 DEF HistOK

(* Without a movie there is no stream.                                      *)
LEMMA Stopped ==
  ASSUME mode' = "stopped", stream' = FALSE, pos' = 0, Movie(file')
  PROVE  FileOK' /\ StreamMatchesMode'
<1>1. stream' \in BOOLEAN /\ (stream' <=> mode' # "stopped") /\ ~stream'
  BY Zenon
<1>2. pos' \in 0..MaxLen /\ mode' # "recording"
  OBVIOUS
<1>3. QED
  BY <1>1, <1>2 DEF FileOK, StreamMatchesMode

(* A movie cut at n, or grown to n, begins as it did.                       *)
LEMMA TruncatedTyped ==
  ASSUME file \in Seq(Entries), NEW n \in Nat
  PROVE  /\ Truncated(n) \in Seq(Entries) /\ Len(Truncated(n)) = n
         /\ \A k \in 1..n : Truncated(n)[k] =
              IF k <= Len(file) THEN file[k] ELSE Polled(NoInput)
<1>1. \A k \in 1..n : (IF k <= Len(file) THEN file[k] ELSE Polled(NoInput))
                        \in Entries
  BY EntriesTyped
<1>2. QED
  BY <1>1 DEF Truncated

(* An entry is written behind what the position leaves of the movie; what   *)
(* was there of the movie may be left behind it.                            *)
LEMMA WroteTyped ==
  ASSUME Movie(file), Len(file) > 0, pos \in 1..MaxLen, NEW e \in Entries,
         Wrote(e)
  PROVE  /\ Movie(file') /\ pos + 1 \in 1..MaxLen
         /\ Len(file') \in {pos + 1, pos + 2}
         /\ file'[pos + 1] = e
         /\ Len(file') = pos + 2 => file'[pos + 2] = Rest
         /\ \A k \in 1..pos : file'[k] =
              IF k <= Len(file) THEN file[k] ELSE Polled(NoInput)
         /\ pos = Len(file) => Len(file') = pos + 1
<1> DEFINE t == Truncated(pos)
<1>1. /\ t \in Seq(Entries) /\ Len(t) = pos
      /\ \A k \in 1..pos : t[k] =
           IF k <= Len(file) THEN file[k] ELSE Polled(NoInput)
  <2>1. file \in Seq(Entries) /\ pos \in Nat
    BY DEF Movie
  <2>2. QED
    BY <2>1, TruncatedTyped, Zenon
<1>2. /\ Len(file) \in Nat /\ Len(file) < MaxLen /\ pos < MaxLen
      /\ file[1].type = "LOADSTATE" /\ Rest \in Entries
  BY EntriesTyped DEF Wrote, Room, Movie
<1>3. t[1].type = "LOADSTATE"
  BY <1>1, <1>2
<1>4. \/ file' = Append(t, e)
      \/ pos < Len(file) /\ file' = Append(Append(t, e), Rest)
  BY DEF Wrote
<1> HIDE DEF t
<1>5. /\ Append(t, e) \in Seq(Entries) /\ Len(Append(t, e)) = pos + 1
      /\ Append(t, e)[pos + 1] = e
      /\ \A k \in 1..pos : Append(t, e)[k] = t[k]
  BY <1>1
<1>6. CASE file' = Append(t, e)
  BY <1>1, <1>2, <1>3, <1>5, <1>6 DEF Movie
<1>7. CASE pos < Len(file) /\ file' = Append(Append(t, e), Rest)
  <2> DEFINE u == Append(t, e)
  <2>1. /\ u \in Seq(Entries) /\ Len(u) = pos + 1 /\ u[pos + 1] = e
        /\ \A k \in 1..pos : u[k] = t[k]
    BY <1>5
  <2>2. file' = Append(u, Rest)
    BY <1>7
  <2> HIDE DEF u
  <2>3. /\ file' \in Seq(Entries) /\ Len(file') = pos + 2
        /\ file'[pos + 2] = Rest /\ file'[pos + 1] = e
        /\ \A k \in 1..pos : file'[k] = t[k]
    BY <1>2, <2>1, <2>2
  <2>4. file'[1].type = "LOADSTATE"
    BY <1>3, <2>3
  <2>5. QED
    BY <1>1, <1>2, <1>7, <2>3, <2>4 DEF Movie
<1>8. QED
  BY <1>4, <1>6, <1>7

(* Written in part, an entry leaves the rest of the movie behind it.        *)
LEMMA WroteInPartTyped ==
  ASSUME Movie(file), Len(file) > 0, pos \in 1..MaxLen, WroteInPart
  PROVE  /\ Movie(file')
         /\ \/ file' = file
            \/ /\ pos < Len(file) /\ Len(file') = pos + 1
               /\ file'[pos + 1] = Rest
               /\ \A k \in 1..pos : file'[k] = file[k]
<1> DEFINE t == Truncated(pos)
<1>1. CASE file' = file
  BY <1>1
<1>2. CASE pos < Len(file) /\ file' = Append(t, Rest)
  <2>1. /\ t \in Seq(Entries) /\ Len(t) = pos
        /\ \A k \in 1..pos : t[k] = IF k <= Len(file) THEN file[k]
                                    ELSE Polled(NoInput)
    <3>1. file \in Seq(Entries) /\ pos \in Nat
      BY DEF Movie
    <3>2. QED
      BY <3>1, TruncatedTyped, Zenon
  <2>2. Rest \in Entries /\ Len(file) \in Nat /\ Len(file) <= MaxLen
        /\ file[1].type = "LOADSTATE"
    BY EntriesTyped DEF Movie
  <2> HIDE DEF t
  <2>3. /\ file' \in Seq(Entries) /\ Len(file') = pos + 1
        /\ file'[pos + 1] = Rest
        /\ \A k \in 1..pos : file'[k] = file[k]
    BY <1>2, <2>1, <2>2
  <2>4. QED
    BY <1>2, <2>2, <2>3 DEF Movie
<1>3. QED
  BY <1>1, <1>2 DEF WroteInPart

(* What is written goes to the position of a recording; an error ends the   *)
(* movie.                                                                   *)
LEMMA WrittenKeeps ==
  ASSUME FileOK, HistOK, StreamMatchesMode, mode = "recording",
         NEW e \in Entries, Written(e)
  PROVE  FileOK' /\ HistOK' /\ StreamMatchesMode'
<1>0. /\ Len(file) > 0 /\ pos \in 1..MaxLen /\ Movie(file) /\ stream
      /\ "file" \notin disturbed => pos = Len(file)
  BY DEF StreamMatchesMode, FileOK
<1>1. CASE Put(e) /\ UNCHANGED <<mode, stream, hist, disturbed>>
  <2>1. /\ Movie(file') /\ pos' \in 1..MaxLen /\ pos' = pos + 1
        /\ Len(file') \in {pos + 1, pos + 2}
        /\ "file" \notin disturbed => pos' = Len(file')
    BY <1>0, <1>1, WroteTyped DEF Put
  <2>2. FileOK' /\ HistOK'
    BY <1>1, <2>1 DEF FileOK, HistOK
  <2>3. StreamMatchesMode'
    BY <1>1, <2>1 DEF StreamMatchesMode
  <2>4. QED
    BY <2>2, <2>3
<1>2. CASE HandleMovieError /\ WroteInPart
  <2>1. HistOK'
    BY <1>2, MovieChangesTyped DEF HandleMovieError
  <2>2. Movie(file')
    BY <1>0, <1>2, WroteInPartTyped
  <2>3. QED
    BY <1>2, <2>1, <2>2, Stopped DEF HandleMovieError
<1>3. QED
  BY <1>1, <1>2 DEF Written

(* So does the state with which a recording ends.                           *)
LEMMA WrittenLastKeeps ==
  ASSUME FileOK, StreamMatchesMode, mode = "recording", PortData \in Inputs,
         NEW g \in Machines \cup {Closed}, WrittenLast(State(g, PortData))
  PROVE  Movie(file')
<1>1. Len(file) > 0 /\ pos \in 1..MaxLen /\ Movie(file)
  BY DEF StreamMatchesMode, FileOK
<1>2. State(g, PortData) \in Entries
  BY EntriesTyped
<1>3. QED
  BY <1>1, <1>2, WroteTyped, WroteInPartTyped DEF WrittenLast

LEMMA ErrorKeeps ==
  ASSUME FileOK, HistOK, HandleMovieError, file' = file \/ file' = <<>>
  PROVE  FileOK' /\ HistOK' /\ StreamMatchesMode'
<1>1. HistOK'
  BY MovieChangesTyped DEF HandleMovieError
<1>2. Movie(<<>>)
  BY DEF Movie
<1>3. Movie(file')
  BY <1>2 DEF FileOK
<1>4. QED
  BY <1>1, <1>3, Stopped DEF HandleMovieError

LEMMA StopKeeps ==
  ASSUME FileOK, HistOK, StreamMatchesMode, PortData \in Inputs,
         NEW g \in Machines \cup {Closed}, Stop(g)
  PROVE  FileOK' /\ HistOK' /\ StreamMatchesMode'
<1>1. HistOK'
  BY MovieChangesTyped DEF Stop
<1>2. Movie(file')
  <2>1. CASE mode = "recording"
    BY <2>1, WrittenLastKeeps DEF Stop
  <2>2. CASE mode # "recording"
    BY <2>2 DEF Stop, FileOK
  <2>3. QED
    BY <2>1, <2>2
<1>3. QED
  BY <1>1, <1>2, Stopped DEF Stop

LEMMA AddCommandKeeps ==
  ASSUME FileOK, HistOK, StreamMatchesMode, NEW e \in Entries, AddCommand(e)
  PROVE  FileOK' /\ HistOK' /\ StreamMatchesMode'
<1>1. CASE mode = "recording"
  BY <1>1, WrittenKeeps DEF AddCommand
<1>2. CASE mode # "recording"
  BY <1>2 DEF AddCommand, movie, FileOK, HistOK, StreamMatchesMode
<1>3. QED
  BY <1>1, <1>2

(* A movie just begun or opened: its first entry is the state.              *)
LEMMA Begun ==
  ASSUME HistOK, MovieChanges, stream' = TRUE, pos' = 1, Movie(file'),
         Len(file') > 0, mode' \in {"playing", "recording"},
         mode' = "recording" => Len(file') = 1
  PROVE  FileOK' /\ HistOK' /\ StreamMatchesMode'
<1>1. HistOK'
  BY MovieChangesTyped
<1>2. stream' \in BOOLEAN /\ (stream' <=> mode' # "stopped")
  BY Zenon
<1>3. QED
  BY <1>1, <1>2 DEF FileOK, StreamMatchesMode

LEMMA DisturbedTyped ==
  ASSUME disturbed \subseteq {"machine", "file"}, NEW e, Written(e)
  PROVE  disturbed' \subseteq {"machine", "file"}
  BY DEF Written, HandleMovieError, MovieChanges

LEMMA SnapshotTyped ==
  ASSUME MachineOK, FileOK, machine # Closed
  PROVE  Snapshot \in Snap
  BY DEF MachineOK, FileOK, Snapshot, Snap
-----------------------------------------------------------------------------
LEMMA InitIInv == Init => IInv
<1> SUFFICES ASSUME Init PROVE IInv
  OBVIOUS
<1>1. Movie(file)
  BY DEF Init, Movie
<1>2. hist \in Seq(Snap) /\ Len(hist) = 0
  BY DEF Init
<1>3. MachineOK
  <2>1. NeedRewind \in BOOLEAN /\ active \in BOOLEAN
        /\ disturbed \subseteq {"machine", "file"}
    BY Zenon DEF Init
  <2>2. QED
    BY <2>1 DEF Init, MachineOK
<1>4. stream \in BOOLEAN /\ (stream <=> mode # "stopped") /\ ~stream
  BY Zenon DEF Init
<1>5. pos \in 0..MaxLen /\ mode = "stopped"
  BY DEF Init
<1>6. FileOK /\ StreamMatchesMode
  BY <1>1, <1>4, <1>5 DEF FileOK, StreamMatchesMode
<1>7. HistOK /\ FrameOK
  BY <1>2 DEF Init, HistOK, FrameOK
<1>8. QED
  BY <1>3, <1>6, <1>7 DEF IInv
-----------------------------------------------------------------------------
(* The commands between two frames.                                         *)
LEMMA SaveMovieKeeps == IInv /\ SaveMovie => IInv'
<1> SUFFICES ASSUME IInv, SaveMovie PROVE IInv'
  OBVIOUS
<1> USE DEF IInv
<1>1. FileOK' /\ HistOK' /\ StreamMatchesMode'
  <2>1. CASE mode = "playing"
    BY <2>1, ErrorKeeps DEF SaveMovie
  <2>2. CASE mode = "recording"
    BY <2>2, StopKeeps DEF SaveMovie, MachineOK
  <2>3. CASE mode = "stopped"
    <3>1. CASE /\ mode' = "recording" /\ stream' = TRUE /\ MovieChanges
               /\ file' = <<State(machine, PortData)>> /\ pos' = 1
      <4>1. State(machine, PortData) \in Entries
        BY EntriesTyped DEF MachineOK
      <4>2. Movie(file') /\ Len(file') = 1
        BY <3>1, <4>1 DEF Movie, State
      <4>3. QED
        BY <3>1, <4>2, Begun
    <3>2. CASE file' \in {file, <<>>} /\ HandleMovieError
      BY <3>2, ErrorKeeps
    <3>3. QED
      BY <2>3, <3>1, <3>2 DEF SaveMovie
  <2>4. QED
    BY <2>1, <2>2, <2>3 DEF FileOK
<1>2. disturbed' \subseteq {"machine", "file"}
  BY DEF SaveMovie, HandleMovieError, Stop, MovieChanges
<1>3. MachineOK' /\ FrameOK'
  BY <1>2 DEF SaveMovie, frame, MachineOK, FrameOK
<1>4. QED
  BY <1>1, <1>3

LEMMA LoadMovieKeeps == IInv /\ LoadMovie => IInv'
<1> SUFFICES ASSUME IInv, LoadMovie PROVE IInv'
  OBVIOUS
<1> USE DEF IInv
<1>1. ASSUME file # <<>>
      PROVE  /\ file[1] \in Entries /\ file[1].type = "LOADSTATE"
             /\ file[1].input \in Inputs /\ Len(file) > 0
  <2>1. Len(file) > 0 /\ file[1] \in Entries /\ file[1].type = "LOADSTATE"
    BY <1>1 DEF FileOK, Movie
  <2>2. QED
    BY <2>1, EntryFields
<1>2. FileOK' /\ HistOK' /\ StreamMatchesMode'
  <2>1. CASE mode = "playing"
    BY <2>1, StopKeeps DEF LoadMovie, MachineOK
  <2>2. CASE mode = "recording"
    BY <2>2, ErrorKeeps DEF LoadMovie
  <2>3. CASE mode = "stopped"
    <3>1. CASE /\ file # <<>> /\ mode' = "playing" /\ stream' = TRUE
               /\ pos' = 1 /\ MovieChanges
      BY <1>1, <3>1, Begun DEF LoadMovie, FileOK
    <3>2. CASE HandleMovieError
      BY <3>2, ErrorKeeps DEF LoadMovie
    <3>3. QED
      BY <2>3, <3>1, <3>2 DEF LoadMovie
  <2>4. QED
    BY <2>1, <2>2, <2>3 DEF FileOK
<1>3. machine' \in Machines \cup {Closed} /\ PortData' \in Inputs
  <2>1. CASE UNCHANGED <<machine, PortData>>
    BY <2>1 DEF MachineOK
  <2>2. CASE /\ file # <<>> /\ machine' \in Loaded(file[1])
             /\ PortData' = file[1].input
    BY <1>1, <2>2, LoadedTyped
  <2>3. CASE file # <<>> /\ LoadedInPart(file[1])
    BY <1>1, <2>3 DEF LoadedInPart, MachineOK
  <2>4. CASE machine' \in Machines /\ PortData' \in Inputs
    BY <2>4
  <2>5. QED
    BY <2>1, <2>2, <2>3, <2>4 DEF LoadMovie, FileOK
<1>4. disturbed' \subseteq {"machine", "file"}
  BY DEF LoadMovie, HandleMovieError, Stop, MovieChanges
<1>5. MachineOK' /\ FrameOK'
  BY <1>3, <1>4 DEF LoadMovie, frame, MachineOK, FrameOK
<1>6. QED
  BY <1>2, <1>5

LEMMA CloseGameKeeps == IInv /\ CloseGame => IInv'
<1> SUFFICES ASSUME IInv, CloseGame PROVE IInv'
  OBVIOUS
<1> USE DEF IInv
<1>1. HistOK'
  <2>1. (hist' \in Seq(Snap) /\ Len(hist') = 0) \/ hist' = hist
    BY DEF CloseGame
  <2>2. QED
    BY <2>1 DEF HistOK
<1>2. FileOK' /\ StreamMatchesMode'
  <2>1. CASE mode = "stopped"
    BY <2>1 DEF CloseGame, movie, FileOK, StreamMatchesMode
  <2>2. CASE mode' = "stopped" /\ stream' = FALSE /\ pos' = 0
    <3>1. Movie(file')
      <4>1. CASE mode = "recording"
        BY <4>1, WrittenLastKeeps DEF CloseGame, MachineOK
      <4>2. CASE mode # "recording"
        BY <4>2 DEF CloseGame, movie, FileOK
      <4>3. QED
        BY <4>1, <4>2
    <3>2. QED
      BY <2>2, <3>1, Stopped
  <2>3. QED
    BY <2>1, <2>2 DEF CloseGame
<1>3. active' \in BOOLEAN /\ disturbed' \subseteq {"machine", "file"}
  BY Zenon DEF CloseGame
<1>4. MachineOK' /\ FrameOK'
  BY <1>3 DEF CloseGame, frame, MachineOK, FrameOK
<1>5. QED
  BY <1>1, <1>2, <1>4

LEMMA CommandsKeep ==
  ASSUME IInv,
         \/ LoadGame \/ QSimpleCommand
         \/ \E s \in SaveStates : LoadState(s) \/ LoadStateFails(s)
         \/ \E b \in BOOLEAN : EnableStateRewind(b)
  PROVE  IInv'
<1> USE DEF IInv
<1>1. CASE LoadGame
  BY <1>1 DEF LoadGame, frame, movie, rewinder, MachineOK, FrameOK, FileOK,
              HistOK, StreamMatchesMode
<1>2. CASE QSimpleCommand
  <2>1. FileOK' /\ HistOK' /\ StreamMatchesMode'
    <3>1. Cmd \in Entries
      BY DEF Entries
    <3>2. QED
      BY <1>2, <3>1, AddCommandKeeps DEF QSimpleCommand
  <2>2. machine' \in Machines /\ disturbed' \subseteq {"machine", "file"}
    BY <1>2, DisturbedTyped DEF QSimpleCommand, AddCommand, MachineOK
  <2>3. MachineOK' /\ FrameOK'
    BY <1>2, <2>2 DEF QSimpleCommand, frame, MachineOK, FrameOK
  <2>4. QED
    BY <2>1, <2>3
<1>3. ASSUME NEW s \in SaveStates, LoadState(s)
      PROVE  IInv'
  <2>1. s.machine \in Machines /\ s.input \in Inputs
    OBVIOUS
  <2>2. FileOK' /\ HistOK' /\ StreamMatchesMode'
    <3>1. State(s.machine, s.input) \in Entries
      BY <2>1, EntriesTyped
    <3>2. CASE mode = "playing"
      BY <1>3, <3>2 DEF LoadState, movie, FileOK, HistOK, StreamMatchesMode
    <3>3. QED
      BY <1>3, <3>1, <3>2, AddCommandKeeps DEF LoadState
  <2>3. disturbed' \subseteq {"machine", "file"}
    BY <1>3, DisturbedTyped DEF LoadState, AddCommand, Disturbs, MachineOK
  <2>4. MachineOK' /\ FrameOK'
    BY <1>3, <2>1, <2>3 DEF LoadState, frame, MachineOK, FrameOK
  <2>5. QED
    BY <2>2, <2>4
<1>4. ASSUME NEW s \in SaveStates, LoadStateFails(s)
      PROVE  IInv'
  <2>1. s.machine \in Machines /\ s.input \in Inputs
    OBVIOUS
  <2>2. FileOK' /\ HistOK' /\ StreamMatchesMode'
    BY <1>4 DEF LoadStateFails, movie, rewinder, FileOK, HistOK, Disturbs,
                StreamMatchesMode
  <2>3. disturbed' \subseteq {"machine", "file"} /\ active' = active
    BY <1>4 DEF LoadStateFails, Disturbs, MachineOK, rewinder
  <2>4. MachineOK' /\ FrameOK'
    BY <1>4, <2>1, <2>3
    DEF LoadStateFails, LoadedInPart, frame, rewinder, MachineOK, FrameOK
  <2>5. QED
    BY <2>2, <2>4
<1>5. ASSUME NEW b \in BOOLEAN, EnableStateRewind(b)
      PROVE  IInv'
  <2>1. HistOK'
    <3>1. CASE hist' = hist
      BY <3>1 DEF HistOK
    <3>2. CASE hist' = <<>>
      BY <3>2 DEF HistOK
    <3>3. QED
      BY <1>5, <3>1, <3>2 DEF EnableStateRewind
  <2>2. active' \in BOOLEAN
    BY <1>5, Zenon DEF EnableStateRewind
  <2>3. QED
    BY <1>5, <2>1, <2>2 DEF EnableStateRewind, frame, movie, MachineOK,
                            FrameOK, FileOK, StreamMatchesMode
<1>6. QED
  BY <1>1, <1>2, <1>3, <1>4, <1>5
-----------------------------------------------------------------------------
(* A poll of the input.                                                     *)
LEMMA ProcessInputKeeps == IInv /\ ProcessInput => IInv'
<1> SUFFICES ASSUME IInv, ProcessInput PROVE IInv'
  OBVIOUS
<1> USE DEF IInv
<1>0. ASSUME InProcessInput, InputDone, machine' = machine \/ machine' # Closed
      PROVE  FrameOK'
  BY <1>0 DEF InProcessInput, InputDone, FrameOK
<1>1. CASE InputStopped
  BY <1>0, <1>1 DEF InputStopped, movie, rewinder, MachineOK, FileOK, HistOK,
                    StreamMatchesMode
<1>2. CASE RecordInput
  <2>1. Polled(PortData) \in Entries
    BY EntriesTyped DEF MachineOK
  <2>2. FileOK' /\ HistOK' /\ StreamMatchesMode'
    BY <1>2, <2>1, WrittenKeeps DEF RecordInput
  <2>3. disturbed' \subseteq {"machine", "file"}
    BY <1>2, DisturbedTyped DEF RecordInput, MachineOK
  <2>4. QED
    BY <1>0, <1>2, <2>2, <2>3 DEF RecordInput, MachineOK
<1>3. CASE PlayCommand
  <2>1. file[pos + 1] \in Entries
    BY <1>3 DEF PlayCommand, FileOK, Movie
  <2>2. machine' \in Machines /\ PortData' \in Inputs
    <3>1. machine \in Machines
      BY <1>3 DEF PlayCommand, InProcessInput, FrameOK, MachineOK
    <3>2. QED
      BY <1>3, <2>1, <3>1, EntryFields, LoadedTyped DEF PlayCommand, MachineOK
  <2>3. pos' \in 0..MaxLen /\ pos' > 0
    BY <1>3 DEF PlayCommand, FileOK, Movie
  <2>4. FileOK' /\ HistOK' /\ StreamMatchesMode'
    BY <1>3, <2>3 DEF PlayCommand, FileOK, HistOK, StreamMatchesMode, rewinder
  <2>5. MachineOK' /\ FrameOK'
    BY <1>3, <2>2 DEF PlayCommand, frame, rewinder, MachineOK, FrameOK
  <2>6. QED
    BY <2>4, <2>5
<1>4. CASE PlayInput
  <2>1. file[pos + 1] \in Entries
    BY <1>4 DEF PlayInput, FileOK, Movie
  <2>2. PortData' \in Inputs
    BY <1>4, <2>1, EntryFields DEF PlayInput
  <2>3. pos' \in 0..MaxLen /\ pos' > 0
    BY <1>4 DEF PlayInput, FileOK, Movie
  <2>4. FileOK' /\ HistOK' /\ StreamMatchesMode'
    BY <1>4, <2>3 DEF PlayInput, FileOK, HistOK, StreamMatchesMode, rewinder
  <2>5. QED
    BY <1>0, <1>4, <2>2, <2>4 DEF PlayInput, rewinder, MachineOK
<1>5. CASE PlayEnds
  <2>1. FileOK' /\ HistOK' /\ StreamMatchesMode'
    BY <1>5, StopKeeps DEF PlayEnds, MachineOK
  <2>2. disturbed' = {}
    BY <1>5 DEF PlayEnds, Stop, MovieChanges
  <2>3. QED
    BY <1>0, <1>5, <2>1, <2>2 DEF PlayEnds, MachineOK
<1>6. CASE PlayFails
  <2>1. FileOK' /\ HistOK' /\ StreamMatchesMode'
    BY <1>6, ErrorKeeps DEF PlayFails
  <2>2. /\ machine' \in Machines \cup {Closed} /\ PortData' \in Inputs
        /\ machine' = machine \/ machine' # Closed
    <3>1. CASE UNCHANGED <<machine, PortData>>
      BY <3>1 DEF MachineOK
    <3>2. CASE /\ pos < Len(file) /\ file[pos + 1].type = "LOADSTATE"
               /\ LoadedInPart(file[pos + 1])
      <4>1. file[pos + 1] \in Entries
        BY <3>2 DEF FileOK, Movie
      <4>2. file[pos + 1].input \in Inputs
        BY <3>2, <4>1, EntryFields
      <4>3. QED
        BY <3>2, <4>2 DEF LoadedInPart, MachineOK
    <3>3. QED
      BY <1>6, <3>1, <3>2 DEF PlayFails
  <2>3. disturbed' = {}
    BY <1>6 DEF PlayFails, HandleMovieError, MovieChanges
  <2>4. QED
    BY <1>0, <1>6, <2>1, <2>2, <2>3 DEF PlayFails, MachineOK
<1>7. CASE PlayRest
  <2>1. pos' \in 0..MaxLen /\ pos' > 0 /\ mode = "playing"
    BY <1>7 DEF PlayRest, FileOK, StreamMatchesMode, Movie
  <2>2. FileOK' /\ HistOK' /\ StreamMatchesMode'
    BY <1>7, <2>1 DEF PlayRest, FileOK, HistOK, StreamMatchesMode, rewinder
  <2>3. FrameOK'
    BY <1>7 DEF PlayRest, InProcessInput, InputDone, FrameOK
  <2>4. QED
    BY <1>7, <2>2, <2>3 DEF PlayRest, Disturbs, rewinder, MachineOK
<1>8. QED
  BY <1>1, <1>2, <1>3, <1>4, <1>5, <1>6, <1>7 DEF ProcessInput
-----------------------------------------------------------------------------
(* The states kept for rewinding.                                           *)
LEMMA RecordKeeps == IInv /\ machine # Closed /\ DoRecord => HistOK'
<1> SUFFICES ASSUME IInv, machine # Closed, DoRecord PROVE HistOK'
  OBVIOUS
<1>1. Snapshot \in Snap
  BY SnapshotTyped DEF IInv
<1> DEFINE h == Append(hist, Snapshot)
<1>2. h \in Seq(Snap) /\ h # <<>> /\ Len(h) <= Capacity + 1 /\ Len(h) \in Nat
  BY <1>1 DEF IInv, HistOK
<1>3. hist' = IF Len(h) > Capacity THEN Tail(h) ELSE h
  BY DEF DoRecord
<1> HIDE DEF h
<1>4. Tail(h) \in Seq(Snap) /\ Len(Tail(h)) = Len(h) - 1
  BY <1>2, HeadTailProperties
<1>5. QED
  BY <1>2, <1>3, <1>4 DEF HistOK

(* The movie goes back with the machine; a recording is cut, or grows, to   *)
(* where the state was taken.                                               *)
LEMMA SeekKeeps ==
  ASSUME FileOK, StreamMatchesMode, NEW n \in 1..MaxLen \cup {NoMovie},
         (n # NoMovie) <=> stream, MovieSeek(n)
  PROVE  FileOK' /\ StreamMatchesMode'
<1>1. CASE ~stream
  BY <1>1 DEF MovieSeek, FileOK, StreamMatchesMode
<1>2. CASE stream /\ mode # "recording"
  BY <1>2 DEF MovieSeek, FileOK, StreamMatchesMode, NoMovie
<1>3. CASE stream /\ mode = "recording"
  <2>1. n \in 1..MaxLen /\ pos' = n /\ file' = Truncated(n)
    BY <1>3 DEF MovieSeek, NoMovie
  <2>2. /\ Truncated(n) \in Seq(Entries) /\ Len(Truncated(n)) = n
        /\ Truncated(n)[1] = file[1]
    <3>1. /\ file \in Seq(Entries) /\ n \in Nat /\ 1 \in 1..n
          /\ 1 <= Len(file)
      BY <1>3, <2>1 DEF FileOK, Movie
    <3>2. /\ Truncated(n) \in Seq(Entries) /\ Len(Truncated(n)) = n
          /\ \A k \in 1..n : Truncated(n)[k] =
               IF k <= Len(file) THEN file[k] ELSE Polled(NoInput)
      BY <3>1, TruncatedTyped, Zenon
    <3>3. QED
      BY <3>1, <3>2
  <2>3. Truncated(n)[1].type = "LOADSTATE"
    BY <1>3, <2>2 DEF FileOK, Movie
  <2>4. Movie(file') /\ Len(file') = n
    BY <2>1, <2>2, <2>3 DEF Movie
  <2>5. QED
    BY <1>3, <2>1, <2>4 DEF MovieSeek, FileOK, StreamMatchesMode
<1>4. QED
  BY <1>1, <1>2, <1>3

LEMMA RewindKeeps ==
  IInv /\ DoRewind => /\ FileOK' /\ HistOK' /\ StreamMatchesMode'
                      /\ machine' = machine \/ machine' \in Machines
                      /\ PortData' \in Inputs
                      /\ disturbed' \subseteq {"machine", "file"}
<1> SUFFICES ASSUME IInv, DoRewind
             PROVE  /\ FileOK' /\ HistOK' /\ StreamMatchesMode'
                    /\ machine' = machine \/ machine' \in Machines
                    /\ PortData' \in Inputs
                      /\ disturbed' \subseteq {"machine", "file"}
  OBVIOUS
<1> USE DEF IInv
<1>1. CASE hist = <<>>
  BY <1>1 DEF DoRewind, movie, FileOK, HistOK, StreamMatchesMode, MachineOK
<1>2. CASE hist # <<>>
  <2>1. Len(hist) \in Nat /\ Len(hist) > 0 /\ Last(hist) \in Snap
    BY <1>2 DEF HistOK, Last
  <2>2. /\ Last(hist).machine \in Machines /\ Last(hist).input \in Inputs
        /\ Last(hist).fpos \in 1..MaxLen \cup {NoMovie}
    BY <2>1 DEF Snap
  <2>3. /\ (Last(hist).fpos # NoMovie) <=> stream
        /\ MovieSeek(Last(hist).fpos)
    BY <1>2 DEF DoRewind
  <2>4. FileOK' /\ StreamMatchesMode'
    BY <2>2, <2>3, SeekKeeps
  <2>5. HistOK'
    <3>1. Len(hist) > 1 => Front(hist) \in Seq(Snap)
                           /\ Len(Front(hist)) = Len(hist) - 1
      BY <2>1 DEF Front, HistOK
    <3>2. hist' = IF Len(hist) > 1 THEN Front(hist) ELSE hist
      BY <1>2 DEF DoRewind
    <3>3. QED
      BY <2>1, <3>1, <3>2 DEF HistOK
  <2>6. disturbed' \subseteq {"machine", "file"}
    BY <1>2 DEF DoRewind, Disturbs, MachineOK
  <2>7. QED
    BY <1>2, <2>2, <2>4, <2>5, <2>6 DEF DoRewind
<1>3. QED
  BY <1>1, <1>2

LEMMA SRWFrameKeeps == IInv /\ SRWFrame => IInv'
<1> SUFFICES ASSUME IInv, SRWFrame PROVE IInv'
  OBVIOUS
<1> USE DEF IInv
<1>0. /\ machine # Closed /\ machine \in Machines /\ pc' = "core"
      /\ NeedRewind' \in BOOLEAN
  <2>1. NeedRewind' \in BOOLEAN
    BY Zenon DEF SRWFrame
  <2>2. QED
    BY <2>1 DEF SRWFrame, FrameOK, MachineOK
<1>1. CASE NoRewinder
  BY <1>0, <1>1 DEF NoRewinder, movie, rewinder, MachineOK, FileOK, HistOK,
                    FrameOK, StreamMatchesMode
<1>2. CASE DoRecord
  <2>1. HistOK'
    BY <1>0, <1>2, RecordKeeps
  <2>2. QED
    BY <1>0, <1>2, <2>1 DEF DoRecord, movie, MachineOK, FileOK, FrameOK,
                            StreamMatchesMode
<1>3. CASE DoRewind
  BY <1>0, <1>3, RewindKeeps DEF DoRewind, MachineOK, FrameOK
<1>4. CASE RewindErrs
  <2>1. /\ Last(hist).input \in Inputs
        /\ Last(hist).fpos \in 1..MaxLen \cup {NoMovie}
    <3>1. Last(hist) \in Snap
      BY <1>4 DEF RewindErrs, HistOK, Last
    <3>2. QED
      BY <3>1 DEF Snap
  <2>2. machine' \in Machines /\ PortData' \in Inputs
    BY <1>4, <2>1 DEF RewindErrs, LoadedInPart, MachineOK
  <2>3. disturbed' \subseteq {"machine", "file"} /\ active' \in BOOLEAN
    BY <1>4, Zenon DEF RewindErrs, Disturbs, MachineOK
  <2>4. HistOK'
    BY <1>4 DEF RewindErrs, HistOK
  <2>5. disturbed \subseteq disturbed'
    BY <1>4 DEF RewindErrs, Disturbs
  <2>6. FileOK' /\ StreamMatchesMode'
    <3>1. ASSUME NEW n \in 1..MaxLen \cup {NoMovie},
                 (n # NoMovie) <=> stream, MovieSeek(n)
          PROVE  FileOK' /\ StreamMatchesMode'
      BY <2>5, <3>1, SeekKeeps
    <3>2. CASE MovieSeek(pos)
      <4>1. CASE stream
        <5>1. pos \in 1..MaxLen /\ pos # NoMovie
          BY <4>1 DEF FileOK, NoMovie
        <5>2. QED
          BY <3>1, <3>2, <4>1, <5>1
      <4>2. CASE ~stream
        <5>1. MovieSeek(NoMovie)
          BY <3>2, <4>2 DEF MovieSeek
        <5>2. QED
          BY <3>1, <4>2, <5>1
      <4>3. QED
        BY <4>1, <4>2 DEF FileOK
    <3>3. CASE UNCHANGED movie
      BY <2>5, <3>3 DEF movie, FileOK, StreamMatchesMode
    <3>4. CASE /\ (Last(hist).fpos # NoMovie) = stream
               /\ MovieSeek(Last(hist).fpos)
      BY <2>1, <3>1, <3>4
    <3>5. CASE /\ (Last(hist).fpos # NoMovie) = stream /\ mode = "recording"
               /\ pos' = Last(hist).fpos /\ UNCHANGED <<mode, stream, file>>
               /\ Disturbs({"machine", "file"}, TRUE)
      <4>1. stream /\ Last(hist).fpos \in 1..MaxLen
        BY <2>1, <3>5 DEF StreamMatchesMode
      <4>2. "file" \in disturbed'
        BY <3>5 DEF Disturbs
      <4>3. QED
        BY <3>5, <4>1, <4>2 DEF FileOK, StreamMatchesMode
    <3>6. QED
      BY <1>4, <3>2, <3>3, <3>4, <3>5 DEF RewindErrs
  <2>7. QED
    BY <1>0, <1>4, <2>2, <2>3, <2>4, <2>6
    DEF RewindErrs, MachineOK, FrameOK
<1>5. CASE RecordErrs
  <2>1. active' \in BOOLEAN
    BY <1>5, Zenon DEF RecordErrs
  <2>2. HistOK'
    BY <1>5 DEF RecordErrs, HistOK
  <2>3. QED
    BY <1>0, <1>5, <2>1, <2>2
    DEF RecordErrs, movie, MachineOK, FileOK, FrameOK, StreamMatchesMode
<1>6. QED
  BY <1>1, <1>2, <1>3, <1>4, <1>5 DEF SRWFrame

(* The emulation module runs.                                               *)
LEMMA FrameKeeps ==
  ASSUME IInv,
         \/ \E i \in Inputs, b \in BOOLEAN : Emulate(i, b)
         \/ \E i \in Inputs : MidSync(i)
         \/ FrameDone
  PROVE  IInv'
<1> USE DEF IInv
<1>1. ASSUME NEW i \in Inputs, NEW b \in BOOLEAN, Emulate(i, b)
      PROVE  IInv'
  <2>1. NeedRewind' \in BOOLEAN
    BY <1>1, Zenon DEF Emulate
  <2>2. QED
    BY <1>1, <2>1 DEF Emulate, movie, rewinder, MachineOK, FileOK, HistOK,
                      FrameOK, StreamMatchesMode
<1>2. ASSUME NEW i \in Inputs, MidSync(i)
      PROVE  IInv'
  <2>1. machine' \in Machines
    BY <1>2 DEF MidSync, Stepped, FrameOK, MachineOK
  <2>2. QED
    BY <1>2, <2>1 DEF MidSync, movie, rewinder, MachineOK, FileOK, HistOK,
                      FrameOK, StreamMatchesMode
<1>3. CASE FrameDone
  <2>1. machine' \in Machines
    BY <1>3 DEF FrameDone, Stepped, FrameOK, MachineOK
  <2>2. QED
    BY <1>3, <2>1 DEF FrameDone, movie, rewinder, MachineOK, FileOK, HistOK,
                      FrameOK, StreamMatchesMode
<1>4. QED
  BY <1>1, <1>2, <1>3
-----------------------------------------------------------------------------
(* The invariant is kept by every step, the failing ones too.               *)
THEOREM Invariance == Spec => []IInv
<1>1. IInv /\ [Next]_vars => IInv'
  <2> SUFFICES ASSUME IInv, [Next]_vars PROVE IInv'
    OBVIOUS
  <2>1. CASE Next
    BY <2>1, SaveMovieKeeps, LoadMovieKeeps, CloseGameKeeps, CommandsKeep,
       ProcessInputKeeps, SRWFrameKeeps, FrameKeeps DEF Next
  <2>2. CASE UNCHANGED vars
    BY <2>2 DEF vars, frame, movie, rewinder, IInv, MachineOK, FileOK, HistOK,
                FrameOK, StreamMatchesMode
  <2>3. QED
    BY <2>1, <2>2
<1>2. QED
  BY <1>1, InitIInv, PTL DEF Spec

(* There is a stream exactly while there is a movie, whatever was rewound,  *)
(* loaded, closed or failed; and a recording writes at the end of its file, *)
(* unless a rewind, since it started, went back in it but failed to cut it. *)
THEOREM StreamIsTheMovie == Spec => []StreamMatchesMode
<1>1. IInv => StreamMatchesMode
  BY DEF IInv
<1>2. QED
  BY <1>1, Invariance, PTL

(* The movie and the states kept for rewinding stay within their bounds,    *)
(* and hold only machines and inputs there are.                             *)
THEOREM TypeCorrect == Spec => []TypeOK
<1>1. IInv => TypeOK
  <2> SUFFICES ASSUME IInv PROVE TypeOK
    OBVIOUS
  <2> DEFINE T == [machine : Machines, input : Inputs, own : BOOLEAN,
                   fpos : 0..MaxLen \cup {NoMovie}]
  <2>1. Snap \subseteq T
    BY DEF Snap
  <2>2. hist \in Seq(Snap)
    BY DEF IInv, HistOK
  <2> HIDE DEF T
  <2>3. hist \in Seq(T)
    BY ONLY <2>1, <2>2, SeqMonotonic
  <2>4. QED
    BY <2>3 DEF T, IInv, MachineOK, FileOK, Movie, HistOK, FrameOK, TypeOK
<1>2. QED
  BY <1>1, Invariance, PTL
-----------------------------------------------------------------------------
(* Every set of numbers that is not empty has a least one.                  *)
LEMMA Least ==
  ASSUME NEW S, S \subseteq Nat, S # {}
  PROVE  \E n \in S : \A m \in S : n <= m
<1>1. PICK n \in S : \A m \in S : ~(<<m, n>> \in OpToRel(<, Nat))
  BY NatLessThanWellFounded, WFMin, Zenon
<1>2. ASSUME NEW m \in S, m < n PROVE FALSE
  <2>1. <<m, n>> \in OpToRel(<, Nat)
    BY <1>2 DEF OpToRel
  <2>2. QED
    BY <1>1, <1>2, <2>1
<1>3. QED
  BY <1>2

(* What holds of 1 and is handed on holds all the way.                      *)
LEMMA Along ==
  ASSUME NEW n \in Nat \ {0}, NEW S, 1 \in S,
         \A i \in 1 .. n - 1 : i \in S => i + 1 \in S
  PROVE  \A i \in 1..n : i \in S
<1> DEFINE T == {k \in Nat : 1 <= k /\ k <= n /\ k \notin S}
<1> SUFFICES ASSUME T # {} PROVE FALSE
  OBVIOUS
<1>1. T \subseteq Nat
  OBVIOUS
<1>2. PICK k \in T : \A m \in T : k <= m
  BY <1>1, Least
<1>3. k \in Nat /\ k <= n /\ k \notin S /\ k > 1
  BY <1>2
<1>4. k - 1 \in 1 .. n - 1 /\ (k - 1) + 1 = k /\ k - 1 \notin T
  BY <1>2, <1>3
<1>5. QED
  BY <1>3, <1>4

(* at lists the machines that the movie f goes through.                     *)
IsReplay(at, f, n) ==
  at = [k \in 1..n |-> IF k = 1 THEN f[1].machine ELSE Played(at[k - 1], f[k])]
HasReplay(f, n) == \E at : IsReplay(at, f, n)
Steps(at, f, n) ==
  /\ at[1] = f[1].machine
  /\ \A k \in 1 .. n - 1 : at[k + 1] = Played(at[k], f[k + 1])

LEMMA ReplayExists ==
  ASSUME NEW f, NEW n \in Nat \ {0}
  PROVE  HasReplay(f, n)
<1> DEFINE S == {i \in Nat : i = 0 \/ HasReplay(f, i)}
<1>1. 1 \in S
  <2> DEFINE at == [k \in 1..1 |-> f[1].machine]
  <2>1. at = [k \in 1..1 |-> IF k = 1 THEN f[1].machine
                             ELSE Played(at[k - 1], f[k])]
    OBVIOUS
  <2> HIDE DEF at
  <2>2. IsReplay(at, f, 1)
    BY <2>1 DEF IsReplay
  <2>3. QED
    BY <2>2 DEF HasReplay
<1>2. ASSUME NEW i \in 1 .. n - 1, i \in S PROVE i + 1 \in S
  <2>1. PICK at : IsReplay(at, f, i)
    BY <1>2 DEF HasReplay
  <2> DEFINE b == [k \in 1 .. i + 1 |-> IF k = i + 1
                     THEN Played(at[i], f[i + 1]) ELSE at[k]]
  <2>2. ASSUME NEW k \in 1 .. i + 1
        PROVE  b[k] = IF k = 1 THEN f[1].machine ELSE Played(b[k - 1], f[k])
    <3>1. CASE k = i + 1
      <4>1. b[k] = Played(at[i], f[i + 1]) /\ k - 1 = i /\ k # 1
            /\ b[i] = at[i]
        BY <3>1
      <4>2. QED
        BY <3>1, <4>1
    <3>2. CASE k # i + 1
      <4>1. k \in 1..i /\ (k # 1 => k - 1 \in 1..i)
        BY <3>2
      <4>2. b[k] = at[k] /\ (k # 1 => b[k - 1] = at[k - 1])
        BY <3>2, <4>1
      <4>3. at[k] = IF k = 1 THEN f[1].machine ELSE Played(at[k - 1], f[k])
        BY <2>1, <4>1 DEF IsReplay
      <4>4. QED
        BY <4>1, <4>2, <4>3
    <3>3. QED
      BY <3>1, <3>2
  <2>3. b = [k \in 1 .. i + 1 |-> b[k]]
    OBVIOUS
  <2> HIDE DEF b
  <2>4. b = [k \in 1 .. i + 1 |-> IF k = 1 THEN f[1].machine
                                  ELSE Played(b[k - 1], f[k])]
    BY <2>2, <2>3
  <2>5. IsReplay(b, f, i + 1)
    BY <2>4 DEF IsReplay
  <2>6. QED
    BY <2>5 DEF HasReplay
<1> HIDE DEF S
<1>3. \A i \in 1..n : i \in S
  BY <1>1, <1>2, Along
<1>4. QED
  BY <1>3 DEF S

LEMMA ReplayGiven ==
  ASSUME NEW f, NEW n \in Nat \ {0}
  PROVE  \E at : Steps(at, f, n) /\ Replayed(f, n) = at[n]
<1> DEFINE at == CHOOSE x : x = [k \in 1..n |-> IF k = 1 THEN f[1].machine
                                                ELSE Played(x[k - 1], f[k])]
<1>1. Replayed(f, n) = at[n]
  BY DEF Replayed
<1>2. \E x : x = [k \in 1..n |-> IF k = 1 THEN f[1].machine
                                 ELSE Played(x[k - 1], f[k])]
  BY ReplayExists, Zenon DEF HasReplay, IsReplay
<1>3. at = [k \in 1..n |-> IF k = 1 THEN f[1].machine
                           ELSE Played(at[k - 1], f[k])]
  BY <1>2, Zenon
<1> HIDE DEF at
<1>4. at[1] = f[1].machine
  BY <1>3
<1>5. ASSUME NEW k \in 1 .. n - 1
      PROVE  at[k + 1] = Played(at[k], f[k + 1])
  <2>1. k + 1 \in 1..n /\ k + 1 # 1 /\ (k + 1) - 1 = k
    OBVIOUS
  <2>2. at[k + 1] = Played(at[(k + 1) - 1], f[k + 1])
    BY <1>3, <2>1
  <2>3. QED
    BY <2>1, <2>2
<1>6. Steps(at, f, n)
  BY <1>4, <1>5 DEF Steps
<1>7. QED
  BY <1>1, <1>6

(* Two movies that begin alike lead to the same machine.                    *)
LEMMA StepsAgree ==
  ASSUME NEW n \in Nat \ {0}, NEW f, NEW g, NEW a, NEW b,
         Steps(a, f, n), Steps(b, g, n), \A k \in 1..n : f[k] = g[k]
  PROVE  a[n] = b[n]
<1> DEFINE S == {k \in Nat : a[k] = b[k]}
<1>1. 1 \in S
  BY DEF Steps
<1>2. \A k \in 1 .. n - 1 : k \in S => k + 1 \in S
  BY DEF Steps
<1> HIDE DEF S
<1>3. \A k \in 1..n : k \in S
  BY <1>1, <1>2, Along
<1>4. QED
  BY <1>3 DEF S

LEMMA SameBeginning ==
  ASSUME NEW n \in Nat \ {0}, NEW f, NEW g, \A k \in 1..n : f[k] = g[k]
  PROVE  Replayed(f, n) = Replayed(g, n)
<1>1. PICK a : Steps(a, f, n) /\ Replayed(f, n) = a[n]
  BY ReplayGiven
<1>2. PICK b : Steps(b, g, n) /\ Replayed(g, n) = b[n]
  BY ReplayGiven
<1>3. QED
  BY <1>1, <1>2, StepsAgree

LEMMA ReplayedFirst ==
  ASSUME NEW f
  PROVE  Replayed(f, 1) = f[1].machine
<1>1. PICK a : Steps(a, f, 1) /\ Replayed(f, 1) = a[1]
  BY ReplayGiven
<1>2. QED
  BY <1>1 DEF Steps

LEMMA ReplayedNext ==
  ASSUME NEW f, NEW n \in Nat \ {0}
  PROVE  Replayed(f, n + 1) = Played(Replayed(f, n), f[n + 1])
<1>1. PICK a : Steps(a, f, n + 1) /\ Replayed(f, n + 1) = a[n + 1]
  BY ReplayGiven
<1>2. PICK b : Steps(b, f, n) /\ Replayed(f, n) = b[n]
  BY ReplayGiven
<1>3. Steps(a, f, n) /\ a[n + 1] = Played(a[n], f[n + 1])
  BY <1>1 DEF Steps
<1>4. a[n] = b[n]
  BY <1>2, <1>3, StepsAgree
<1>5. QED
  BY <1>1, <1>2, <1>3, <1>4
-----------------------------------------------------------------------------
(* Only a game that is closed while recorded leaves a closed machine in a   *)
(* movie, and there it is the last entry before what others left.           *)
ClosedState(e) == e.type = "LOADSTATE" /\ e.machine = Closed
EndsAt(k) == k = Len(file) \/ file[k + 1] = Rest
OpenMovie == \A k \in 1..Len(file) : ClosedState(file[k]) =>
               k > 1 /\ EndsAt(k) /\ mode # "recording"
OpenMachine == machine = Closed => mode = "stopped"

Tracked == mode # "stopped" /\ disturbed = {}
(* Where the movie is, seen from each point of a frame: the last poll is    *)
(* replayed as soon as it is written or read, and emulated later.           *)
MachineTracked ==
  Tracked =>
    /\ pos <= Len(file)
    /\ pc = "idle" => Replayed(file, pos) = machine
    /\ pc \in {"input", "midsync"} =>
         \/ Replayed(file, pos) = machine
         \/ EndsAt(pos) /\ ClosedState(file[pos])
    /\ pc \in {"rewind", "core", "rest"} =>
         Replayed(file, pos) = Stepped(machine, PortData)
(* The states kept of this movie are places in it, in the movie's order.    *)
Ours(s) == s.own /\ s.fpos # NoMovie
HistPlaced ==
  \A k \in 1..Len(hist) : Ours(hist[k]) =>
    /\ hist[k].fpos <= pos
    /\ Replayed(file, hist[k].fpos) = Stepped(hist[k].machine, hist[k].input)
HistOrdered ==
  \A k, m \in 1..Len(hist) :
    k < m /\ Ours(hist[k]) /\ Ours(hist[m]) => hist[k].fpos <= hist[m].fpos
HistTracked == Tracked => HistPlaced /\ HistOrdered

Follows == OpenMovie /\ OpenMachine /\ MachineTracked /\ HistTracked

LEMMA NotTracked ==
  ASSUME mode' = "stopped" \/ disturbed' # {}
  PROVE  MachineTracked' /\ HistTracked'
  BY DEF Tracked, MachineTracked, HistTracked

LEMMA NoneOurs ==
  ASSUME HistOK, MovieChanges
  PROVE  HistTracked'
<1>1. hist' = [k \in 1..Len(hist) |-> [hist[k] EXCEPT !.own = FALSE]]
  BY DEF HistOK, MovieChanges
<1>2. Len(hist') = Len(hist) /\ Len(hist) \in Nat
      /\ \A k \in 1..Len(hist) : hist[k] \in Snap
  BY <1>1 DEF HistOK
<1>3. \A k \in 1..Len(hist') : ~hist'[k].own
  BY <1>1, <1>2 DEF Snap
<1>4. QED
  BY <1>3 DEF HistTracked, HistPlaced, HistOrdered, Ours

(* The movie as it is, or one without a closed machine.                     *)
LEMMA OpenKept ==
  ASSUME OpenMovie, UNCHANGED file, mode' = mode \/ mode' # "recording"
  PROVE  OpenMovie'
  BY DEF OpenMovie, EndsAt

(* A recording that is cut, or grows.                                       *)
LEMMA CutOpen ==
  ASSUME OpenMovie, mode = "recording", Len(file) \in Nat, NEW n \in Nat,
         file' = Truncated(n)
  PROVE  OpenMovie'
<1>1. \A k \in 1..Len(file) : ~ClosedState(file[k])
  BY DEF OpenMovie
<1>2. ~ClosedState(Polled(NoInput))
  BY DEF ClosedState, Polled
<1>3. /\ Len(file') = n
      /\ \A k \in 1..n : file'[k] = IF k <= Len(file) THEN file[k]
                                  ELSE Polled(NoInput)
  BY DEF Truncated
<1>4. QED
  BY <1>1, <1>2, <1>3 DEF OpenMovie

(* What is written into a recording: only a closed machine that is written  *)
(* last makes it one that leads to a closed machine.                        *)
LEMMA WroteOpen ==
  ASSUME IInv, OpenMovie, mode = "recording", NEW e \in Entries,
         \/ Wrote(e) /\ (mode' = "stopped" \/ ~ClosedState(e))
         \/ WroteInPart
  PROVE  OpenMovie'
<1>1. /\ Movie(file) /\ Len(file) > 0 /\ pos \in 1..MaxLen
      /\ Len(file) \in Nat
      /\ \A k \in 1..Len(file) : ~ClosedState(file[k])
  BY DEF IInv, FileOK, Movie, StreamMatchesMode, OpenMovie
<1>2. ~ClosedState(Rest) /\ ~ClosedState(Polled(NoInput))
  BY DEF ClosedState, Rest, Polled
<1>3. CASE Wrote(e) /\ (mode' = "stopped" \/ ~ClosedState(e))
  <2>1. /\ Len(file') \in {pos + 1, pos + 2} /\ file'[pos + 1] = e
        /\ Len(file') = pos + 2 => file'[pos + 2] = Rest
        /\ \A k \in 1..pos : file'[k] =
             IF k <= Len(file) THEN file[k] ELSE Polled(NoInput)
    BY <1>1, <1>3, WroteTyped
  <2>2. \A k \in 1..pos : ~ClosedState(file'[k])
    BY <1>1, <1>2, <2>1
  <2>3. ASSUME NEW k \in 1..Len(file'), ClosedState(file'[k])
        PROVE  k > 1 /\ (k = Len(file') \/ file'[k + 1] = Rest)
               /\ mode' = "stopped"
    <3>1. k = pos + 1
      BY <1>1, <1>2, <2>1, <2>2, <2>3
    <3>2. k > 1 /\ (k = Len(file') \/ file'[k + 1] = Rest)
      BY <1>1, <2>1, <3>1
    <3>3. QED
      BY <1>3, <2>1, <2>3, <3>1, <3>2
  <2>4. QED
    BY <2>3 DEF OpenMovie, EndsAt
<1>4. CASE WroteInPart
  <2>1. \/ file' = file
        \/ /\ pos < Len(file) /\ Len(file') = pos + 1
           /\ file'[pos + 1] = Rest
           /\ \A k \in 1..pos : file'[k] = file[k]
    BY <1>1, <1>4, WroteInPartTyped
  <2>2. \A k \in 1..Len(file') : ~ClosedState(file'[k])
    BY <1>1, <1>2, <2>1
  <2>3. QED
    BY <2>2 DEF OpenMovie
<1>5. QED
  BY <1>3, <1>4

(* What is written to a recording, is replayed after what was there; and    *)
(* the places of the states before it stay what they are.                   *)
LEMMA WrittenFollows ==
  ASSUME IInv, Follows, mode = "recording", NEW e \in Entries,
         ~ClosedState(e), Written(e)
  PROVE  /\ OpenMovie' /\ HistTracked'
         /\ Tracked' => /\ Tracked /\ pos = Len(file)
                        /\ pos' <= Len(file')
                        /\ Replayed(file', pos')
                             = Played(Replayed(file, pos), e)
<1>0. /\ Len(file) \in Nat /\ Len(file) > 0 /\ pos \in 1..MaxLen
      /\ Movie(file) /\ hist \in Seq(Snap)
  BY DEF IInv, FileOK, Movie, StreamMatchesMode, HistOK
<1>1. CASE Put(e) /\ UNCHANGED <<mode, stream, hist, disturbed>>
  <2>1. OpenMovie'
    BY <1>1, WroteOpen DEF Put, Follows
  <2>2. SUFFICES ASSUME Tracked'
        PROVE  /\ HistPlaced' /\ HistOrdered'
               /\ Tracked /\ pos = Len(file) /\ pos' <= Len(file')
               /\ Replayed(file', pos') = Played(Replayed(file, pos), e)
    BY <2>1 DEF HistTracked
  <2>3. Tracked /\ pos = Len(file)
    BY <1>1, <2>2 DEF Tracked, IInv, StreamMatchesMode
  <2>4. /\ Len(file') = Len(file) + 1 /\ file'[Len(file) + 1] = e
        /\ \A k \in 1..Len(file) : file'[k] = file[k]
        /\ pos' = Len(file) + 1
    BY <1>0, <1>1, <2>3, WroteTyped DEF Put
  <2>5. ASSUME NEW n \in 1..Len(file)
        PROVE  Replayed(file', n) = Replayed(file, n)
    <3>1. n \in Nat \ {0} /\ \A k \in 1..n : file'[k] = file[k]
      BY <1>0, <2>4
    <3>2. QED
      BY ONLY <3>1, SameBeginning, SMTT(30)
  <2>6. Replayed(file', pos') = Played(Replayed(file, pos), e)
    <3>1. Replayed(file', Len(file)) = Replayed(file, Len(file))
      BY <1>0, <2>5
    <3>2. Replayed(file', Len(file) + 1)
            = Played(Replayed(file', Len(file)), file'[Len(file) + 1])
      BY <1>0, ReplayedNext
    <3>3. QED
      BY <2>3, <2>4, <3>1, <3>2
  <2>7. HistPlaced' /\ HistOrdered'
    <3>1. HistPlaced /\ HistOrdered
      BY <2>3 DEF Follows, HistTracked
    <3>2. ASSUME NEW k \in 1..Len(hist), Ours(hist[k])
          PROVE  /\ hist[k].fpos <= pos'
                 /\ Replayed(file', hist[k].fpos)
                      = Stepped(hist[k].machine, hist[k].input)
      <4>1. hist[k].fpos \in 1..Len(file)
        <5>1. hist[k] \in Snap
          BY <1>0
        <5>2. hist[k].fpos <= pos
          BY <3>1, <3>2 DEF HistPlaced
        <5>3. QED
          BY <1>0, <2>3, <3>2, <5>1, <5>2 DEF Snap, Ours, NoMovie
      <4>2. Replayed(file', hist[k].fpos) = Replayed(file, hist[k].fpos)
        BY <2>5, <4>1
      <4>3. QED
        BY <1>0, <2>4, <3>1, <3>2, <4>1, <4>2 DEF HistPlaced
    <3>3. hist' = hist
      BY <1>1
    <3>4. QED
      BY <3>1, <3>2, <3>3 DEF HistPlaced, HistOrdered
  <2>8. QED
    BY <1>0, <2>3, <2>4, <2>6, <2>7
<1>2. CASE HandleMovieError /\ WroteInPart
  <2>1. HistTracked'
    BY <1>2, NoneOurs DEF HandleMovieError, IInv
  <2>2. mode' = "stopped"
    BY <1>2 DEF HandleMovieError
  <2>3. OpenMovie'
    BY <1>2, WroteOpen DEF Follows
  <2>4. QED
    BY <2>1, <2>2, <2>3 DEF Tracked
<1>3. QED
  BY <1>1, <1>2 DEF Written

LEMMA StopFollows ==
  ASSUME IInv, Follows, NEW g \in Machines \cup {Closed}, Stop(g),
         machine' = machine
  PROVE  Follows'
<1>1. MachineTracked' /\ HistTracked'
  BY NotTracked DEF Stop
<1>2. OpenMovie'
  <2>1. CASE mode # "recording"
    BY <2>1, OpenKept DEF Stop, Follows
  <2>2. CASE mode = "recording"
    <3>1. State(g, PortData) \in Entries
      BY EntriesTyped DEF IInv, MachineOK
    <3>2. QED
      BY <2>2, <3>1, WroteOpen DEF Stop, WrittenLast, Follows
  <2>3. QED
    BY <2>1, <2>2
<1>3. QED
  BY <1>1, <1>2 DEF Stop, Follows, OpenMachine

LEMMA ErrorFollows ==
  ASSUME OpenMovie, HandleMovieError, file' = file \/ file' = <<>>
  PROVE  Follows'
<1>1. MachineTracked' /\ HistTracked'
  BY NotTracked DEF HandleMovieError
<1>2. OpenMovie'
  BY DEF OpenMovie, EndsAt, HandleMovieError
<1>3. QED
  BY <1>1, <1>2 DEF HandleMovieError, Follows, OpenMachine

(* A movie just begun or opened: it leads to its first state.               *)
LEMMA BegunFollows ==
  ASSUME HistOK, MovieChanges, OpenMovie', pos' = 1, Len(file') \in Nat \ {0},
         pc' = "idle", machine' = file'[1].machine, machine' # Closed
  PROVE  Follows'
<1>1. HistTracked'
  BY NoneOurs
<1>2. Replayed(file', 1) = file'[1].machine
  BY ReplayedFirst
<1>3. MachineTracked'
  BY <1>2 DEF MachineTracked
<1>4. QED
  BY <1>1, <1>3 DEF Follows, OpenMachine

LEMMA SaveMovieFollows == IInv /\ Follows /\ SaveMovie => Follows'
<1> SUFFICES ASSUME IInv, Follows, SaveMovie PROVE Follows'
  OBVIOUS
<1>1. CASE mode = "playing"
  BY <1>1, ErrorFollows DEF SaveMovie, Follows
<1>2. CASE mode = "recording"
  <2>1. Stop(machine) /\ machine' = machine
    BY <1>2 DEF SaveMovie
  <2>2. machine \in Machines \cup {Closed}
    BY DEF IInv, MachineOK
  <2>3. QED
    BY <2>1, <2>2, StopFollows
<1>3. CASE mode = "stopped"
  <2>1. CASE /\ mode' = "recording" /\ MovieChanges
             /\ file' = <<State(machine, PortData)>> /\ pos' = 1
    <3>1. machine' = machine /\ machine # Closed /\ pc' = "idle"
      BY DEF SaveMovie, frame
    <3>2. Len(file') = 1 /\ file'[1].machine = machine
      BY <2>1 DEF State
    <3>3. OpenMovie'
      BY <3>1, <3>2 DEF OpenMovie, ClosedState
    <3>4. HistOK
      BY DEF IInv
    <3>5. QED
      BY <2>1, <3>1, <3>2, <3>3, <3>4, BegunFollows
  <2>2. CASE file' \in {file, <<>>} /\ HandleMovieError
    BY <2>2, ErrorFollows DEF Follows
  <2>3. QED
    BY <1>3, <2>1, <2>2 DEF SaveMovie
<1>4. QED
  BY <1>1, <1>2, <1>3 DEF IInv, FileOK

LEMMA LoadMovieFollows == IInv /\ Follows /\ LoadMovie => Follows'
<1> SUFFICES ASSUME IInv, Follows, LoadMovie PROVE Follows'
  OBVIOUS
<1>1. CASE mode = "recording"
  BY <1>1, ErrorFollows DEF LoadMovie, Follows
<1>2. CASE mode = "playing"
  <2>1. Stop(machine) /\ machine' = machine
    BY <1>2 DEF LoadMovie
  <2>2. machine \in Machines \cup {Closed}
    BY DEF IInv, MachineOK
  <2>3. QED
    BY <2>1, <2>2, StopFollows
<1>3. CASE mode = "stopped"
  <2>1. CASE /\ file # <<>> /\ mode' = "playing" /\ pos' = 1
             /\ machine' \in Loaded(file[1]) /\ MovieChanges
    <3>1. file' = file /\ pc' = "idle"
      BY DEF LoadMovie, frame
    <3>2. /\ Len(file) \in Nat /\ Len(file) > 0 /\ file[1] \in Entries
          /\ file[1].type = "LOADSTATE"
      BY <2>1 DEF IInv, FileOK, Movie
    <3>3. machine' \in Machines /\ machine' # Closed
      BY <2>1, <3>2, LoadedTyped
    <3>4. ~ClosedState(file[1])
      BY <3>2 DEF Follows, OpenMovie
    <3>5. machine' = file[1].machine
      BY <2>1, <3>2, <3>4 DEF ClosedState, Loaded
    <3>6. OpenMovie'
      BY <2>1, <3>1, OpenKept DEF Follows
    <3>7. HistOK
      BY DEF IInv
    <3>8. QED
      BY <2>1, <3>1, <3>2, <3>3, <3>5, <3>6, <3>7, BegunFollows
  <2>2. CASE HandleMovieError
    <3>1. file' = file
      BY DEF LoadMovie
    <3>2. QED
      BY <2>2, <3>1, ErrorFollows DEF Follows
  <2>3. QED
    BY <1>3, <2>1, <2>2 DEF LoadMovie
<1>4. QED
  BY <1>1, <1>2, <1>3 DEF IInv, FileOK

LEMMA CloseGameFollows == IInv /\ Follows /\ CloseGame => Follows'
<1> SUFFICES ASSUME IInv, Follows, CloseGame PROVE Follows'
  OBVIOUS
<1>1. mode' = "stopped"
  BY DEF CloseGame, movie
<1>2. OpenMovie'
  <2>1. CASE mode # "recording"
    BY <1>1, <2>1, OpenKept DEF CloseGame, movie, Follows
  <2>2. CASE mode = "recording"
    <3>1. State(Closed, PortData) \in Entries
      BY EntriesTyped DEF IInv, MachineOK
    <3>2. QED
      BY <1>1, <2>2, <3>1, WroteOpen DEF CloseGame, WrittenLast, Follows
  <2>3. QED
    BY <2>1, <2>2
<1>3. QED
  BY <1>1, <1>2, NotTracked DEF Follows, OpenMachine

(* Fewer of the states kept, and nothing else.                              *)
LEMMA HistForgotten ==
  ASSUME HistTracked, hist' = <<>> \/ hist' = hist,
         UNCHANGED <<mode, file, pos, disturbed>>
  PROVE  HistTracked'
<1>1. CASE hist' = <<>>
  BY <1>1 DEF HistTracked, HistPlaced, HistOrdered
<1>2. CASE hist' = hist
  BY <1>2 DEF HistTracked, HistPlaced, HistOrdered, Tracked
<1>3. QED
  BY <1>1, <1>2

(* A command between two frames: it is recorded, or there is no movie.      *)
LEMMA CommandFollows ==
  ASSUME IInv, Follows, pc = "idle", pc' = "idle", NEW e \in Entries,
         ~ClosedState(e), AddCommand(e), machine # Closed, machine' # Closed,
         machine' = Played(machine, e), mode # "playing"
  PROVE  Follows'
<1>1. CASE mode = "recording"
  <2>1. /\ OpenMovie' /\ HistTracked'
        /\ Tracked' => /\ Tracked /\ pos' <= Len(file')
                       /\ Replayed(file', pos')
                            = Played(Replayed(file, pos), e)
    BY <1>1, WrittenFollows DEF AddCommand
  <2>2. Tracked => Replayed(file, pos) = machine
    BY DEF Follows, MachineTracked
  <2>3. MachineTracked'
    BY <2>1, <2>2 DEF MachineTracked
  <2>4. QED
    BY <2>1, <2>3 DEF Follows, OpenMachine
<1>2. CASE mode # "recording"
  <2>1. UNCHANGED <<mode, file, pos, hist>> /\ mode' = "stopped"
    BY <1>2 DEF AddCommand, movie, IInv, FileOK
  <2>2. OpenMovie'
    BY <2>1, OpenKept DEF Follows
  <2>3. QED
    BY <2>1, <2>2, NotTracked DEF Follows, OpenMachine
<1>3. QED
  BY <1>1, <1>2

LEMMA CommandsFollow ==
  ASSUME IInv, Follows,
         \/ LoadGame \/ QSimpleCommand
         \/ \E s \in SaveStates : LoadState(s) \/ LoadStateFails(s)
         \/ \E b \in BOOLEAN : EnableStateRewind(b)
  PROVE  Follows'
<1>1. CASE LoadGame
  <2>1. mode' = "stopped" /\ mode = mode' /\ file' = file
    BY <1>1 DEF LoadGame, movie, Follows, OpenMachine
  <2>2. OpenMovie'
    BY <2>1, OpenKept DEF Follows
  <2>3. QED
    BY <2>1, <2>2, NotTracked DEF Follows, OpenMachine
<1>2. CASE QSimpleCommand
  <2>1. Cmd \in Entries /\ ~ClosedState(Cmd)
        /\ Played(machine, Cmd) = Commanded[machine]
    BY DEF Entries, ClosedState, Cmd, Played
  <2>2. machine' # Closed
    BY <1>2 DEF QSimpleCommand, IInv, MachineOK
  <2>3. /\ pc = "idle" /\ pc' = "idle" /\ AddCommand(Cmd) /\ machine # Closed
        /\ machine' = Played(machine, Cmd) /\ mode # "playing"
    BY <1>2, <2>1 DEF QSimpleCommand, frame
  <2>4. QED
    BY <2>1, <2>2, <2>3, CommandFollows
<1>3. ASSUME NEW s \in SaveStates, LoadState(s)
      PROVE  Follows'
  <2> DEFINE e == State(s.machine, s.input)
  <2>1. s.machine \in Machines /\ s.input \in Inputs /\ s.machine # Closed
    OBVIOUS
  <2>2. e \in Entries /\ ~ClosedState(e) /\ Played(machine, e) = s.machine
    BY <2>1, EntriesTyped DEF ClosedState, State, Played
  <2>3. /\ pc = "idle" /\ pc' = "idle" /\ machine # Closed
        /\ machine' = s.machine
        /\ mode # "playing" => AddCommand(e)
    BY <1>3 DEF LoadState, frame
  <2> HIDE DEF e
  <2>4. CASE mode = "playing"
    <3>1. UNCHANGED <<mode, file>> /\ disturbed' # {}
      BY <1>3, <2>4 DEF LoadState, movie, Disturbs
    <3>2. OpenMovie'
      BY <3>1, OpenKept DEF Follows
    <3>3. QED
      BY <2>1, <2>3, <3>1, <3>2, NotTracked DEF Follows, OpenMachine
  <2>5. QED
    BY <2>1, <2>2, <2>3, <2>4, CommandFollows
<1>4. ASSUME NEW s \in SaveStates, LoadStateFails(s)
      PROVE  Follows'
  <2>1. mode' = mode /\ file' = file /\ machine' # Closed
    BY <1>4 DEF LoadStateFails, LoadedInPart, movie
  <2>2. mode' = "stopped" \/ disturbed' # {}
    BY <1>4, <2>1 DEF LoadStateFails, Disturbs
  <2>3. OpenMovie'
    BY <2>1, OpenKept DEF Follows
  <2>4. QED
    BY <2>1, <2>2, <2>3, NotTracked DEF Follows, OpenMachine
<1>5. ASSUME NEW b \in BOOLEAN, EnableStateRewind(b)
      PROVE  Follows'
  <2>1. /\ UNCHANGED <<pc, machine, PortData, mode, file, pos, disturbed>>
        /\ hist' = <<>> \/ hist' = hist
    BY <1>5 DEF EnableStateRewind, frame, movie
  <2>2. HistTracked'
    BY <2>1, HistForgotten DEF Follows
  <2>3. OpenMovie'
    BY <2>1, OpenKept DEF Follows
  <2>4. MachineTracked' /\ OpenMachine'
    BY <2>1 DEF Follows, MachineTracked, OpenMachine, Tracked, EndsAt
  <2>5. QED
    BY <2>2, <2>3, <2>4 DEF Follows
<1>6. QED
  BY <1>1, <1>2, <1>3, <1>4, <1>5

(* The emulation module runs: what was polled is emulated.                  *)
LEMMA FrameFollows ==
  ASSUME IInv, Follows,
         \/ \E i \in Inputs, b \in BOOLEAN : Emulate(i, b)
         \/ \E i \in Inputs : MidSync(i)
         \/ FrameDone
  PROVE  Follows'
<1>1. UNCHANGED <<mode, file, pos, hist, disturbed>>
  BY DEF Emulate, MidSync, FrameDone, movie, rewinder
<1>2. OpenMovie' /\ HistTracked'
  BY <1>1, OpenKept, HistForgotten DEF Follows
<1>3. ASSUME NEW i \in Inputs, NEW b \in BOOLEAN, Emulate(i, b)
      PROVE  OpenMachine' /\ MachineTracked'
  BY <1>1, <1>3 DEF Emulate, Follows, OpenMachine, MachineTracked, Tracked
<1>4. ASSUME NEW i \in Inputs, MidSync(i)
      PROVE  OpenMachine' /\ MachineTracked'
  <2>1. machine' = Stepped(machine, PortData) /\ pc = "core" /\ pc' = "midsync"
    BY <1>4 DEF MidSync
  <2>2. machine' # Closed
    BY <2>1 DEF Stepped, IInv, FrameOK, MachineOK
  <2>3. QED
    BY <1>1, <2>1, <2>2 DEF Follows, OpenMachine, MachineTracked, Tracked
<1>5. CASE FrameDone
  <2>1. /\ machine' = Stepped(machine, PortData) /\ pc \in {"core", "rest"}
        /\ pc' = "idle"
    BY <1>5 DEF FrameDone
  <2>2. machine' # Closed
    BY <2>1 DEF Stepped, IInv, FrameOK, MachineOK
  <2>3. OpenMachine' /\ MachineTracked'
    BY <1>1, <2>1, <2>2 DEF Follows, OpenMachine, MachineTracked, Tracked
  <2>4. QED
    BY <1>2, <2>3 DEF Follows
<1>6. QED
  BY <1>2, <1>3, <1>4, <1>5 DEF Follows
-----------------------------------------------------------------------------
(* The states kept stay places in the movie while it is played on.          *)
LEMMA PlayedOn ==
  ASSUME IInv, HistTracked, pos' = pos + 1,
         UNCHANGED <<mode, file, hist, disturbed>>
  PROVE  HistTracked'
<1> SUFFICES ASSUME Tracked' PROVE HistPlaced' /\ HistOrdered'
  BY DEF HistTracked
<1>1. HistPlaced /\ HistOrdered
  BY DEF HistTracked, Tracked
<1>2. ASSUME NEW k \in 1..Len(hist), Ours(hist[k])
      PROVE  hist[k].fpos <= pos + 1
  <2>1. hist[k] \in Snap /\ hist[k].fpos <= pos /\ pos \in Nat
    BY <1>1, <1>2 DEF IInv, HistOK, FileOK, HistPlaced
  <2>2. QED
    BY <1>2, <2>1 DEF Snap, Ours, NoMovie
<1>3. QED
  BY <1>1, <1>2 DEF HistPlaced, HistOrdered

LEMMA ProcessInputFollows == IInv /\ Follows /\ ProcessInput => Follows'
<1> SUFFICES ASSUME IInv, Follows, ProcessInput PROVE Follows'
  OBVIOUS
<1>0. machine \in Machines /\ machine # Closed
      /\ pc \in {"input", "midsync"}
  BY DEF ProcessInput, InputStopped, RecordInput, PlayCommand, PlayInput,
         PlayRest, PlayEnds, PlayFails, InProcessInput, IInv, FrameOK, MachineOK
<1>1. CASE InputStopped
  <2>1. mode' = "stopped" /\ file' = file
    BY <1>1 DEF InputStopped, movie
  <2>2. OpenMovie'
    BY <2>1, OpenKept DEF Follows
  <2>3. QED
    BY <2>1, <2>2, NotTracked DEF Follows, OpenMachine
<1>2. CASE RecordInput
  <2> DEFINE e == Polled(PortData)
  <2>1. e \in Entries /\ ~ClosedState(e)
        /\ Played(machine, e) = Stepped(machine, PortData)
    BY EntriesTyped DEF ClosedState, Polled, Played, IInv, MachineOK
  <2>2. /\ mode = "recording" /\ Written(e)
        /\ UNCHANGED <<machine, PortData>>
        /\ pc' \in {"rewind", "rest"}
    BY <1>2 DEF RecordInput, InputDone
  <2> HIDE DEF e
  <2>3. /\ OpenMovie' /\ HistTracked'
        /\ Tracked' => /\ Tracked /\ pos = Len(file) /\ pos' <= Len(file')
                       /\ Replayed(file', pos')
                            = Played(Replayed(file, pos), e)
    BY <2>1, <2>2, WrittenFollows
  <2>4. Tracked' => Replayed(file, pos) = machine
    <3>1. \A k \in 1..Len(file) : ~ClosedState(file[k])
      BY <2>2 DEF Follows, OpenMovie
    <3>2. pos = Len(file) => pos \in 1..Len(file)
      BY <2>2 DEF IInv, FileOK, Movie, StreamMatchesMode
    <3>3. QED
      BY <1>0, <2>3, <3>1, <3>2 DEF Follows, MachineTracked
  <2>5. MachineTracked'
    BY <2>1, <2>2, <2>3, <2>4 DEF MachineTracked
  <2>6. QED
    BY <1>0, <2>2, <2>3, <2>5 DEF Follows, OpenMachine
<1>3. CASE PlayCommand
  <2>1. /\ UNCHANGED <<pc, mode, file, hist, disturbed>> /\ pos' = pos + 1
        /\ pos < Len(file) /\ mode = "playing"
    BY <1>3 DEF PlayCommand, frame, rewinder
  <2>2. pos \in Nat \ {0} /\ Len(file) \in Nat /\ file[pos + 1] \in Entries
    BY <2>1 DEF IInv, FileOK, Movie, StreamMatchesMode
  <2>3. OpenMovie' /\ HistTracked'
    BY <2>1, OpenKept, PlayedOn DEF Follows
  <2>4. Replayed(file, pos + 1) = Played(Replayed(file, pos), file[pos + 1])
    BY <2>2, ReplayedNext
  <2>5. Tracked => Replayed(file, pos) = machine
    <3>1. file[pos + 1] # Rest
      BY <1>3 DEF PlayCommand, Rest
    <3>2. QED
      BY <1>0, <2>1, <2>2, <3>1 DEF Follows, MachineTracked, EndsAt
  <2>6. CASE file[pos + 1].type = "command"
    <3>1. machine' = Commanded[machine]
      BY <1>3, <2>6 DEF PlayCommand
    <3>2. Tracked => Replayed(file, pos + 1) = machine'
      BY <2>4, <2>5, <2>6, <3>1 DEF Played
    <3>3. MachineTracked'
      BY <1>0, <2>1, <2>2, <3>2 DEF MachineTracked, Tracked
    <3>4. machine' # Closed
      BY <1>0, <3>1
    <3>5. QED
      BY <2>3, <3>3, <3>4 DEF Follows, OpenMachine
  <2>7. CASE file[pos + 1].type = "LOADSTATE"
    <3>1. machine' \in Loaded(file[pos + 1])
      BY <1>3, <2>7 DEF PlayCommand
    <3>2. machine' \in Machines /\ machine' # Closed
      BY <2>2, <2>7, <3>1, LoadedTyped
    <3>3. \/ Replayed(file, pos + 1) = machine'
          \/ EndsAt(pos + 1) /\ ClosedState(file[pos + 1])
      <4>1. CASE ClosedState(file[pos + 1])
        <5>1. pos + 1 \in 1..Len(file)
          BY <2>1, <2>2
        <5>2. QED
          BY <4>1, <5>1 DEF Follows, OpenMovie
      <4>2. CASE ~ClosedState(file[pos + 1])
        BY <2>4, <2>7, <3>1, <4>2 DEF ClosedState, Loaded, Played
      <4>3. QED
        BY <4>1, <4>2
    <3>4. MachineTracked'
      BY <1>0, <2>1, <2>2, <3>3 DEF MachineTracked, EndsAt
    <3>5. QED
      BY <2>3, <3>2, <3>4 DEF Follows, OpenMachine
  <2>8. QED
    BY <1>3, <2>6, <2>7 DEF PlayCommand
<1>4. CASE PlayInput
  <2>1. /\ UNCHANGED <<machine, mode, file, hist, disturbed>> /\ pos' = pos + 1
        /\ pos < Len(file) /\ mode = "playing"
        /\ file[pos + 1].type = "input" /\ PortData' = file[pos + 1].input
        /\ pc' \in {"rewind", "rest"}
    BY <1>4 DEF PlayInput, InputDone, rewinder
  <2>2. pos \in Nat \ {0} /\ Len(file) \in Nat
    BY <2>1 DEF IInv, FileOK, Movie, StreamMatchesMode
  <2>3. OpenMovie' /\ HistTracked'
    BY <2>1, OpenKept, PlayedOn DEF Follows
  <2>4. Replayed(file, pos + 1) = Played(Replayed(file, pos), file[pos + 1])
    BY <2>2, ReplayedNext
  <2>5. Tracked => Replayed(file, pos) = machine
    <3>1. file[pos + 1] # Rest
      BY <2>1 DEF Rest
    <3>2. QED
      BY <1>0, <2>1, <2>2, <3>1 DEF Follows, MachineTracked, EndsAt
  <2>6. Tracked => Replayed(file, pos + 1) = Stepped(machine, PortData')
    BY <2>1, <2>4, <2>5 DEF Played
  <2>7. MachineTracked'
    BY <2>1, <2>2, <2>6 DEF MachineTracked, Tracked
  <2>8. QED
    BY <1>0, <2>1, <2>3, <2>7 DEF Follows, OpenMachine
<1>5. CASE PlayEnds
  <2>1. Stop(machine) /\ machine' = machine
    BY <1>5 DEF PlayEnds
  <2>2. QED
    BY <1>0, <2>1, StopFollows
<1>6. CASE PlayFails
  BY <1>6, ErrorFollows DEF PlayFails, Follows
<1>7. CASE PlayRest
  <2>1. mode' = mode /\ file' = file /\ disturbed' # {} /\ machine' # Closed
    BY <1>7 DEF PlayRest, Disturbs
  <2>2. OpenMovie'
    BY <2>1, OpenKept DEF Follows
  <2>3. QED
    BY <2>1, <2>2, NotTracked DEF Follows, OpenMachine
<1>8. QED
  BY <1>1, <1>2, <1>3, <1>4, <1>5, <1>6, <1>7 DEF ProcessInput
-----------------------------------------------------------------------------
(* A state kept while the movie is at pos is the place pos.                 *)
LEMMA RecordFollows ==
  ASSUME IInv, Follows, machine # Closed, pc = "rewind", DoRecord
  PROVE  HistTracked'
<1> SUFFICES ASSUME Tracked' PROVE HistPlaced' /\ HistOrdered'
  BY DEF HistTracked
<1>1. Tracked /\ UNCHANGED <<file, pos>>
  BY DEF DoRecord, movie, Tracked
<1>2. /\ HistPlaced /\ HistOrdered
      /\ Replayed(file, pos) = Stepped(machine, PortData)
  BY <1>1 DEF Follows, HistTracked, MachineTracked
<1>3. Snapshot \in Snap
  BY SnapshotTyped DEF IInv
<1> DEFINE h == Append(hist, Snapshot)
<1>4. /\ hist \in Seq(Snap) /\ Len(hist) \in Nat /\ pos \in Nat
      /\ h \in Seq(Snap) /\ h # <<>> /\ Len(h) = Len(hist) + 1
      /\ h[Len(hist) + 1] = Snapshot
      /\ \A k \in 1..Len(hist) : h[k] = hist[k]
  BY <1>3 DEF IInv, HistOK, FileOK
<1>5. hist' = IF Len(h) > Capacity THEN Tail(h) ELSE h
  BY DEF DoRecord
<1> HIDE DEF h
<1>6. ASSUME NEW k \in 1..Len(h), Ours(h[k])
      PROVE  /\ h[k].fpos <= pos
             /\ Replayed(file, h[k].fpos) = Stepped(h[k].machine, h[k].input)
             /\ h[k].fpos \in Nat
  <2>1. h[k] \in Snap
    BY <1>4
  <2>2. h[k].fpos \in Nat
    BY <1>6, <2>1 DEF Snap, Ours, NoMovie
  <2>3. CASE k = Len(hist) + 1
    <3>1. h[k] = Snapshot
      BY <1>4, <2>3
    <3>2. h[k].fpos = pos /\ h[k].machine = machine /\ h[k].input = PortData
      BY <1>6, <3>1 DEF Snapshot, Ours
    <3>3. QED
      BY <1>2, <1>4, <2>2, <3>2
  <2>4. CASE k \in 1..Len(hist)
    BY <1>2, <1>4, <1>6, <2>2, <2>4 DEF HistPlaced
  <2>5. QED
    BY <1>4, <2>3, <2>4
<1>7. ASSUME NEW k \in 1..Len(h), NEW m \in 1..Len(h), k < m, Ours(h[k]),
             Ours(h[m])
      PROVE  h[k].fpos <= h[m].fpos
  <2>1. k \in 1..Len(hist) /\ h[k] = hist[k]
    BY <1>4, <1>7
  <2>2. CASE m = Len(hist) + 1
    <3>1. h[m].fpos = pos
      BY <1>4, <1>7, <2>2 DEF Snapshot, Ours
    <3>2. QED
      BY <1>6, <1>7, <3>1
  <2>3. CASE m \in 1..Len(hist)
    BY <1>2, <1>4, <1>7, <2>1, <2>3 DEF HistOrdered
  <2>4. QED
    BY <1>4, <2>2, <2>3
<1>8. CASE Len(h) > Capacity
  <2>1. /\ hist' = Tail(h) /\ Len(Tail(h)) = Len(h) - 1
        /\ \A k \in 1..Len(Tail(h)) : Tail(h)[k] = h[k + 1]
    BY <1>4, <1>5, <1>8, HeadTailProperties
  <2>2. \A k \in 1..Len(hist') : hist'[k] = h[k + 1] /\ k + 1 \in 1..Len(h)
    BY <1>4, <2>1
  <2>3. HistPlaced'
    BY <1>1, <1>6, <2>2 DEF HistPlaced
  <2>4. HistOrdered'
    BY <1>4, <1>7, <2>1, <2>2 DEF HistOrdered
  <2>5. QED
    BY <2>3, <2>4
<1>9. CASE ~(Len(h) > Capacity)
  BY <1>1, <1>5, <1>6, <1>7, <1>9 DEF HistPlaced, HistOrdered
<1>10. QED
  BY <1>8, <1>9

(* Back at a place of this movie, what is left of it, and of the states     *)
(* kept, is what was there then.                                            *)
LEMMA RewindFollows ==
  ASSUME IInv, Follows, machine # Closed, pc = "rewind", pc' = "core",
         DoRewind
  PROVE  Follows'
<1>1. CASE hist = <<>>
  <2>1. UNCHANGED <<machine, PortData, mode, file, pos, hist, disturbed>>
    BY <1>1 DEF DoRewind, movie
  <2>2. OpenMovie' /\ HistTracked'
    BY <2>1, OpenKept, HistForgotten DEF Follows
  <2>3. QED
    BY <2>1, <2>2 DEF Follows, MachineTracked, OpenMachine, Tracked
<1>2. CASE hist # <<>>
  <2> DEFINE s == Last(hist)
  <2>1. /\ hist \in Seq(Snap) /\ Len(hist) \in Nat /\ Len(hist) > 0
        /\ s \in Snap /\ s = hist[Len(hist)]
    BY <1>2 DEF IInv, HistOK, Last
  <2>2. /\ s.machine \in Machines /\ s.fpos \in 1..MaxLen \cup {NoMovie}
        /\ s.own \in BOOLEAN
    BY <2>1 DEF Snap
  <2>3. /\ (s.fpos # NoMovie) = stream
        /\ machine' = s.machine /\ PortData' = s.input /\ MovieSeek(s.fpos)
        /\ hist' = IF Len(hist) > 1 THEN Front(hist) ELSE hist
        /\ Disturbs({"machine"}, stream /\ ~s.own)
    BY <1>2 DEF DoRewind
  <2> HIDE DEF s
  <2>4. mode' = mode /\ (stream <=> mode # "stopped")
    BY <2>3 DEF MovieSeek, IInv, StreamMatchesMode
  <2>5. file \in Seq(Entries) /\ Len(file) \in Nat /\ pos \in Nat
    BY DEF IInv, FileOK, Movie
  <2>6. OpenMachine'
    BY <2>2, <2>3 DEF OpenMachine
  <2>7. \/ file' = file
        \/ file' = Truncated(s.fpos) /\ stream /\ mode = "recording"
    BY <2>3 DEF MovieSeek
  <2>8. ASSUME file' = Truncated(s.fpos), stream
        PROVE  /\ s.fpos \in 1..MaxLen /\ Len(file') = s.fpos
               /\ \A k \in 1 .. s.fpos :
                    file'[k] = IF k <= Len(file) THEN file[k]
                               ELSE Polled(NoInput)
    <3>1. s.fpos \in 1..MaxLen
      BY <2>2, <2>3, <2>8
    <3>2. QED
      BY <2>8, <3>1 DEF Truncated
  <2>9. OpenMovie'
    <3>1. CASE file' = file
      BY <2>4, <3>1, OpenKept DEF Follows
    <3>2. CASE file' = Truncated(s.fpos) /\ stream /\ mode = "recording"
      <4>1. s.fpos \in Nat
        BY <2>8, <3>2
      <4>2. QED
        BY <2>5, <3>2, <4>1, CutOpen DEF Follows
    <3>3. QED
      BY <2>7, <3>1, <3>2
  <2>10. ASSUME Tracked'
         PROVE  MachineTracked' /\ HistTracked'
    <3>1. Tracked /\ stream /\ Ours(s)
      <4>1. mode # "stopped" /\ disturbed = {} /\ stream /\ s.own
        BY <2>2, <2>3, <2>4, <2>10 DEF Tracked, Disturbs
      <4>2. s.fpos # NoMovie
        BY <2>3, <4>1
      <4>3. QED
        BY <4>1, <4>2 DEF Tracked, Ours
    <3>2. pos <= Len(file) /\ HistPlaced /\ HistOrdered
      BY <3>1 DEF Follows, MachineTracked, HistTracked
    <3>3. /\ s.fpos \in 1..pos
          /\ Replayed(file, s.fpos) = Stepped(s.machine, s.input)
      <4>1. Len(hist) \in 1..Len(hist)
        BY <2>1
      <4>2. /\ s.fpos <= pos
            /\ Replayed(file, s.fpos) = Stepped(s.machine, s.input)
        BY <2>1, <3>1, <3>2, <4>1 DEF HistPlaced
      <4>3. QED
        BY <2>2, <2>5, <3>1, <4>2 DEF Ours
    <3>4. pos' = s.fpos
      BY <2>3, <3>1 DEF MovieSeek
    <3>5. Len(file') >= s.fpos /\ \A k \in 1 .. s.fpos : file'[k] = file[k]
      BY <2>5, <2>7, <2>8, <3>2, <3>3
    <3>6. ASSUME NEW n \in 1 .. s.fpos
          PROVE  Replayed(file', n) = Replayed(file, n)
      <4>1. n \in Nat \ {0} /\ \A k \in 1..n : file'[k] = file[k]
        BY <2>5, <3>3, <3>5
      <4>2. QED
        BY ONLY <4>1, SameBeginning, SMTT(30)
    <3>7. Replayed(file', s.fpos) = Stepped(s.machine, s.input)
      BY <2>5, <3>3, <3>6
    <3>8. MachineTracked'
      BY <2>3, <2>5, <3>3, <3>4, <3>5, <3>7 DEF MachineTracked
    <3>9. /\ Len(hist') \in 1..Len(hist)
          /\ \A k \in 1..Len(hist') : hist'[k] = hist[k]
      <4>1. CASE Len(hist) > 1
        BY <2>1, <2>3, <4>1 DEF Front
      <4>2. CASE ~(Len(hist) > 1)
        BY <2>1, <2>3, <4>2
      <4>3. QED
        BY <4>1, <4>2
    <3>10. ASSUME NEW k \in 1..Len(hist'), Ours(hist[k])
           PROVE  /\ hist[k].fpos <= s.fpos
                  /\ Replayed(file', hist[k].fpos)
                       = Stepped(hist[k].machine, hist[k].input)
      <4>1. k \in 1..Len(hist) /\ Len(hist) \in 1..Len(hist)
        BY <2>1, <3>9
      <4>2. hist[k].fpos \in Nat \ {0}
        <5>1. hist[k] \in Snap
          BY <2>1, <4>1
        <5>2. QED
          BY <3>10, <5>1 DEF Snap, Ours
      <4>3. hist[k].fpos <= s.fpos
        <5>1. CASE k = Len(hist)
          BY <2>1, <3>3, <5>1
        <5>2. CASE k < Len(hist)
          BY <2>1, <3>1, <3>2, <3>10, <4>1, <5>2 DEF HistOrdered
        <5>3. QED
          BY <2>1, <4>1, <5>1, <5>2
      <4>4. Replayed(file', hist[k].fpos) = Replayed(file, hist[k].fpos)
        BY <2>5, <3>3, <3>6, <4>2, <4>3
      <4>5. QED
        BY <3>2, <3>10, <4>1, <4>3, <4>4 DEF HistPlaced
    <3>11. HistPlaced'
      BY <3>4, <3>9, <3>10 DEF HistPlaced
    <3>12. HistOrdered'
      <4>1. ASSUME NEW k \in 1..Len(hist'), NEW m \in 1..Len(hist'), k < m,
                   Ours(hist'[k]), Ours(hist'[m])
            PROVE  hist'[k].fpos <= hist'[m].fpos
        <5>1. /\ k \in 1..Len(hist) /\ m \in 1..Len(hist)
              /\ hist'[k] = hist[k] /\ hist'[m] = hist[m]
          BY <2>1, <3>9
        <5>2. Ours(hist[k]) /\ Ours(hist[m])
          BY <4>1, <5>1
        <5>3. hist[k].fpos <= hist[m].fpos
          BY <3>2, <4>1, <5>1, <5>2 DEF HistOrdered
        <5>4. QED
          BY <5>1, <5>3
      <4>2. QED
        BY <4>1 DEF HistOrdered
    <3>13. QED
      BY <3>8, <3>11, <3>12 DEF HistTracked
  <2>11. MachineTracked' /\ HistTracked'
    BY <2>10 DEF MachineTracked, HistTracked
  <2>12. QED
    BY <2>6, <2>9, <2>11 DEF Follows
<1>3. QED
  BY <1>1, <1>2

LEMMA SRWFrameFollows == IInv /\ Follows /\ SRWFrame => Follows'
<1> SUFFICES ASSUME IInv, Follows, SRWFrame PROVE Follows'
  OBVIOUS
<1>0. machine # Closed /\ pc = "rewind" /\ pc' = "core"
  BY DEF SRWFrame, IInv, FrameOK
<1>1. CASE NoRewinder \/ RecordErrs
  <2>1. /\ UNCHANGED <<machine, PortData, mode, file, pos, disturbed>>
        /\ hist' = <<>> \/ hist' = hist
    BY <1>1 DEF NoRewinder, RecordErrs, movie, rewinder
  <2>2. OpenMovie' /\ HistTracked'
    BY <2>1, OpenKept, HistForgotten DEF Follows
  <2>3. QED
    BY <1>0, <2>1, <2>2 DEF Follows, MachineTracked, OpenMachine, Tracked
<1>2. CASE DoRecord
  <2>1. UNCHANGED <<machine, PortData, mode, file, pos, disturbed>>
    BY <1>2 DEF DoRecord, movie
  <2>2. OpenMovie' /\ HistTracked'
    BY <1>0, <1>2, <2>1, OpenKept, RecordFollows DEF Follows
  <2>3. QED
    BY <1>0, <2>1, <2>2 DEF Follows, MachineTracked, OpenMachine, Tracked
<1>3. CASE DoRewind
  BY <1>0, <1>3, RewindFollows
<1>4. CASE RewindErrs
  <2>1. mode' = mode /\ machine' # Closed
    BY <1>4 DEF RewindErrs, LoadedInPart, MovieSeek, movie
  <2>2. mode' = "stopped" \/ disturbed' # {}
    BY <1>4, <2>1 DEF RewindErrs, Disturbs, IInv, FileOK, StreamMatchesMode
  <2>3. OpenMovie'
    <3>1. CASE file' = file
      BY <2>1, <3>1, OpenKept DEF Follows
    <3>2. ASSUME NEW n \in Nat, mode = "recording", file' = Truncated(n)
          PROVE  OpenMovie'
      BY <3>2, CutOpen DEF Follows, IInv, FileOK, Movie
    <3>3. /\ pos \in Nat
          /\ Last(hist).fpos \in 1..MaxLen \cup {NoMovie}
      <4>1. Last(hist) \in Snap
        BY <1>4 DEF RewindErrs, IInv, HistOK, Last
      <4>2. QED
        BY <4>1 DEF Snap, IInv, FileOK
    <3>4. \/ file' = file
          \/ mode = "recording" /\ file' = Truncated(pos)
          \/ /\ mode = "recording" /\ file' = Truncated(Last(hist).fpos)
             /\ (Last(hist).fpos # NoMovie) = stream
      <4>1. ASSUME NEW n, MovieSeek(n)
            PROVE  file' = file \/ (mode = "recording" /\ file' = Truncated(n))
        BY <4>1 DEF MovieSeek
      <4>2. UNCHANGED movie => file' = file
        BY DEF movie
      <4>3. \/ MovieSeek(pos) \/ UNCHANGED movie \/ file' = file
            \/ /\ MovieSeek(Last(hist).fpos)
               /\ (Last(hist).fpos # NoMovie) = stream
        BY <1>4, Zenon DEF RewindErrs
      <4>4. QED
        BY <4>1, <4>2, <4>3, Zenon
    <3>5. mode = "recording" /\ (Last(hist).fpos # NoMovie) = stream
          => Last(hist).fpos \in Nat
      <4>1. mode = "recording" => stream
        BY DEF IInv, StreamMatchesMode
      <4>2. Last(hist).fpos # NoMovie => Last(hist).fpos \in Nat
        BY <3>3
      <4>3. QED
        BY <4>1, <4>2, Zenon
    <3>6. QED
      BY <3>1, <3>2, <3>3, <3>4, <3>5
  <2>4. QED
    BY <1>0, <2>1, <2>2, <2>3, NotTracked DEF Follows, OpenMachine
<1>5. QED
  BY <1>1, <1>2, <1>3, <1>4 DEF SRWFrame
-----------------------------------------------------------------------------
(* Between two frames the machine is where the movie, replayed up to its    *)
(* position, leads to, whatever was recorded, played, reset, loaded or      *)
(* rewound, as long as nothing moved the machine past the movie: a state    *)
(* loaded while it is played, one of an earlier movie rewound to, a load or *)
(* a rewind that failed, or what such a rewind left in its file.            *)
THEOREM MovieFollowed == Spec => []MovieReplays
<1>1. Init => Follows
  BY DEF Init, Follows, OpenMovie, OpenMachine, MachineTracked, HistTracked,
         Tracked
<1>2. IInv /\ Follows /\ [Next]_vars => Follows'
  <2> SUFFICES ASSUME IInv, Follows, [Next]_vars PROVE Follows'
    OBVIOUS
  <2>1. CASE Next
    BY <2>1, SaveMovieFollows, LoadMovieFollows, CloseGameFollows,
       CommandsFollow, ProcessInputFollows, SRWFrameFollows, FrameFollows
    DEF Next
  <2>2. CASE UNCHANGED vars
    BY <2>2 DEF vars, frame, movie, rewinder, Follows, OpenMovie, OpenMachine,
                MachineTracked, HistTracked, HistPlaced, HistOrdered, Tracked,
                EndsAt
  <2>3. QED
    BY <2>1, <2>2
<1>3. Follows => MovieReplays
  BY DEF Follows, MachineTracked, Tracked, MovieReplays
<1>4. QED
  BY <1>1, <1>2, <1>3, Invariance, PTL DEF Spec
=============================================================================
