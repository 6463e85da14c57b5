---------------------------- MODULE MovieSession ----------------------------
(***************************************************************************)
(* movie.cpp with what touches a movie in the emulation loop               *)
(* (mednafen.cpp), in state rewinding and in save states.  A movie is a    *)
(* save state followed by the input of every poll, and by the commands     *)
(* and loaded states in between.  Everything runs on the game thread: what *)
(* the user asks for happens between two frames.  The rewinder is the list *)
(* of states that RewindHistory promises.                                  *)
(***************************************************************************)
EXTENDS Integers, Sequences, SequencesExt

CONSTANTS Machines, Inputs, Step, Commanded,
          NoInput,   \* port data of zeros
          Closed,    \* a machine after the emulation module's CloseGame()
          Fails,     \* streams, saving and loading may fail
          SaveStates,\* what the user may load
          MaxLen,    \* bound: entries in a movie
          Capacity   \* bound: states kept for rewinding

ASSUME MovieAssumption ==
  /\ Step \in [Machines \X Inputs -> Machines]
  /\ Commanded \in [Machines -> Machines]
  /\ Closed \notin Machines /\ NoInput \in Inputs
  /\ Fails \in BOOLEAN
  /\ SaveStates \subseteq [machine : Machines, input : Inputs]
  /\ MaxLen \in Nat \ {0} /\ Capacity \in Nat \ {0}

VARIABLES
  pc,           \* where in MDFNI_Emulate(); "idle" between frames
  machine, PortData, NeedRewind,
  mode,         \* ActiveMovieMode
  stream,       \* ActiveMovieStream # NULL
  file, pos,    \* the movie file, and the stream's position in it
  active, hist, \* the rewinder and its states
  disturbed     \* history: what happened to the movie there is: the "machine"
                \* left it, or the "file" was not cut; {} without a movie
movie == <<mode, stream, file, pos>>
rewinder == <<active, hist>>
frame == <<pc, NeedRewind>>
vars == <<frame, machine, PortData, movie, rewinder, disturbed>>

State(g, i) == [type |-> "LOADSTATE", machine |-> g, input |-> i]
Polled(i) == [type |-> "input", input |-> i]
Cmd == [type |-> "command"]
(* What is left of entries that others were written over, or of the entry   *)
(* that was being written over them: played, it may be anything.            *)
Rest == [type |-> "rest"]
NoMovie == -1      \* no "MEDNAFEN_MOVIE" section in a snapshot
Snapshot == [machine |-> machine, input |-> PortData, own |-> TRUE,
             fpos |-> IF stream THEN pos ELSE NoMovie]
(* Loading what was saved of a closed machine gives any machine.            *)
Loaded(e) == IF e.machine = Closed THEN Machines ELSE {e.machine}
(* An error on the way leaves what was loaded until then.                   *)
LoadedInPart(e) == machine' \in Machines /\ PortData' \in {PortData, e.input}

Disturbs(what, cond) ==
  disturbed' = IF cond THEN disturbed \cup what ELSE disturbed

(* The emulation module's work between two polls.                           *)
Stepped(g, i) == Step[<<g, i>>]

Init ==
  /\ pc = "idle" /\ NeedRewind = FALSE
  /\ machine \in Machines /\ PortData = NoInput
  /\ mode = "stopped" /\ stream = FALSE /\ file = <<>> /\ pos = 0
  /\ active = FALSE /\ hist = <<>> /\ disturbed = {}
-----------------------------------------------------------------------------
(* A movie starts or ends: no snapshot is of the movie there is now.        *)
MovieChanges ==
  /\ hist' = [k \in DOMAIN hist |-> [hist[k] EXCEPT !.own = FALSE]]
  /\ disturbed' = {}

(* Mutation: the mode is left as it was.                                    *)
HandleMovieError_KeepMode ==
  /\ stream' = FALSE /\ mode' = mode /\ pos' = 0 /\ MovieChanges
HandleMovieError ==
  /\ stream' = FALSE /\ mode' = "stopped" /\ pos' = 0 /\ MovieChanges

(* A file cut beyond its end grows; zeros are inputs of zeros.              *)
Truncated(n) == [k \in 1..n |-> IF k <= Len(file) THEN file[k]
                                ELSE Polled(NoInput)]
(* An entry goes where the position is, over what is there.                 *)
Room == Len(file) < MaxLen /\ pos < MaxLen
Wrote(e) ==
  /\ Room
  /\ \/ file' = Append(Truncated(pos), e)
     \/ pos < Len(file) /\ file' = Append(Append(Truncated(pos), e), Rest)
WroteInPart ==
  \/ UNCHANGED file
  \/ pos < Len(file) /\ file' = Append(Truncated(pos), Rest)
Put(e) == Wrote(e) /\ pos' = pos + 1
(* One more entry, while a movie is recorded; an error ends the movie.      *)
Written(e) ==
  \/ Put(e) /\ UNCHANGED <<mode, stream, hist, disturbed>>
  \/ Fails /\ HandleMovieError /\ WroteInPart
(* The last one, a state; then the file is closed.                          *)
WrittenLast(e) == Wrote(e) \/ (Fails /\ WroteInPart)
AddCommand(e) == IF mode = "recording" THEN Written(e)
                 ELSE UNCHANGED <<movie, hist, disturbed>>

(* MDFNMOV_Stop(), when the machine to save is g.                           *)
Stop(g) ==
  /\ mode' = "stopped" /\ stream' = FALSE /\ pos' = 0 /\ MovieChanges
  /\ IF mode = "recording" THEN WrittenLast(State(g, PortData))
     ELSE UNCHANGED file

SaveMovie ==
  /\ pc = "idle" /\ machine # Closed
  /\ CASE mode = "playing" -> HandleMovieError /\ UNCHANGED file
       [] mode = "recording" -> Stop(machine)
       [] OTHER ->
            \/ /\ mode' = "recording" /\ stream' = TRUE
               /\ file' = <<State(machine, PortData)>> /\ pos' = 1
               /\ MovieChanges
            \/ /\ Fails /\ file' \in {file, <<>>}
               /\ HandleMovieError
  /\ UNCHANGED <<frame, machine, PortData, active>>

(* An empty file stands for a movie whose first state is missing or was not *)
(* written whole, too.                                                      *)
LoadMovie ==
  /\ pc = "idle" /\ machine # Closed
  /\ CASE mode = "recording" ->
            HandleMovieError /\ UNCHANGED <<machine, PortData>>
       [] mode = "playing" ->
            Stop(machine) /\ UNCHANGED <<machine, PortData>>
       [] OTHER ->
            \/ /\ file # <<>>
               /\ mode' = "playing" /\ stream' = TRUE /\ pos' = 1
               /\ machine' \in Loaded(file[1]) /\ PortData' = file[1].input
               /\ MovieChanges
            \/ /\ file = <<>> \/ Fails
               /\ \/ UNCHANGED <<machine, PortData>>
                  \/ Fails /\ IF file # <<>> THEN LoadedInPart(file[1])
                              ELSE machine' \in Machines /\ PortData' \in Inputs
               /\ HandleMovieError
  /\ UNCHANGED <<frame, file, active>>
-----------------------------------------------------------------------------
(* MDFNI_Emulate(), with the input of this frame and the rewind button.     *)
Emulate(i, rewind) ==
  /\ pc = "idle" /\ machine # Closed /\ (mode = "recording" => Room)
  /\ pc' = "input" /\ PortData' = i /\ NeedRewind' = rewind
  /\ UNCHANGED <<machine, movie, rewinder, disturbed>>

InputDone == pc' = IF pc = "input" THEN "rewind" ELSE "rest"
InProcessInput == pc \in {"input", "midsync"}

InputStopped ==
  /\ InProcessInput /\ mode = "stopped" /\ InputDone
  /\ UNCHANGED <<NeedRewind, machine, PortData, movie, rewinder, disturbed>>
RecordInput ==
  /\ InProcessInput /\ mode = "recording" /\ InputDone
  /\ Written(Polled(PortData))
  /\ UNCHANGED <<NeedRewind, machine, PortData, active>>
PlayCommand ==
  /\ InProcessInput /\ mode = "playing" /\ pos < Len(file)
  /\ LET e == file[pos + 1]
     IN  \/ /\ e.type = "LOADSTATE"
            /\ machine' \in Loaded(e) /\ PortData' = e.input
         \/ /\ e.type = "command"
            /\ machine' = Commanded[machine] /\ UNCHANGED PortData
  /\ pos' = pos + 1
  /\ UNCHANGED <<frame, mode, stream, file, rewinder, disturbed>>
PlayInput ==
  /\ InProcessInput /\ mode = "playing" /\ pos < Len(file)
  /\ file[pos + 1].type = "input" /\ PortData' = file[pos + 1].input
  /\ pos' = pos + 1 /\ InputDone
  /\ UNCHANGED <<NeedRewind, machine, mode, stream, file, rewinder, disturbed>>
(* Commands, states and an input, of any number, may be what the rest says. *)
PlayRest ==
  /\ InProcessInput /\ mode = "playing" /\ pos < Len(file)
  /\ file[pos + 1] = Rest
  /\ machine' \in Machines /\ PortData' \in Inputs
  /\ \/ pos' \in {pos, pos + 1} /\ InputDone
     \/ pos' = pos + 1 /\ UNCHANGED pc
  /\ Disturbs({"machine"}, TRUE)
  /\ UNCHANGED <<NeedRewind, mode, stream, file, rewinder>>
PlayEnds ==
  /\ InProcessInput /\ mode = "playing"
  /\ pos < Len(file) => file[pos + 1] = Rest
  /\ Stop(machine) /\ InputDone
  /\ UNCHANGED <<NeedRewind, machine, PortData, active>>
PlayFails ==
  /\ Fails /\ InProcessInput /\ mode = "playing"
  /\ HandleMovieError /\ InputDone
  /\ \/ UNCHANGED <<machine, PortData>>
     \/ /\ pos < Len(file) /\ file[pos + 1].type = "LOADSTATE"
        /\ LoadedInPart(file[pos + 1])
  /\ UNCHANGED <<NeedRewind, file, active>>
ProcessInput == InputStopped \/ RecordInput \/ PlayCommand \/ PlayInput
                \/ PlayRest \/ PlayEnds \/ PlayFails
-----------------------------------------------------------------------------
(* MDFNSRW_Frame().                                                         *)
NoRewinder ==
  /\ ~active
  /\ UNCHANGED <<machine, PortData, movie, rewinder, disturbed>>
DoRecord ==
  /\ active /\ ~NeedRewind
  /\ hist' = LET h == Append(hist, Snapshot)
             IN  IF Len(h) > Capacity THEN Tail(h) ELSE h
  /\ UNCHANGED <<machine, PortData, movie, active, disturbed>>

(* MDFNMOV_StateAction(), load.                                             *)
(* Mutation: the file is not cut.                                           *)
MovieSeek_Uncut(fpos) ==
  /\ UNCHANGED <<mode, stream>>
  /\ pos' = (IF stream THEN fpos ELSE pos) /\ UNCHANGED file
MovieSeek(fpos) ==
  /\ UNCHANGED <<mode, stream>>
  /\ IF ~stream THEN UNCHANGED <<file, pos>>
     ELSE /\ pos' = fpos
          /\ file' = IF mode = "recording" THEN Truncated(fpos) ELSE file
DoRewind ==
  /\ active /\ NeedRewind
  /\ IF hist = <<>>
     THEN UNCHANGED <<machine, PortData, movie, hist, disturbed>>
     ELSE LET s == Last(hist) IN
          /\ (s.fpos # NoMovie) = stream
          /\ machine' = s.machine /\ PortData' = s.input
          /\ MovieSeek(s.fpos)
          /\ hist' = IF Len(hist) > 1 THEN Front(hist) ELSE hist
          /\ Disturbs({"machine"}, stream /\ ~s.own)
  /\ UNCHANGED active
(* The movie's section is missing, and the movie is cut where it is, or it  *)
(* is in the way; or something fails: before the movie is reached, at its   *)
(* seek, between the seek and the cut, or behind them.  The rewinder gives  *)
(* up, and the movie, which does not hear of it, goes on.                   *)
RewindErrs ==
  /\ active /\ NeedRewind /\ hist # <<>>
  /\ LET s == Last(hist)
         matches == (s.fpos # NoMovie) = stream
     IN  /\ LoadedInPart(s)
         /\ \/ ~matches /\ MovieSeek(pos) /\ Disturbs({"machine"}, stream)
            \/ Fails /\ UNCHANGED movie /\ Disturbs({"machine"}, stream)
            \/ /\ Fails /\ matches /\ MovieSeek(s.fpos)
               /\ Disturbs({"machine"}, stream)
            \/ /\ Fails /\ matches /\ mode = "recording"
               /\ pos' = s.fpos /\ UNCHANGED <<mode, stream, file>>
               /\ Disturbs({"machine", "file"}, TRUE)
  /\ active' = FALSE /\ hist' = <<>>
RecordErrs ==
  /\ Fails /\ active /\ ~NeedRewind
  /\ active' = FALSE /\ hist' = <<>>
  /\ UNCHANGED <<machine, PortData, movie, disturbed>>
SRWFrame ==
  /\ pc = "rewind" /\ pc' = "core" /\ NeedRewind' = FALSE
  /\ NoRewinder \/ DoRecord \/ DoRewind \/ RewindErrs \/ RecordErrs

(* The emulation module; it may poll the input a second time.               *)
MidSync(i) ==
  /\ pc = "core" /\ pc' = "midsync" /\ (mode = "recording" => Room)
  /\ machine' = Stepped(machine, PortData) /\ PortData' = i
  /\ UNCHANGED <<NeedRewind, movie, rewinder, disturbed>>
FrameDone ==
  /\ pc \in {"core", "rest"} /\ pc' = "idle"
  /\ machine' = Stepped(machine, PortData)
  /\ UNCHANGED <<NeedRewind, PortData, movie, rewinder, disturbed>>
-----------------------------------------------------------------------------
(* Mutation: also while a movie is played.                                  *)
QSimpleCommand_Playing ==
  /\ pc = "idle" /\ machine # Closed
  /\ machine' = Commanded[machine] /\ AddCommand(Cmd)
  /\ UNCHANGED <<frame, PortData, active>>
(* A reset, a coin, a medium: not while a movie is played.                  *)
QSimpleCommand ==
  /\ pc = "idle" /\ machine # Closed /\ mode # "playing"
  /\ machine' = Commanded[machine] /\ AddCommand(Cmd)
  /\ UNCHANGED <<frame, PortData, active>>
LoadState(s) ==
  /\ pc = "idle" /\ machine # Closed
  /\ machine' = s.machine /\ PortData' = s.input
  /\ IF mode = "playing"
     THEN Disturbs({"machine"}, TRUE) /\ UNCHANGED <<movie, hist>>
     ELSE AddCommand(State(s.machine, s.input))
  /\ UNCHANGED <<frame, active>>
LoadStateFails(s) ==
  /\ Fails /\ pc = "idle" /\ machine # Closed
  /\ LoadedInPart(s)
  /\ Disturbs({"machine"}, mode # "stopped")
  /\ UNCHANGED <<frame, movie, rewinder>>
EnableStateRewind(enable) ==
  /\ pc = "idle" /\ machine # Closed
  /\ active' = enable /\ hist' = IF enable THEN hist ELSE <<>>
  /\ UNCHANGED <<frame, machine, PortData, movie, disturbed>>
(* MDFNI_CloseGame(): the module first, then the movie.                     *)
CloseGame ==
  /\ pc = "idle" /\ machine # Closed
  /\ machine' = Closed /\ PortData' = NoInput
  /\ active' = FALSE /\ hist' = <<>>
  /\ disturbed' = {}
  /\ IF mode = "stopped" THEN UNCHANGED movie
     ELSE /\ mode' = "stopped" /\ stream' = FALSE /\ pos' = 0
          /\ IF mode = "recording"
             THEN WrittenLast(State(Closed, PortData)) ELSE UNCHANGED file
  /\ UNCHANGED frame
LoadGame ==
  /\ machine = Closed /\ machine' \in Machines
  /\ UNCHANGED <<frame, PortData, movie, rewinder, disturbed>>

Next ==
  \/ SaveMovie \/ LoadMovie \/ CloseGame \/ LoadGame
  \/ QSimpleCommand
  \/ \E s \in SaveStates : LoadState(s) \/ LoadStateFails(s)
  \/ \E b \in BOOLEAN : EnableStateRewind(b)
  \/ \E i \in Inputs, b \in BOOLEAN : Emulate(i, b)
  \/ ProcessInput \/ SRWFrame
  \/ \E i \in Inputs : MidSync(i)
  \/ FrameDone
Spec == Init /\ [][Next]_vars
-----------------------------------------------------------------------------
Entries == [type : {"LOADSTATE"}, machine : Machines \cup {Closed},
            input : Inputs]
           \cup [type : {"input"}, input : Inputs] \cup {Cmd, Rest}
TypeOK ==
  /\ pc \in {"idle", "input", "rewind", "core", "midsync", "rest"}
  /\ machine \in Machines \cup {Closed} /\ PortData \in Inputs
  /\ NeedRewind \in BOOLEAN /\ active \in BOOLEAN
  /\ disturbed \subseteq {"machine", "file"}
  /\ mode \in {"stopped", "playing", "recording"} /\ stream \in BOOLEAN
  /\ file \in Seq(Entries) /\ pos \in 0..MaxLen
  /\ hist \in Seq([machine : Machines, input : Inputs, own : BOOLEAN,
                   fpos : 0..MaxLen \cup {NoMovie}])
  /\ Len(hist) <= Capacity

(* There is a stream exactly while a movie is recorded or played, whatever  *)
(* failed; a recording writes at the end of its file, unless a rewind has   *)
(* failed since it started, after going back and before cutting the file.   *)
StreamMatchesMode ==
  /\ stream <=> mode # "stopped"
  /\ mode = "recording" /\ "file" \notin disturbed => pos = Len(file)

(* What a movie says, up to an entry: each poll is followed by a stretch of *)
(* emulation.                                                               *)
Played(g, e) ==
  CASE e.type = "LOADSTATE" -> e.machine
    [] e.type = "command" -> Commanded[g]
    [] OTHER -> Stepped(g, e.input)
Replayed(f, n) ==
  LET at[k \in 1..n] == IF k = 1 THEN f[1].machine ELSE Played(at[k - 1], f[k])
  IN  at[n]

(* Between two frames the machine is in the state that the movie, replayed  *)
(* up to its position, leads to: with resets, loaded states, a second poll  *)
(* within a frame, rewinding within the movie, and failures other than of   *)
(* loading a state or rewinding.                                            *)
MovieReplays ==
  pc = "idle" /\ mode # "stopped" /\ disturbed = {}
  => Replayed(file, pos) = machine
=============================================================================
