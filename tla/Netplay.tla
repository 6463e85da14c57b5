------------------------------ MODULE Netplay ------------------------------
(***************************************************************************)
(* netplay.cpp, with what it meets in the emulation loop (mednafen.cpp):   *)
(* movies, rewinding, save states, commands and cheats.  One client and    *)
(* any server; the server relays inputs, commands and states to all        *)
(* players alike, and the connection may fail whenever it is used.  It all *)
(* runs on the game thread.  A movie is reduced to the machine it leads    *)
(* to, as far as it is written and at each state kept for rewinding        *)
(* (MovieSession has movies in full).                                      *)
(***************************************************************************)
EXTENDS Cheats, Integers, Sequences, SequencesExt

CONSTANTS Machines, Inputs, Step, Commanded,
          Capacity   \* bound: states kept for rewinding; 0: it is off
ASSUME NetplayAssumption ==
  /\ Step \in [Machines \X Inputs -> Machines]
  /\ Commanded \in [Machines -> Machines]
  /\ Capacity \in Nat

VARIABLES
  pc,            \* where in MDFNI_Emulate(); "idle" between frames
  machine, PortData,
  Connection,    \* "none", "connecting" or "established"
  MDFNnetplay, Joined,
  mode,          \* ActiveMovieMode
  film,          \* the machine that replaying the movie being recorded,
                 \* as far as it is written, leads to
  missed,        \* history: what changed the machine behind the movie's back
                 \* since it last recorded a state: a "command", or something
                 \* "other", a failed load or a medium changed late; or
                 \* "rewind", for good: cut in the wrong place, or not at all
  hist,          \* the rewinder's states
  peer, heard,   \* history: another player's machine, and the input it has;
                 \* as here until that of the server has come
  synced         \* history: all players have started from one state
net == <<Connection, MDFNnetplay, Joined>>
movie == <<mode, film, missed>>
others == <<peer, heard, synced>>
vars == <<pc, machine, PortData, net, movie, hist, others, cheatVars>>

Init ==
  /\ pc = "idle" /\ machine \in Machines /\ PortData \in Inputs
  /\ Connection = "none" /\ MDFNnetplay = FALSE /\ Joined = FALSE
  /\ mode = "stopped" /\ film = machine /\ missed = {} /\ hist = <<>>
  /\ peer = machine /\ heard = PortData /\ synced = FALSE
  /\ CheatsInit
-----------------------------------------------------------------------------
(* The emulation module, given its input.                                   *)
Stepped(g, i) == Step[<<g, i>>]

(* The movie: nothing to compare with when none is recorded.                *)
NoFilm == film' = machine' /\ missed' = {}
Record(next) ==   \* an entry that leads the replay to next, or an error
  \/ mode = "recording" /\ film' = next /\ UNCHANGED <<mode, missed>>
  \/ mode = "recording" /\ mode' = "stopped" /\ NoFilm
  \/ mode # "recording" /\ UNCHANGED mode /\ NoFilm
(* MDFNMOV_RecordState(), if recording; movies lose what came between.      *)
RecordState ==
  \/ /\ mode = "recording" /\ UNCHANGED mode
     /\ film' = machine' /\ missed' = missed \cap {"rewind"}
  \/ mode = "recording" /\ mode' = "stopped" /\ NoFilm
  \/ mode # "recording" /\ UNCHANGED mode /\ NoFilm
Missing(what) ==
  IF "rewind" \in missed THEN missed ELSE missed \cup {what}
Misses(what) ==
  IF mode = "recording" THEN missed' = Missing(what) /\ UNCHANGED film
  ELSE NoFilm
NoMovieChange ==
  /\ UNCHANGED mode
  /\ IF mode = "recording" THEN UNCHANGED <<film, missed>> ELSE NoFilm

(* MDFNI_NetplayDisconnect(); login: NetplayStart() did not get through.    *)
(* Mutation: network play is not switched off.                              *)
NotConnected_StillOn == Connection' = "none" /\ Joined' = FALSE /\ UNCHANGED MDFNnetplay
NotConnected == Connection' = "none" /\ MDFNnetplay' = FALSE /\ Joined' = FALSE
Apart == synced' = FALSE /\ peer' = machine' /\ heard' = PortData'
Disconnect ==
  /\ NotConnected /\ Apart
  /\ IF MDFNnetplay THEN Reload(FALSE) ELSE UNCHANGED cheatVars
NoNetChange ==
  /\ UNCHANGED <<net, cheatVars>>
  /\ IF MDFNnetplay THEN UNCHANGED others ELSE Apart
-----------------------------------------------------------------------------
(* What the user does between two frames.                                   *)
Between == pc = "idle" /\ UNCHANGED <<pc, hist>>

(* MDFNI_NetplayConnect() gives up an earlier connection first.             *)
Connect ==
  /\ Between /\ UNCHANGED <<machine, PortData>> /\ NoMovieChange
  /\ Connection' \in {"connecting", "none"}
  /\ MDFNnetplay' = FALSE /\ Joined' = FALSE /\ Apart
  /\ IF MDFNnetplay THEN Reload(FALSE) ELSE UNCHANGED cheatVars
Quit ==
  /\ Between /\ UNCHANGED <<machine, PortData>> /\ NoMovieChange /\ Disconnect

(* NetplaySendCommand(), whose failure ends network play.                   *)
SendCommand == NoNetChange \/ Disconnect

(* Mutation: the command is executed at once in network play too.           *)
QSimpleCommand_AtOnce ==
  /\ Between /\ UNCHANGED PortData
  /\ machine' = Commanded[machine] /\ Record(Commanded[film]) /\ NoNetChange
QSimpleCommand ==
  /\ Between /\ UNCHANGED PortData
  /\ IF MDFNnetplay THEN UNCHANGED machine /\ SendCommand /\ NoMovieChange
     ELSE /\ mode # "playing"
          /\ machine' = Commanded[machine]
          /\ Record(Commanded[film]) /\ NoNetChange
(* MDFNI_SetMedia(): recorded when it is sent; executed here if it was not  *)
(* sent, or could not be.                                                   *)
SetMedia ==
  /\ Between /\ UNCHANGED PortData
  /\ \/ /\ MDFNnetplay /\ UNCHANGED machine /\ NoNetChange
        /\ \/ mode = "recording" /\ UNCHANGED mode
              /\ film' = Commanded[film] /\ missed' = Missing("other")
           \/ mode' = "stopped" /\ NoFilm
     \/ /\ mode # "playing" /\ machine' = Commanded[machine]
        /\ IF MDFNnetplay THEN Disconnect ELSE NoNetChange
        /\ Record(Commanded[film])

(* MDFNI_LoadState(): loaded here first, then sent; the other players have  *)
(* it only when the server sends it on.                                     *)
LoadState(g, i) ==
  /\ Between /\ machine' = g /\ PortData' = i /\ RecordState
  /\ \/ UNCHANGED <<net, cheatVars>> /\ Apart
     \/ MDFNnetplay /\ Disconnect
LoadStateFails ==
  /\ Between /\ UNCHANGED <<net, mode, cheatVars>>
  /\ machine' \in Machines /\ PortData' \in Inputs /\ Apart
  /\ Misses("other")
LoadMovie ==
  /\ Between
  /\ IF MDFNnetplay \/ mode = "recording"
     THEN UNCHANGED <<machine, PortData>> /\ mode' = "stopped"
     ELSE \/ UNCHANGED <<machine, PortData>> /\ mode' = "stopped"
          \/ /\ mode = "stopped" /\ mode' \in {"playing", "stopped"}
             /\ machine' \in Machines /\ PortData' \in Inputs
  /\ NoFilm /\ NoNetChange
(* The states kept until now know nothing of a movie that starts: they are  *)
(* no places in it.                                                         *)
SaveMovie ==
  /\ pc = "idle" /\ UNCHANGED <<pc, machine, PortData>>
  /\ \/ mode' = "stopped" /\ UNCHANGED hist
     \/ /\ mode = "stopped" /\ mode' = "recording"
        /\ hist' = [k \in DOMAIN hist |-> [hist[k] EXCEPT !.missed = {"rewind"}]]
  /\ NoFilm /\ NoNetChange
EnableStateRewind ==   \* on, which changes nothing, or off
  /\ pc = "idle" /\ hist' = <<>>
  /\ UNCHANGED <<pc, machine, PortData>> /\ NoMovieChange /\ NoNetChange

EditCheats ==
  /\ Between /\ UNCHANGED <<machine, PortData, net, movie, others>>
  /\ \E c \in AllCheats : AddCheat(c, MDFNnetplay) \/ DelCheat(c, MDFNnetplay)
-----------------------------------------------------------------------------
(* MDFNI_CloseGame(), in its order: the network, the cheats, the movie.     *)
CloseNetwork ==
  /\ pc = "idle" /\ pc' = "closing"
  /\ UNCHANGED <<machine, PortData, hist>> /\ NoMovieChange
  /\ Disconnect
CloseGame ==
  /\ pc = "closing" /\ pc' = "closed"
  /\ UNCHANGED <<machine, PortData, net, others>>
  /\ FlushGameCheats /\ mode' = "stopped" /\ NoFilm /\ hist' = <<>>
LoadGame ==
  /\ pc = "closed" /\ pc' = "idle" /\ machine' \in Machines
  /\ UNCHANGED <<PortData, net, hist>> /\ Apart
  /\ LoadGameCheats /\ NoMovieChange
-----------------------------------------------------------------------------
(* MDFNI_Emulate(), with the local input.                                   *)
Emulate(i) ==
  /\ pc = "idle" /\ pc' = "update"
  /\ PortData' = i
  /\ UNCHANGED <<machine, hist, net, cheatVars>> /\ NoMovieChange
  /\ IF MDFNnetplay THEN heard' = i /\ UNCHANGED <<peer, synced>> ELSE Apart

(* Netplay_Update().  An error ends network play and the frame goes on      *)
(* with the port data there are.                                            *)
In(from) == pc = from /\ UNCHANGED hist
NetError(from) == In(from) /\ pc' = "movie" /\ Disconnect

NoNetplay ==
  /\ In("update") /\ Connection # "established" /\ pc' = "movie"
  /\ UNCHANGED <<machine, PortData>> /\ NoMovieChange /\ NoNetChange
ConnectFails ==
  /\ Connection = "connecting"
  /\ UNCHANGED <<machine, PortData>> /\ NoMovieChange /\ NetError("update")
(* Mutation: a movie goes on being played.                                  *)
NetplayStart_Playing ==
  /\ In("update") /\ Connection = "connecting"
  /\ Connection' = "established" /\ MDFNnetplay' = TRUE /\ Joined' = FALSE
  /\ pc' = "receive" /\ UNCHANGED <<machine, PortData>> /\ Apart
  /\ FlushGameCheats /\ NoMovieChange
NetplayStart ==
  /\ In("update") /\ Connection = "connecting"
  /\ Connection' = "established" /\ MDFNnetplay' = TRUE /\ Joined' = FALSE
  /\ pc' = "receive" /\ UNCHANGED <<machine, PortData>> /\ Apart
  /\ FlushGameCheats
  /\ IF mode = "playing" THEN mode' = "stopped" /\ NoFilm ELSE NoMovieChange
(* The login cannot be sent: MDFNnetplay is set, nothing is saved yet.      *)
LoginFails ==
  /\ In("update") /\ Connection = "connecting" /\ pc' = "movie"
  /\ UNCHANGED <<machine, PortData>> /\ NoMovieChange
  /\ NotConnected /\ Apart /\ Reload(TRUE)
SendInput ==
  /\ In("update") /\ Connection = "established" /\ pc' = "receive"
  /\ UNCHANGED <<machine, PortData>> /\ NoMovieChange /\ NoNetChange
SendFails ==
  /\ Connection = "established" /\ Joined
  /\ UNCHANGED <<machine, PortData>> /\ NoMovieChange /\ NetError("update")

(* What the server sends until it sends the inputs of the frame.            *)
Received == In("receive") /\ pc' = "receive" /\ UNCHANGED cheatVars
ReceiveCommand ==     \* a simple command, or another medium
  /\ Received /\ UNCHANGED <<PortData, net, mode, heard, synced>>
  /\ machine' = Commanded[machine] /\ peer' = Commanded[peer]
  /\ Misses("command")
(* Mutation: the movie does not hear of the state.                          *)
RecvState_Unrecorded(g, i) ==
  /\ Received /\ UNCHANGED net
  /\ machine' = g /\ PortData' = i /\ NoMovieChange
  /\ peer' = g /\ heard' = i /\ synced' = TRUE
RecvState(g, i) ==
  /\ Received /\ UNCHANGED net
  /\ machine' = g /\ PortData' = i /\ RecordState
  /\ peer' = g /\ heard' = i /\ synced' = TRUE
SendState ==          \* the others load it
  /\ Received /\ UNCHANGED <<machine, PortData, net, heard>> /\ NoMovieChange
  /\ peer' = machine /\ synced' = TRUE
JoinedOrLeft ==
  /\ Received /\ UNCHANGED <<machine, PortData, Connection, MDFNnetplay, others>>
  /\ NoMovieChange /\ Joined' \in BOOLEAN
ReceiveInput(i) ==
  /\ In("receive") /\ pc' = "movie" /\ UNCHANGED <<machine, net, cheatVars>>
  /\ PortData' = i /\ heard' = i /\ UNCHANGED <<peer, synced>> /\ NoMovieChange
(* Receiving fails, or sending an answer, or a state is loaded in part.     *)
ReceiveFails ==
  /\ \/ UNCHANGED <<machine, PortData>> /\ NoMovieChange
     \/ machine' \in Machines /\ PortData' \in Inputs /\ UNCHANGED mode
        /\ Misses("other")
  /\ NetError("receive")
-----------------------------------------------------------------------------
(* MDFNMOV_ProcessInput(): a movie being played brings any input, and any   *)
(* commands and states before it.                                           *)
ProcessInput ==
  /\ pc \in {"movie", "midsync"}
  /\ pc' = (IF pc = "movie" THEN "rewind" ELSE "rest")
  /\ IF mode = "playing"
     THEN /\ machine' \in Machines /\ PortData' \in Inputs
          /\ mode' \in {"playing", "stopped"} /\ NoFilm
     ELSE UNCHANGED <<machine, PortData>> /\ Record(Stepped(film, PortData))
  /\ UNCHANGED hist /\ NoNetChange

(* MDFNSRW_Frame(), asked to rewind or not.  A snapshot has the machine,    *)
(* its port data, and the position of the movie, if there is one: here,     *)
(* where the movie leads to as far as it was written then.                  *)
Snapshot == [machine |-> machine, input |-> PortData, film |-> film,
             missed |-> missed, section |-> mode # "stopped"]
NotRewound == UNCHANGED <<machine, PortData>> /\ NoMovieChange
NoRewinder == hist = <<>> /\ UNCHANGED hist /\ NotRewound
DoRecord ==
  /\ NotRewound
  /\ hist' = LET h == Append(hist, Snapshot)
             IN  IF Len(h) > Capacity THEN Tail(h) ELSE h
RecordErrs == NotRewound /\ hist' = <<>>
(* Mutation: the recording is not cut.                                      *)
Rewound_Uncut ==
  /\ hist # <<>> /\ UNCHANGED mode
  /\ LET s == Last(hist) IN
     /\ s.section = (mode # "stopped")
     /\ machine' = s.machine /\ PortData' = s.input
     /\ IF mode = "recording" THEN UNCHANGED <<film, missed>> ELSE NoFilm
  /\ hist' = IF Len(hist) > 1 THEN Front(hist) ELSE hist
(* A recording is cut where the snapshot was taken; it lacks what it lacked *)
(* then.  The place of another movie's snapshot may be anywhere in it.      *)
Rewound ==
  /\ hist # <<>> /\ UNCHANGED mode
  /\ LET s == Last(hist) IN
     /\ s.section = (mode # "stopped")
     /\ machine' = s.machine /\ PortData' = s.input
     /\ IF mode = "recording"
        THEN /\ missed' = s.missed
             /\ film' \in IF "rewind" \in s.missed THEN Machines ELSE {s.film}
        ELSE NoFilm
  /\ hist' = IF Len(hist) > 1 THEN Front(hist) ELSE hist
(* The section of the movie is missing or in the way, or something fails:   *)
(* the machine is loaded in part, and the movie may have gone back already, *)
(* without being cut, too.                                                  *)
RewindErrs ==
  /\ hist # <<>> /\ hist' = <<>> /\ UNCHANGED mode
  /\ LET s == Last(hist) IN
     /\ machine' \in Machines /\ PortData' \in {PortData, s.input}
     /\ \/ Misses("other")
        \/ /\ mode = "recording" /\ s.section
           /\ film' \in Machines /\ missed' = {"rewind"}
Rewinding == NoRewinder \/ DoRecord \/ RecordErrs \/ Rewound \/ RewindErrs

(* Mutation: rewinding in network play.                                     *)
SRWFrame_Always ==
  /\ pc = "rewind" /\ pc' = "core"
  /\ Rewinding /\ NoNetChange
SRWFrame ==
  /\ pc = "rewind" /\ pc' = "core"
  /\ IF MDFNnetplay THEN NotRewound /\ UNCHANGED hist ELSE Rewinding
  /\ NoNetChange

(* The emulation module takes a step; so do those of the other players.     *)
Run ==
  /\ machine' = Stepped(machine, PortData)
  /\ IF MDFNnetplay THEN peer' = Stepped(peer, heard) /\ UNCHANGED synced
     ELSE Apart
  /\ UNCHANGED <<net, cheatVars, hist>> /\ NoMovieChange
(* The input is polled a second time; in network play it stays the same.    *)
(* Mutation: local input in the middle of a frame.                          *)
MidSync_Local(i) ==
  /\ pc = "core" /\ pc' = "midsync"
  /\ PortData' = i /\ (MDFNnetplay => UNCHANGED heard) /\ Run
MidSync(i) ==
  /\ pc = "core" /\ pc' = "midsync"
  /\ PortData' = (IF MDFNnetplay THEN PortData ELSE i)
  /\ (MDFNnetplay => UNCHANGED heard) /\ Run
(* Netplay_PostProcess() leaves rumble and switches, not the inputs.        *)
FrameDone(i) ==
  /\ pc \in {"core", "rest"} /\ pc' = "idle"
  /\ PortData' = (IF MDFNnetplay THEN i ELSE PortData) /\ heard' = PortData'
  /\ Run

Next ==
  \/ Connect \/ Quit \/ QSimpleCommand \/ SetMedia \/ LoadMovie \/ SaveMovie
  \/ LoadStateFails \/ EditCheats \/ EnableStateRewind \/ CloseNetwork \/ CloseGame \/ LoadGame
  \/ \E g \in Machines, i \in Inputs : LoadState(g, i) \/ RecvState(g, i)
  \/ NoNetplay \/ ConnectFails \/ NetplayStart \/ LoginFails
  \/ SendInput \/ SendFails
  \/ ReceiveCommand \/ SendState \/ JoinedOrLeft \/ ReceiveFails
  \/ \E i \in Inputs : Emulate(i) \/ ReceiveInput(i) \/ MidSync(i) \/ FrameDone(i)
  \/ ProcessInput \/ SRWFrame
Spec == Init /\ [][Next]_vars
-----------------------------------------------------------------------------
Missable == {"command", "other", "rewind"}
RewinderOK ==
  /\ hist \in Seq([machine : Machines, input : Inputs, film : Machines,
                   missed : SUBSET Missable, section : BOOLEAN])
  /\ Len(hist) <= Capacity
TypeOK ==
  /\ RewinderOK
  /\ pc \in {"idle", "closing", "closed", "update", "receive", "movie",
             "rewind", "core", "midsync", "rest"}
  /\ machine \in Machines /\ film \in Machines /\ peer \in Machines
  /\ PortData \in Inputs /\ heard \in Inputs
  /\ Connection \in {"none", "connecting", "established"}
  /\ MDFNnetplay \in BOOLEAN /\ Joined \in BOOLEAN
  /\ synced \in BOOLEAN /\ savecheats \in BOOLEAN
  /\ lost \in BOOLEAN
  /\ missed \subseteq Missable
  /\ MDFNnetplay = (Connection = "established")
  /\ mode \in {"stopped", "playing", "recording"}
  /\ cheats \subseteq AllCheats /\ file \subseteq AllCheats
  /\ mine \subseteq AllCheats

(* From the state they all start from until somebody here loads another,    *)
(* the machine goes through what every other player's goes through: the     *)
(* inputs and commands of the server, in its order, and nothing else.       *)
LockStep == synced => machine = peer

(* Once network play is over the cheats are again what they were, those of  *)
(* network play are gone, and meanwhile the file keeps them; unless the     *)
(* file failed, or the login before it was written.                         *)
CheatsKept ==
  ~lost =>
    IF MDFNnetplay \/ pc = "closed" THEN file = mine ELSE cheats = mine

(* A movie recorded so far leads to where the machine is, across states     *)
(* loaded here and received, second polls, rewinding to where it was, and   *)
(* the loss of the connection; except for what "missed" names: commands the *)
(* server sent, states that failed to load and media changed (recorded when *)
(* they are sent) since a state was recorded, or before the state rewound   *)
(* to was kept; and rewinds that failed or went to a state from before the  *)
(* movie.                                                                   *)
Following == pc = "idle" /\ mode = "recording"
RecordingFollows == Following /\ missed = {} => film = machine

(* The comment at netplay.cpp:327: "Recording's ok during netplay", also    *)
(* when the server sends commands.                                          *)
RecordedInNetplay == Following /\ missed \subseteq {"command"} => film = machine
=============================================================================
