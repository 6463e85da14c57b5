--------------------------- MODULE Netplay_proofs ---------------------------
(***************************************************************************)
(* Network play for every machine, every input and every set of cheats:    *)
(* the players stay in step, the cheats survive, a recording follows.      *)
(***************************************************************************)
EXTENDS Netplay, SequenceTheorems, TLAPS

(* What is received is received in network play; once the inputs of a frame *)
(* have arrived they are used as they are.                                  *)
InFrame == pc \in {"movie", "rewind", "core", "midsync", "rest"}
LockInv ==
  /\ LockStep
  /\ synced \/ pc = "receive" => MDFNnetplay
  /\ MDFNnetplay => mode # "playing"
  /\ MDFNnetplay /\ InFrame => PortData = heard

(* Outside network play the list is the user's, and so is the file unless   *)
(* there is something to save.                                              *)
CheatInv ==
  /\ pc \in {"closing", "closed"} => ~MDFNnetplay
  /\ ~lost =>
       IF MDFNnetplay \/ pc = "closed" THEN file = mine
       ELSE cheats = mine /\ (~savecheats => file = mine)

(* The movie is ahead of the machine from the poll of the input until the   *)
(* emulation module has run.                                                *)
Polled == pc \in {"rewind", "core", "rest"}
FilmInv ==
  /\ pc = "closed" => mode = "stopped"
  /\ mode = "recording" /\ missed = {} =>
       film = IF Polled THEN Stepped(machine, PortData) ELSE machine

(* A state kept while the movie missed nothing is where the movie, cut      *)
(* there, leads to.                                                         *)
HistInv ==
  mode = "recording" => \A k \in 1..Len(hist) : hist[k].missed = {} =>
    hist[k].film = Stepped(hist[k].machine, hist[k].input)

IInv == TypeOK /\ LockInv /\ CheatInv /\ FilmInv /\ HistInv
Snapshots == [machine : Machines, input : Inputs, film : Machines,
              missed : SUBSET Missable, section : BOOLEAN]
-----------------------------------------------------------------------------
USE NetplayAssumption

LEMMA StepTyped ==
  /\ \A g \in Machines, i \in Inputs : Stepped(g, i) \in Machines
  /\ \A g \in Machines : Commanded[g] \in Machines
<1>1. ASSUME NEW g \in Machines, NEW i \in Inputs
      PROVE  Stepped(g, i) \in Machines
  <2>1. <<g, i>> \in Machines \X Inputs
    OBVIOUS
  <2>2. QED
    BY <2>1 DEF Stepped
<1>2. QED
  BY <1>1

LEMMA InitIInv == Init => IInv
<1> SUFFICES ASSUME Init PROVE IInv
  OBVIOUS
<1>1. RewinderOK /\ HistInv
  BY DEF Init, RewinderOK, HistInv
<1>2. QED
  BY <1>1 DEF Init, CheatsInit, IInv, TypeOK, LockInv, LockStep, InFrame,
         CheatInv, FilmInv, Polled, Missable
-----------------------------------------------------------------------------
(* Next, as three groups of actions: what the user does between two frames, *)
(* Netplay_Update(), and the rest of a frame.                               *)
UserStep ==
  \/ Connect \/ Quit \/ QSimpleCommand \/ SetMedia \/ LoadMovie \/ SaveMovie
  \/ LoadStateFails \/ EditCheats \/ EnableStateRewind \/ CloseNetwork
  \/ CloseGame \/ LoadGame
  \/ \E g \in Machines, i \in Inputs : LoadState(g, i)
UpdateStep ==
  \/ NoNetplay \/ ConnectFails \/ NetplayStart \/ LoginFails
  \/ SendInput \/ SendFails \/ ReceiveCommand \/ SendState
  \/ JoinedOrLeft \/ ReceiveFails
  \/ \E g \in Machines, i \in Inputs : RecvState(g, i)
  \/ \E i \in Inputs : ReceiveInput(i)
FrameStep ==
  \/ \E i \in Inputs : Emulate(i)
  \/ ProcessInput \/ SRWFrame
  \/ \E i \in Inputs : MidSync(i) \/ FrameDone(i)

LEMMA NextGroups == Next => UserStep \/ UpdateStep \/ FrameStep
  BY DEF Next, UserStep, UpdateStep, FrameStep

(* What becomes of the states kept for rewinding: they are kept, but not    *)
(* into a new recording; dropped; marked when a recording starts; or it is  *)
(* the rewinder that takes a step.                                          *)
LEMMA HistSteps ==
  ASSUME [Next]_vars
  PROVE  \/ hist' = <<>>
         \/ UNCHANGED hist /\ (mode' = "recording" => mode = "recording")
         \/ hist' = [k \in DOMAIN hist |->
                       [hist[k] EXCEPT !.missed = {"rewind"}]]
         \/ pc = "rewind" /\ mode' = mode /\ DoRecord
         \/ mode' = mode /\ Rewound
<1>1. CASE UserStep
  BY <1>1 DEF UserStep, Connect, Quit, QSimpleCommand, SetMedia, LoadMovie,
      SaveMovie, LoadStateFails, EditCheats, EnableStateRewind, CloseNetwork,
      CloseGame, LoadGame, LoadState, Between, NoMovieChange, Record,
      RecordState, movie
<1>2. CASE UpdateStep
  BY <1>2 DEF UpdateStep, NoNetplay, ConnectFails, NetplayStart, LoginFails,
      SendInput, SendFails, ReceiveCommand, SendState, JoinedOrLeft,
      ReceiveFails, RecvState, ReceiveInput, In, Received, NetError,
      NoMovieChange, RecordState
<1>3. CASE SRWFrame
  BY <1>3 DEF SRWFrame, Rewinding, NoRewinder, DoRecord, RecordErrs, Rewound,
      RewindErrs, NotRewound, NoMovieChange
<1>4. CASE FrameStep /\ ~SRWFrame
  BY <1>4 DEF FrameStep, Emulate, ProcessInput, MidSync, FrameDone, Record,
      Run, NoMovieChange
<1>5. CASE UNCHANGED vars
  BY <1>5 DEF vars, movie
<1>6. QED
  BY <1>1, <1>2, <1>3, <1>4, <1>5, NextGroups

LEMMA HistSeq ==
  ASSUME RewinderOK
  PROVE  /\ hist \in Seq(Snapshots) /\ DOMAIN hist = 1..Len(hist)
         /\ Len(hist) \in Nat /\ Len(hist) <= Capacity
         /\ \A k \in 1..Len(hist) : hist[k] \in Snapshots
<1>1. hist \in Seq(Snapshots) /\ Len(hist) <= Capacity
  BY DEF RewinderOK, Snapshots
<1>2. QED
  BY <1>1

LEMMA LastKept ==
  ASSUME RewinderOK, hist # <<>>
  PROVE  /\ Last(hist) \in Snapshots /\ Last(hist) = hist[Len(hist)]
         /\ Len(hist) \in 1..Len(hist)
<1>1. Len(hist) \in 1..Len(hist)
  <2>1. hist \in Seq(Snapshots)
    BY HistSeq
  <2>2. QED
    BY <2>1
<1>2. QED
  BY <1>1, HistSeq DEF Last

(* The states that are left of the older ones.                              *)
LEMMA Popped ==
  ASSUME RewinderOK, hist # <<>>,
         hist' = IF Len(hist) > 1 THEN Front(hist) ELSE hist
  PROVE  /\ RewinderOK' /\ Len(hist') \in 1..Len(hist)
         /\ \A k \in 1..Len(hist') : hist'[k] = hist[k]
<1>1. hist \in Seq(Snapshots) /\ Len(hist) \in Nat /\ Len(hist) <= Capacity
  BY DEF RewinderOK, Snapshots
<1>2. CASE Len(hist) > 1
  <2>1. Front(hist) \in Seq(Snapshots) /\ Len(Front(hist)) = Len(hist) - 1
        /\ \A k \in 1..Len(Front(hist)) : Front(hist)[k] = hist[k]
    BY <1>1, <1>2 DEF Front
  <2>2. QED
    BY <1>1, <1>2, <2>1 DEF RewinderOK, Snapshots
<1>3. CASE ~(Len(hist) > 1)
  BY <1>1, <1>3 DEF RewinderOK, Snapshots
<1>4. QED
  BY <1>2, <1>3

(* One state more, the oldest dropped when there are too many.              *)
LEMMA Kept ==
  ASSUME TypeOK, RewinderOK, DoRecord
  PROVE  /\ RewinderOK'
         /\ \A k \in 1..Len(hist') :
              hist'[k] = Snapshot \/ \E m \in 1..Len(hist) : hist'[k] = hist[m]
<1>1. Snapshot \in Snapshots
  <2>1. (mode # "stopped") \in BOOLEAN /\ missed \in SUBSET Missable
    BY DEF TypeOK
  <2>2. QED
    BY <2>1 DEF TypeOK, Snapshot, Snapshots
<1> DEFINE h == Append(hist, Snapshot)
<1>2. /\ h \in Seq(Snapshots) /\ h # <<>> /\ Len(h) = Len(hist) + 1
      /\ Len(hist) \in Nat /\ Len(hist) <= Capacity
      /\ h[Len(hist) + 1] = Snapshot
      /\ \A k \in 1..Len(hist) : h[k] = hist[k]
  BY <1>1, HistSeq
<1>3. hist' = IF Len(h) > Capacity THEN Tail(h) ELSE h
  BY DEF DoRecord
<1> HIDE DEF h
<1>4. /\ Tail(h) \in Seq(Snapshots) /\ Len(Tail(h)) = Len(h) - 1
      /\ \A k \in 1..Len(Tail(h)) : Tail(h)[k] = h[k + 1]
  BY <1>2, HeadTailProperties
<1>5. \A k \in 1..Len(h) :
        h[k] = Snapshot \/ \E m \in 1..Len(hist) : h[k] = hist[m]
  BY <1>2
<1>6. CASE Len(h) > Capacity
  <2>1. \A k \in 1..Len(hist') : k + 1 \in 1..Len(h) /\ hist'[k] = h[k + 1]
    BY <1>2, <1>3, <1>4, <1>6
  <2>2. hist' \in Seq(Snapshots) /\ Len(hist') <= Capacity
    BY <1>2, <1>3, <1>4, <1>6
  <2>3. QED
    BY <1>5, <2>1, <2>2 DEF RewinderOK, Snapshots
<1>7. CASE ~(Len(h) > Capacity)
  BY <1>2, <1>3, <1>5, <1>7 DEF RewinderOK, Snapshots
<1>8. QED
  BY <1>6, <1>7

LEMMA Marked ==
  ASSUME RewinderOK,
         hist' = [k \in DOMAIN hist |-> [hist[k] EXCEPT !.missed = {"rewind"}]]
  PROVE  RewinderOK' /\ \A k \in 1..Len(hist') : hist'[k].missed # {}
<1>1. /\ hist \in Seq(Snapshots) /\ DOMAIN hist = 1..Len(hist)
      /\ Len(hist) \in Nat /\ Len(hist) <= Capacity
      /\ \A k \in 1..Len(hist) : hist[k] \in Snapshots
  BY HistSeq
<1>2. {"rewind"} \in SUBSET Missable
  BY DEF Missable
<1>3. \A k \in 1..Len(hist) :
        /\ [hist[k] EXCEPT !.missed = {"rewind"}] \in Snapshots
        /\ [hist[k] EXCEPT !.missed = {"rewind"}].missed # {}
  BY <1>1, <1>2 DEF Snapshots
<1>4. hist' = [k \in 1..Len(hist) |-> [hist[k] EXCEPT !.missed = {"rewind"}]]
  BY <1>1
<1>5. hist' \in Seq(Snapshots) /\ Len(hist') = Len(hist)
  BY <1>1, <1>3, <1>4
<1>6. QED
  BY <1>1, <1>3, <1>4, <1>5 DEF RewinderOK, Snapshots

(* A step keeps the types and the number of the states kept.                *)
LEMMA NextRewinder == TypeOK /\ [Next]_vars => RewinderOK'
<1> SUFFICES ASSUME TypeOK, [Next]_vars PROVE RewinderOK'
  OBVIOUS
<1>1. RewinderOK
  BY DEF TypeOK
<1>2. CASE hist' = <<>>
  BY <1>2, NetplayAssumption DEF RewinderOK
<1>3. CASE UNCHANGED hist
  BY <1>1, <1>3 DEF RewinderOK
<1>4. CASE Rewound
  BY <1>1, <1>4, Popped DEF Rewound
<1>5. QED
  BY <1>1, <1>2, <1>3, <1>4, HistSteps, Kept, Marked

(* A step keeps the states of a recording where the movie leads to.         *)
LEMMA NextHist == TypeOK /\ FilmInv /\ HistInv /\ [Next]_vars => HistInv'
<1> SUFFICES ASSUME TypeOK, FilmInv, HistInv, [Next]_vars,
                    mode' = "recording"
             PROVE  \A k \in 1..Len(hist') : hist'[k].missed = {} =>
                      hist'[k].film = Stepped(hist'[k].machine, hist'[k].input)
  BY DEF HistInv
<1>1. RewinderOK
  BY DEF TypeOK
<1>2. CASE hist' = <<>>
  BY <1>2
<1>3. CASE UNCHANGED hist /\ mode = "recording"
  BY <1>3 DEF HistInv
<1>4. CASE hist' = [k \in DOMAIN hist |-> [hist[k] EXCEPT !.missed = {"rewind"}]]
  BY <1>1, <1>4, Marked
<1>5. CASE pc = "rewind" /\ mode' = mode /\ DoRecord
  <2>1. Snapshot.missed = {} =>
          Snapshot.film = Stepped(Snapshot.machine, Snapshot.input)
    BY <1>5 DEF Snapshot, FilmInv, Polled
  <2>2. QED
    BY <1>1, <1>5, <2>1, Kept DEF HistInv
<1>6. CASE mode' = mode /\ Rewound
  <2>1. /\ Len(hist') \in 1..Len(hist)
        /\ \A k \in 1..Len(hist') : hist'[k] = hist[k]
    BY <1>1, <1>6, Popped DEF Rewound
  <2>2. \A k \in 1..Len(hist') : k \in 1..Len(hist)
    BY <2>1
  <2>3. QED
    BY <1>6, <2>1, <2>2 DEF HistInv
<1>7. QED
  BY <1>2, <1>3, <1>4, <1>5, <1>6, HistSteps

(* What the movie misses is added to what it missed, or the movie has been  *)
(* rewound to the wrong place already.                                      *)
LEMMA MissingIs ==
  ASSUME NEW what
  PROVE  /\ Missing(what) # {}
         /\ Missing(what) = missed \/ Missing(what) = missed \cup {what}
  BY DEF Missing

(* A step keeps the players in step.                                        *)
LEMMA NextLock == TypeOK /\ LockInv /\ [Next]_vars => LockInv'
<1> SUFFICES ASSUME TypeOK, LockInv, [Next]_vars PROVE LockInv'
  OBVIOUS
<1> USE DEF TypeOK, LockInv, LockStep, InFrame
<1>1. CASE UserStep
  BY <1>1 DEF UserStep, Connect, Quit, QSimpleCommand, SetMedia, LoadMovie, SaveMovie,
      LoadStateFails, EditCheats, EnableStateRewind, CloseNetwork, CloseGame, LoadGame,
      LoadState, Between, SendCommand, Disconnect, NotConnected, NoNetChange,
      NoMovieChange, Record, RecordState, Misses, Apart, NoFilm, net, movie,
      others, cheatVars, listVars, cheatHist
<1>2. CASE UpdateStep
  <2>1. CASE NoNetplay
    BY <2>1 DEF NoNetplay, In, NoNetChange, NoMovieChange, net, others, Apart
  <2>2. CASE SendInput
    BY <2>2 DEF SendInput, In, NoNetChange, NoMovieChange, net, others
  <2>3. CASE ConnectFails \/ LoginFails \/ SendFails \/ ReceiveFails
    BY <2>3 DEF ConnectFails, LoginFails, SendFails, ReceiveFails, NetError,
      Disconnect, NotConnected, Apart
  <2>4. CASE NetplayStart
    BY <2>4 DEF NetplayStart, In, Apart, NoMovieChange
  <2>5. CASE ReceiveCommand \/ SendState \/ JoinedOrLeft
    BY <2>5 DEF ReceiveCommand, SendState, JoinedOrLeft, Received, In,
      NoMovieChange, Misses, net, others
  <2>6. CASE \E g \in Machines, i \in Inputs : RecvState(g, i)
    BY <2>6 DEF RecvState, Received, In, RecordState, net
  <2>7. CASE \E i \in Inputs : ReceiveInput(i)
    BY <2>7 DEF ReceiveInput, In, NoMovieChange, net
  <2>8. QED
    BY <1>2, <2>1, <2>2, <2>3, <2>4, <2>5, <2>6, <2>7 DEF UpdateStep
<1>3. CASE FrameStep
  BY <1>3 DEF FrameStep, Emulate, ProcessInput, SRWFrame, MidSync, FrameDone, Record,
      Rewinding, NoRewinder, DoRecord, RecordErrs, Rewound, RewindErrs,
      NotRewound, Run, NoNetChange, NoMovieChange, Misses, Apart,
      NoFilm, net, movie, others, cheatVars, listVars, cheatHist
<1>4. CASE UNCHANGED vars
  BY <1>4 DEF vars, net, movie, others, cheatVars, listVars, cheatHist
<1>5. QED
  BY <1>1, <1>2, <1>3, <1>4, NextGroups

(* A step keeps the cheats.                                                 *)
LEMMA NextCheats == TypeOK /\ CheatInv /\ [Next]_vars => CheatInv'
<1> SUFFICES ASSUME TypeOK, CheatInv, [Next]_vars PROVE CheatInv'
  OBVIOUS
<1> USE DEF TypeOK, CheatInv
<1>1. CASE UserStep
  BY <1>1 DEF UserStep, Connect, Quit, QSimpleCommand, SetMedia, LoadMovie, SaveMovie,
      LoadStateFails, EditCheats, EnableStateRewind, CloseNetwork, CloseGame, LoadGame,
      LoadState, Between, SendCommand, Disconnect, NotConnected, NoNetChange,
      NoMovieChange, Record, RecordState, Misses, Apart, NoFilm, Reload,
      Loaded, LoadGameCheats, FlushGameCheats, AddCheat, DelCheat, Edited,
      net, movie, others, cheatVars, listVars, cheatHist
<1>2. CASE UpdateStep
  BY <1>2 DEF UpdateStep, NoNetplay, ConnectFails, NetplayStart, LoginFails,
      SendInput, SendFails, ReceiveCommand, SendState, JoinedOrLeft,
      ReceiveFails, RecvState, ReceiveInput, In, Received, NetError,
      Disconnect, NotConnected, NoNetChange, NoMovieChange, RecordState,
      Misses, Apart, NoFilm, Reload, Loaded, FlushGameCheats, net, movie,
      others, cheatVars, listVars, cheatHist
<1>3. CASE FrameStep
  BY <1>3 DEF FrameStep, Emulate, ProcessInput, SRWFrame, MidSync, FrameDone, Record,
      Rewinding, NoRewinder, DoRecord, RecordErrs, Rewound, RewindErrs,
      NotRewound, Run, NoNetChange, NoMovieChange, Misses, Apart,
      NoFilm, net, movie, others, cheatVars, listVars, cheatHist
<1>4. CASE UNCHANGED vars
  BY <1>4 DEF vars, net, movie, others, cheatVars, listVars, cheatHist
<1>5. QED
  BY <1>1, <1>2, <1>3, <1>4, NextGroups

(* A step keeps a recording and the machine together.                       *)
LEMMA NextFilm == TypeOK /\ FilmInv /\ HistInv /\ [Next]_vars => FilmInv'
<1> SUFFICES ASSUME TypeOK, FilmInv, HistInv, [Next]_vars PROVE FilmInv'
  OBVIOUS
<1> USE DEF TypeOK, FilmInv, Polled
<1>1. CASE UserStep
  BY <1>1, MissingIs DEF UserStep, Connect, Quit, QSimpleCommand, SetMedia, LoadMovie, SaveMovie,
      LoadStateFails, EditCheats, EnableStateRewind, CloseNetwork, CloseGame, LoadGame,
      LoadState, Between, SendCommand, Disconnect, NotConnected, NoNetChange,
      NoMovieChange, Record, RecordState, Misses, Apart, NoFilm, net, movie,
      others, cheatVars, listVars, cheatHist
<1>2. CASE UpdateStep
  BY <1>2, MissingIs DEF UpdateStep, NoNetplay, ConnectFails, NetplayStart, LoginFails,
      SendInput, SendFails, ReceiveCommand, SendState, JoinedOrLeft,
      ReceiveFails, RecvState, ReceiveInput, In, Received, NetError,
      Disconnect, NotConnected, NoNetChange, NoMovieChange, RecordState,
      Misses, Apart, NoFilm, net, movie, others, cheatVars, listVars,
      cheatHist
<1>3. CASE SRWFrame
  <2>1. pc = "rewind" /\ pc' = "core"
    BY <1>3 DEF SRWFrame
  <2>2. CASE NotRewound
    BY <2>1, <2>2 DEF NotRewound, NoMovieChange, NoFilm
  <2>3. CASE Rewound
    <3>1. Last(hist) = hist[Len(hist)] /\ Len(hist) \in 1..Len(hist)
      BY <2>3, LastKept DEF Rewound
    <3>2. ASSUME mode' = "recording", missed' = {}
          PROVE  film' = Stepped(machine', PortData')
      <4>1. /\ mode = "recording" /\ Last(hist).missed = {}
            /\ film' = Last(hist).film /\ machine' = Last(hist).machine
            /\ PortData' = Last(hist).input
        BY <2>3, <3>2 DEF Rewound
      <4>2. QED
        BY <3>1, <4>1 DEF HistInv
    <3>3. QED
      BY <2>1, <3>2
  <2>4. CASE RewindErrs
    BY <2>1, <2>4, MissingIs DEF RewindErrs, Misses, NoFilm
  <2>5. QED
    BY <1>3, <2>2, <2>3, <2>4
    DEF SRWFrame, Rewinding, NoRewinder, DoRecord, RecordErrs
<1>4. CASE FrameStep /\ ~SRWFrame
  BY <1>4 DEF FrameStep, Emulate, ProcessInput, MidSync, FrameDone, Record,
      Run, NoNetChange, NoMovieChange, Apart, NoFilm, net, movie, others,
      cheatVars, listVars, cheatHist
<1>5. CASE UNCHANGED vars
  BY <1>5 DEF vars, net, movie, others, cheatVars, listVars, cheatHist
<1>6. QED
  BY <1>1, <1>2, <1>3, <1>4, <1>5, NextGroups

CheatsTyped ==
  /\ cheats \subseteq AllCheats /\ file \subseteq AllCheats /\ mine \subseteq AllCheats
  /\ savecheats \in BOOLEAN /\ lost \in BOOLEAN

(* Reading the cheats again keeps their types.                              *)
LEMMA ReloadTyped ==
  ASSUME TypeOK, UNCHANGED cheatVars \/ Reload(FALSE)
  PROVE  CheatsTyped'
<1>1. CheatsTyped
  BY DEF TypeOK, CheatsTyped
<1>2. CASE UNCHANGED cheatVars
  BY <1>1, <1>2 DEF CheatsTyped, cheatVars, listVars, cheatHist
<1>3. CASE Reload(FALSE)
  BY <1>1, <1>3 DEF CheatsTyped, Reload, Loaded
<1>4. QED
  BY <1>2, <1>3

(* What the movie misses has a name.                                        *)
LEMMA MissesTyped ==
  ASSUME TypeOK, machine' \in Machines,
         NoMovieChange \/ Misses("other") \/ Misses("command")
  PROVE  film' \in Machines /\ missed' \subseteq Missable
<1>1. film' \in Machines
  BY DEF TypeOK, NoMovieChange, Misses, NoFilm
<1>2. {"other", "command"} \subseteq Missable /\ missed \subseteq Missable
  BY DEF TypeOK, Missable
<1>3. \/ missed' = missed \/ missed' = {}
      \/ missed' = missed \cup {"other"} \/ missed' = missed \cup {"command"}
  BY MissingIs DEF NoMovieChange, Misses, NoFilm
<1>4. missed' \subseteq Missable
  BY <1>2, <1>3
<1>5. QED
  BY <1>1, <1>4

(* A step keeps the types.                                                  *)
LEMMA NextTypeOK == TypeOK /\ [Next]_vars => TypeOK'
<1> SUFFICES ASSUME TypeOK, [Next]_vars PROVE TypeOK'
  OBVIOUS
<1>0. RewinderOK'
  BY NextRewinder
<1> USE <1>0 DEF TypeOK, NoMovieChange, NoFilm, Apart, cheatVars,
                 listVars, cheatHist
<1>1. CASE Connect
  BY <1>1 DEF Connect, Between, Reload, Loaded
<1>2. CASE Quit
  BY <1>2 DEF Quit, Between, Disconnect, NotConnected, Reload, Loaded
<1>3. CASE QSimpleCommand
  <2>1. machine' \in Machines /\ PortData' \in Inputs
    BY <1>3, StepTyped DEF QSimpleCommand, Between, SendCommand, Disconnect,
      NoNetChange, Record, net, others
  <2>2. film' \in Machines /\ missed' \subseteq Missable
    BY <1>3, <2>1, StepTyped DEF QSimpleCommand, Between, SendCommand, Disconnect,
      NoNetChange, Record, net, others
  <2>3. peer' \in Machines
    BY <1>3, <2>1, StepTyped DEF QSimpleCommand, Between, SendCommand, Disconnect,
      NoNetChange, Record, net, others
  <2>4. heard' \in Inputs /\ synced' \in BOOLEAN
    BY <1>3, <2>1 DEF QSimpleCommand, Between, SendCommand, Disconnect,
      NoNetChange, Record, net, others
  <2>5. QED
    BY <1>3, <2>1, <2>2, <2>3, <2>4 DEF QSimpleCommand, Between, SendCommand, Disconnect,
      NoNetChange, Record, net, others, NotConnected,
      Reload, Loaded
<1>4. CASE SetMedia
  <2>1. machine' \in Machines /\ PortData' \in Inputs
    BY <1>4, StepTyped DEF SetMedia, Between, Disconnect, NoNetChange, Record,
      net, others
  <2>2. film' \in Machines /\ missed' \subseteq Missable
    <3>1. "other" \in Missable
      BY DEF Missable
    <3>2. \/ film' = Commanded[film] /\ missed' = missed \cup {"other"}
          \/ film' = Commanded[film] /\ missed' = missed
          \/ NoFilm
      BY <1>4, MissingIs DEF SetMedia, Record
    <3>3. film' \in Machines
      BY <2>1, <3>2, StepTyped
    <3>4. missed' \subseteq Missable
      BY <3>1, <3>2
    <3>5. QED
      BY <3>3, <3>4
  <2>3. peer' \in Machines
    BY <1>4, <2>1, StepTyped DEF SetMedia, Between, Disconnect, NoNetChange, Record,
      net, others
  <2>4. heard' \in Inputs /\ synced' \in BOOLEAN
    BY <1>4, <2>1 DEF SetMedia, Between, Disconnect, NoNetChange, Record,
      net, others
  <2>5. QED
    BY <1>4, <2>1, <2>2, <2>3, <2>4 DEF SetMedia, Between, Disconnect, NoNetChange, Record,
      net, others, NotConnected, Reload, Loaded
<1>5. CASE LoadMovie
  BY <1>5 DEF LoadMovie, Between, NoNetChange, net, others
<1>6. CASE SaveMovie
  BY <1>6 DEF SaveMovie, NoNetChange, net, others
<1>7. CASE LoadStateFails
  <2>1. /\ machine' \in Machines /\ PortData' \in Inputs
        /\ peer' \in Machines /\ heard' \in Inputs /\ synced' \in BOOLEAN
        /\ Misses("other")
        /\ UNCHANGED <<pc, Connection, MDFNnetplay, Joined, mode>>
        /\ UNCHANGED <<cheats, savecheats, file, mine, lost>>
    BY <1>7 DEF LoadStateFails, Between, net
  <2>2. \/ film' = film /\ missed' \in {missed, missed \cup {"other"}}
        \/ film' = machine' /\ missed' = {}
    BY <2>1, MissingIs DEF Misses
  <2>3. film' \in Machines
    BY <2>1, <2>2
  <2>4. missed' \subseteq Missable
    <3>1. missed \subseteq Missable /\ "other" \in Missable
      BY DEF Missable
    <3>2. QED
      BY ONLY <2>2, <3>1, Zenon
  <2>5. QED
    BY <2>1, <2>3, <2>4
<1>8. CASE EditCheats
  BY <1>8 DEF EditCheats, Between, AddCheat, DelCheat, Edited, net, movie, others
<1>9. CASE CloseNetwork
  BY <1>9 DEF CloseNetwork, Disconnect, NotConnected, Reload, Loaded
<1>10. CASE CloseGame
  BY <1>10 DEF CloseGame, FlushGameCheats, net, others
<1>11. CASE LoadGame
  BY <1>11 DEF LoadGame, LoadGameCheats, Loaded, net
<1>12. CASE \E g \in Machines, i \in Inputs : LoadState(g, i)
  <2>1. /\ machine' \in Machines /\ PortData' \in Inputs /\ pc' = pc
        /\ RecordState
        /\ (UNCHANGED <<net, cheatVars>> /\ Apart) \/ Disconnect
    BY <1>12 DEF LoadState, Between
  <2>2. peer' \in Machines /\ heard' \in Inputs /\ synced' \in BOOLEAN
    BY <2>1 DEF Disconnect
  <2>3. /\ film' \in Machines /\ missed' \subseteq Missable
        /\ mode' \in {"stopped", "playing", "recording"}
    BY <2>1 DEF RecordState
  <2>4. /\ Connection' \in {"none", "connecting", "established"}
        /\ MDFNnetplay' \in BOOLEAN /\ Joined' \in BOOLEAN
        /\ MDFNnetplay' = (Connection' = "established")
    <3>1. CASE UNCHANGED net
      BY <3>1 DEF net
    <3>2. CASE NotConnected
      BY <3>2 DEF NotConnected
    <3>3. QED
      BY <2>1, <3>1, <3>2 DEF Disconnect
  <2>5. UNCHANGED cheatVars \/ Reload(FALSE)
    BY <2>1 DEF Disconnect
  <2>6. CheatsTyped'
    BY <2>5, ReloadTyped
  <2>7. QED
    BY <2>1, <2>2, <2>3, <2>4, <2>6 DEF CheatsTyped
<1>13. CASE NoNetplay
  BY <1>13 DEF NoNetplay, In, NoNetChange, net, others
<1>14. CASE ConnectFails
  BY <1>14 DEF ConnectFails, In, NetError, Disconnect, NotConnected, Reload, Loaded
<1>15. CASE NetplayStart
  BY <1>15 DEF NetplayStart, In, FlushGameCheats
<1>16. CASE LoginFails
  BY <1>16 DEF LoginFails, In, NotConnected, Reload, Loaded
<1>17. CASE SendInput
  BY <1>17 DEF SendInput, In, NoNetChange, net, others
<1>18. CASE SendFails
  BY <1>18 DEF SendFails, In, NetError, Disconnect, NotConnected, Reload, Loaded
<1>19. CASE ReceiveCommand
  <2>1. machine' \in Machines /\ peer' \in Machines
    BY <1>19, StepTyped DEF ReceiveCommand
  <2>2. film' \in Machines /\ missed' \subseteq Missable
    BY <1>19, <2>1, MissesTyped DEF ReceiveCommand
  <2>3. QED
    BY <1>19, <2>1, <2>2 DEF ReceiveCommand, In, Received, net
<1>20. CASE SendState
  BY <1>20 DEF SendState, In, Received, net
<1>21. CASE JoinedOrLeft
  BY <1>21 DEF JoinedOrLeft, In, Received, others
<1>22. CASE ReceiveFails
  <2>1. machine' \in Machines /\ PortData' \in Inputs
    BY <1>22 DEF ReceiveFails
  <2>2. film' \in Machines /\ missed' \subseteq Missable
    BY <1>22, <2>1, MissesTyped DEF ReceiveFails
  <2>3. mode' \in {"stopped", "playing", "recording"}
    BY <1>22 DEF ReceiveFails
  <2>4. QED
    BY <1>22, <2>1, <2>2, <2>3 DEF ReceiveFails, In, NetError, Disconnect,
      NotConnected, Reload, Loaded
<1>23. CASE \E g \in Machines, i \in Inputs : RecvState(g, i)
  BY <1>23 DEF RecvState, In, Received, RecordState, net
<1>24. CASE \E i \in Inputs : ReceiveInput(i)
  BY <1>24 DEF ReceiveInput, In, net
<1>25. CASE \E i \in Inputs : Emulate(i)
  BY <1>25 DEF Emulate, NoNetChange, net, others
<1>26. CASE ProcessInput
  <2>1. /\ machine' \in Machines /\ PortData' \in Inputs
        /\ pc' \in {"rewind", "rest"} /\ NoNetChange
        /\ \/ mode' \in {"playing", "stopped"} /\ NoFilm
           \/ Record(Stepped(film, PortData))
    BY <1>26 DEF ProcessInput
  <2>2. film' \in Machines /\ missed' \subseteq Missable
    <3>1. Stepped(film, PortData) \in Machines
      BY StepTyped
    <3>2. /\ film' \in {machine', Stepped(film, PortData)}
          /\ missed' = {} \/ missed' = missed
      BY <2>1 DEF Record
    <3>3. QED
      BY <2>1, <3>1, <3>2
  <2>3. mode' \in {"stopped", "playing", "recording"}
    BY <2>1 DEF Record
  <2>4. peer' \in Machines /\ heard' \in Inputs /\ synced' \in BOOLEAN
    BY <2>1 DEF NoNetChange, others
  <2>5. QED
    BY <2>1, <2>2, <2>3, <2>4 DEF NoNetChange, net
<1>27. CASE SRWFrame
  <2>1. /\ pc' = "core" /\ NoNetChange
        /\ NotRewound \/ Rewound \/ RewindErrs
    BY <1>27
    DEF SRWFrame, Rewinding, NoRewinder, DoRecord, RecordErrs
  <2>2. hist # <<>> => Last(hist) \in Snapshots
    BY LastKept
  <2>3. machine' \in Machines /\ PortData' \in Inputs /\ mode' = mode
    BY <2>1, <2>2 DEF Rewound, NotRewound, RewindErrs, Snapshots
  <2>4. film' \in Machines
    BY <2>1, <2>2, <2>3 DEF Rewound, NotRewound, RewindErrs, Misses, Snapshots
  <2>5. missed' \subseteq Missable
    <3>1. \/ missed' = {} \/ missed' = missed \/ missed' = missed \cup {"other"}
          \/ missed' = {"rewind"}
          \/ hist # <<>> /\ missed' = Last(hist).missed
      BY <2>1, MissingIs DEF Rewound, NotRewound, RewindErrs, Misses
    <3>2. hist # <<>> => Last(hist).missed \subseteq Missable
      BY <2>2 DEF Snapshots
    <3>3. {"other", "rewind"} \subseteq Missable /\ missed \subseteq Missable
      BY DEF Missable
    <3>4. QED
      BY ONLY <3>1, <3>2, <3>3, Zenon
  <2>6. peer' \in Machines /\ heard' \in Inputs /\ synced' \in BOOLEAN
    BY <2>1, <2>3 DEF NoNetChange, others
  <2>7. QED
    BY <2>1, <2>3, <2>4, <2>5, <2>6 DEF NoNetChange, net
<1>28. CASE \E i \in Inputs : MidSync(i)
  <2>1. machine' \in Machines /\ PortData' \in Inputs
    BY <1>28, StepTyped DEF MidSync, Run, net
  <2>2. film' \in Machines /\ missed' \subseteq Missable
    BY <1>28, <2>1, StepTyped DEF MidSync, Run, net
  <2>3. peer' \in Machines
    BY <1>28, <2>1, StepTyped DEF MidSync, Run, net
  <2>4. heard' \in Inputs /\ synced' \in BOOLEAN
    BY <1>28, <2>1 DEF MidSync, Run, net
  <2>5. QED
    BY <1>28, <2>1, <2>2, <2>3, <2>4 DEF MidSync, Run, net
<1>29. CASE \E i \in Inputs : FrameDone(i)
  <2>1. machine' \in Machines /\ PortData' \in Inputs
    BY <1>29, StepTyped DEF FrameDone, Run, net
  <2>2. film' \in Machines /\ missed' \subseteq Missable
    BY <1>29, <2>1, StepTyped DEF FrameDone, Run, net
  <2>3. peer' \in Machines
    BY <1>29, <2>1, StepTyped DEF FrameDone, Run, net
  <2>4. heard' \in Inputs /\ synced' \in BOOLEAN
    BY <1>29, <2>1 DEF FrameDone, Run, net
  <2>5. QED
    BY <1>29, <2>1, <2>2, <2>3, <2>4 DEF FrameDone, Run, net
<1>30. CASE EnableStateRewind
  BY <1>30 DEF EnableStateRewind, NoNetChange, net, others
<1>31. CASE UNCHANGED vars
  BY <1>31 DEF vars, net, movie, others
<1>32. QED
  BY <1>1, <1>2, <1>3, <1>4, <1>5, <1>6, <1>7, <1>8, <1>9, <1>10, <1>11,
     <1>12, <1>13, <1>14, <1>15, <1>16, <1>17, <1>18, <1>19, <1>20, <1>21,
     <1>22, <1>23, <1>24, <1>25, <1>26, <1>27, <1>28, <1>29, <1>30,
     <1>31 DEF Next

LEMMA NextIInv == IInv /\ [Next]_vars => IInv'
  BY NextTypeOK, NextLock, NextCheats, NextFilm, NextHist DEF IInv
-----------------------------------------------------------------------------
(* All of it is inductive, wherever the connection or a file fails.         *)
THEOREM Invariance == Spec => []IInv
  BY InitIInv, NextIInv, PTL DEF Spec

(* From a common state on the machine is another player's machine, until a  *)
(* state is loaded here or the connection ends.                             *)
THEOREM PlayersInStep == Spec => []LockStep
<1>1. IInv => LockStep
  BY DEF IInv, LockInv
<1>2. QED
  BY <1>1, Invariance, PTL

(* The cheats of before network play come back, unless their file failed,   *)
(* or the login with cheats unsaved.                                        *)
THEOREM CheatsSurvive == Spec => []CheatsKept
<1>1. IInv => CheatsKept
  BY DEF IInv, CheatInv, CheatsKept
<1>2. QED
  BY <1>1, Invariance, PTL

(* A movie recorded during network play, or on the way into and out of it,  *)
(* leads between frames to where the machine is, unless a command of the    *)
(* server, a failed load or a change of the medium is missing in it (since  *)
(* its last recorded state, or at the state last rewound to), or a rewind   *)
(* has failed or gone to a state from before the movie.                     *)
THEOREM RecordingInStep == Spec => []RecordingFollows
<1>1. IInv => RecordingFollows
  BY DEF IInv, FilmInv, Polled, Following, RecordingFollows
<1>2. QED
  BY <1>1, Invariance, PTL

(* The variables keep their types; network play is on exactly while the     *)
(* connection is established.                                               *)
THEOREM TypeCorrect == Spec => []TypeOK
<1>1. IInv => TypeOK
  BY DEF IInv
<1>2. QED
  BY <1>1, Invariance, PTL
=============================================================================
