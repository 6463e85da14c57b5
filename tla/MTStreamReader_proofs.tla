------------------------ MODULE MTStreamReader_proofs ------------------------
(***************************************************************************)
(* The streaming reader for all streams, every size of the buffer and      *)
(* every look-ahead up to a chunk: the two threads take turns, nothing is  *)
(* refilled in the caller's sight, and what the caller sees is the looped  *)
(* stream it chose.                                                        *)
(***************************************************************************)
EXTENDS MTStreamReader, TLAPS

CommandType ==
  [command : {"SetActive", "NOP", "BufferNext", "Exit"},
   which : Streams \cup {NoStream}, skip : Nat, pzb : 0..Buffer_Size]
CallerType ==
  [which : Streams \cup {NoStream}, lead : Int, pos : Int]
Pending(name) == command_sem = 1 /\ pending.command = name

(* What the commands on their way mean.                                     *)
CallInv ==
  /\ pending \in CommandType /\ caller \in CallerType
  /\ emu = "construct" => command_sem = 0 /\ ack_sem = 0 /\ rt = "wait"
  /\ Pending("SetActive") => pending.which \in Streams /\ need_sync
  /\ Pending("BufferNext") \/ emu = "next" => caller.which # NoStream
  /\ need_sync => read_pos = 0 /\ emu # "next"
  /\ caller.which # NoStream => active \in Streams \/ Pending("SetActive")

(* The file stands where the stream does, unless its loop is in the buffer, *)
(* in one piece.                                                            *)
CopyInv ==
  /\ rt = "wait" => tell = apos
  /\ rt = "copy" =>
       /\ active \in Streams
       /\ basep = NoBase => tell = apos
       /\ basep # NoBase =>
            /\ LoopPos[active] < Size[active] /\ LoopPos[active] <= apos
            /\ basep + (Size[active] - LoopPos[active]) <= Buffer_Size

(* The ring in quarters.                                                    *)
Start(j) == CASE j = 0 -> 0
              [] j = 1 -> Chunk_Size
              [] j = 2 -> Chunk_Size + Chunk_Size
              [] OTHER -> Chunk_Size + Chunk_Size + Chunk_Size
Before(j) == IF j = 0 THEN 3 ELSE j - 1
InChunk(p, j) == Start(j) <= p /\ p < Start(j) + Chunk_Size
Wrapped(x) == IF x >= Buffer_Size THEN x - Buffer_Size ELSE x

(* What is still to be written, for the commands given so far.  When it is, *)
(* the next chunk to refill is the one the caller is in; or the one before, *)
(* for which it has yet to ask.                                             *)
Outstanding == IF rt = "copy" THEN count
               ELSE IF Pending("BufferNext") THEN Chunk_Size ELSE 0
ChunkInv ==
  rt # "failed" =>
    /\ \E j \in 0..3 :
         /\ InChunk(read_pos, j)
         /\ Wrapped(write_pos + Outstanding)
              = Start(IF emu = "next" THEN Before(j) ELSE j)
    /\ rt = "copy" /\ ~need_sync => count <= Chunk_Size

IInv == TypeOK /\ OneTurn /\ CallInv /\ CopyInv /\ ChunkInv
-----------------------------------------------------------------------------
USE StreamAssumption, BufferAssumption

LEMMA ChunkFacts ==
  /\ Chunk_Size \in Nat /\ Chunk_Size > 0
  /\ Buffer_Size = Chunk_Size + Chunk_Size + Chunk_Size + Chunk_Size
  /\ Overbuffer_Count <= Chunk_Size
  BY DEF Chunk_Size

LEMMA AdvanceFact == Advances \subseteq 0..Chunk_Size
  BY DEF Chunk_Size

LEMMA Starts ==
  /\ Start(0) = 0 /\ Start(1) = Chunk_Size
  /\ Start(2) = Chunk_Size + Chunk_Size
  /\ Start(3) = Chunk_Size + Chunk_Size + Chunk_Size
  BY DEF Start

LEMMA Wraps ==
  ASSUME NEW x \in Nat, x < Buffer_Size + Buffer_Size
  PROVE  x % Buffer_Size = Wrapped(x) /\ Wrapped(x) \in Ring
  BY DEF Wrapped, Ring

LEMMA Quarters ==
  ASSUME NEW d \in Nat, d > 0, NEW p \in Nat
  PROVE  /\ p < d => p \div d = 0
         /\ d <= p /\ p < d + d => p \div d = 1
         /\ d + d <= p /\ p < d + d + d => p \div d = 2
         /\ d + d + d <= p /\ p < d + d + d + d => p \div d = 3
  OBVIOUS

(* The bit of the chunk's number.                                           *)
LEMMA BitOf ==
  ASSUME NEW p \in Ring, NEW j \in 0..3, InChunk(p, j)
  PROVE  Bit(p) = j % 2
<1>0. p \in Nat /\ Chunk_Size \in Nat /\ Chunk_Size > 0
  BY ChunkFacts DEF Ring
<1>1. CASE j = 0
  <2>1. p < Chunk_Size
    BY <1>0, <1>1 DEF InChunk, Start
  <2>2. p \div Chunk_Size = 0
    BY ONLY <1>0, <2>1, Quarters
  <2>3. QED
    BY <1>1, <2>2 DEF Bit
<1>2. CASE j = 1
  <2>1. Chunk_Size <= p /\ p < Chunk_Size + Chunk_Size
    BY <1>0, <1>2 DEF InChunk, Start
  <2>2. p \div Chunk_Size = 1
    BY ONLY <1>0, <2>1, Quarters
  <2>3. QED
    BY <1>2, <2>2 DEF Bit
<1>3. CASE j = 2
  <2>1. /\ Chunk_Size + Chunk_Size <= p
        /\ p < Chunk_Size + Chunk_Size + Chunk_Size
    BY <1>0, <1>3 DEF InChunk, Start
  <2>2. p \div Chunk_Size = 2
    BY ONLY <1>0, <2>1, Quarters
  <2>3. QED
    BY <1>3, <2>2 DEF Bit
<1>4. CASE j = 3
  <2>1. /\ Chunk_Size + Chunk_Size + Chunk_Size <= p
        /\ p < Chunk_Size + Chunk_Size + Chunk_Size + Chunk_Size
    BY <1>0, <1>4 DEF InChunk, Start
  <2>2. p \div Chunk_Size = 3
    BY ONLY <1>0, <2>1, Quarters
  <2>3. QED
    BY <1>4, <2>2 DEF Bit
<1>5. QED
  BY <1>1, <1>2, <1>3, <1>4

LEMMA LoopedPosTyped ==
  ASSUME NEW s \in Streams, NEW n \in Int
  PROVE  LoopedPos(s, n) \in Int
<1>1. Size[s] \in Nat /\ LoopPos[s] \in Nat /\ LoopPos[s] <= Size[s]
  OBVIOUS
<1>2. CASE LoopPos[s] = Size[s]
  BY <1>1, <1>2 DEF LoopedPos
<1>3. CASE LoopPos[s] < Size[s]
  <2>1. (n - LoopPos[s]) % (Size[s] - LoopPos[s]) \in Int
    BY <1>1, <1>3
  <2>2. QED
    BY <1>1, <2>1 DEF LoopedPos
<1>4. QED
  BY <1>1, <1>2, <1>3

LEMMA StartPosTyped ==
  ASSUME NEW s \in Streams, NEW n \in Nat
  PROVE  StartPos(s, n) \in 0..Size[s]
  BY DEF StartPos, SmallerOf

LEMMA ZeroTyped == Zero \in Byte /\ NoStream \notin Streams /\ 0 \in Ring
  BY DEF Zero, Byte, NoStream, Ring

(* The bytes behind the ring have the bytes of the ring for their own.      *)
LEMMA OverbufferedTyped ==
  ASSUME NEW b \in [Places -> Byte]
  PROVE  Overbuffered(b) \in [Places -> Byte]
<1>1. ASSUME NEW i \in Places
      PROVE  (IF i < Buffer_Size THEN b[i] ELSE b[i - Buffer_Size]) \in Byte
  <2>1. i < Buffer_Size \/ i - Buffer_Size \in Places
    BY ChunkFacts DEF Places
  <2>2. QED
    BY <2>1
<1>2. QED
  BY <1>1 DEF Overbuffered

LEMMA ZeroedTyped ==
  ASSUME buffer \in [Places -> Byte], NEW from, NEW n
  PROVE  Zeroed(from, n) \in [Places -> Byte]
  BY ZeroTyped DEF Zeroed
-----------------------------------------------------------------------------
LEMMA InitIInv == Init => IInv
<1> SUFFICES ASSUME Init PROVE IInv
  OBVIOUS
<1> USE DEF Init, NoStream, NoBase, Busy
<1>1. buffer \in [Places -> Byte]
  BY ZeroTyped
<1>2. TypeOK
  <2>1. read_pos \in Ring /\ write_pos \in Ring
    BY ZeroTyped
  <2>2. count \in 0..Buffer_Size /\ command_sem \in 0..1 /\ ack_sem \in 0..1
    OBVIOUS
  <2>3. QED
    BY <1>1, <2>1, <2>2 DEF TypeOK
<1>3. OneTurn
  BY DEF OneTurn
<1>4. CallInv /\ CopyInv
  BY DEF CallInv, CopyInv, CommandType, CallerType, Pending, Simple, Command
<1>5. InChunk(read_pos, 0)
  BY ChunkFacts DEF InChunk, Start
<1>6. Wrapped(write_pos + Outstanding) = Start(0)
  BY ChunkFacts DEF Start, Wrapped, Outstanding, Pending
<1>7. ChunkInv
  BY <1>5, <1>6 DEF ChunkInv
<1>8. QED
  BY <1>2, <1>3, <1>4, <1>7 DEF IInv
-----------------------------------------------------------------------------
(* One token.                                                               *)
LEMMA NextTurn == TypeOK /\ OneTurn /\ CallInv /\ Next => OneTurn'
<1> SUFFICES ASSUME TypeOK, OneTurn, CallInv, Next PROVE OneTurn'
  OBVIOUS
<1> USE DEF TypeOK, OneTurn, Busy, semVars
<1>1. CASE Construct
  BY <1>1 DEF Construct, CallInv
<1>2. CASE ConstructFails \/ get_buffer \/ NeedSync \/ advance
           \/ CallSetActive \/ CallCleanup \/ Joined \/ Terminated
  BY <1>2 DEF ConstructFails, get_buffer, NeedSync, advance, CallSetActive,
              CallCleanup, Joined, Terminated, vars
<1>3. CASE Sync \/ BufferNext \/ set_active_stream \/ cleanup
  BY <1>3 DEF Sync, BufferNext, set_active_stream, cleanup, PostCommand
<1>4. CASE HandleExit \/ HandleNOP
  BY <1>4 DEF HandleExit, HandleNOP, TakeCommand, PostAck
<1>5. CASE HandleSetActive \/ HandleBufferNext
  BY <1>5 DEF HandleSetActive, HandleBufferNext, TakeCommand
<1>6. CASE FillZeros \/ CopyPiece
  BY <1>6 DEF FillZeros, CopyPiece
<1>7. CASE FinishCopy
  BY <1>7 DEF FinishCopy, PostAck
<1>8. CASE ReadThrows
  BY <1>8 DEF ReadThrows
<1>9. QED
  BY <1>1, <1>2, <1>3, <1>4, <1>5, <1>6, <1>7, <1>8
  DEF Next, Caller, ReadThread

(* What the commands mean, and that the thread has a stream to copy.        *)
LEMMA NextCall == TypeOK /\ OneTurn /\ CallInv /\ Next => CallInv'
<1> SUFFICES ASSUME TypeOK, OneTurn, CallInv, Next PROVE CallInv'
  OBVIOUS
<1> USE DEF TypeOK, OneTurn, Busy, CallInv, Pending
<1>1. CASE Construct
  BY <1>1, ZeroTyped DEF Construct, Simple, Command, CommandType, emuVars,
                         streamVars, copyVars
<1>2. CASE ConstructFails \/ get_buffer \/ NeedSync \/ CallSetActive
           \/ CallCleanup \/ Joined \/ Terminated
  BY <1>2 DEF ConstructFails, get_buffer, NeedSync, CallSetActive,
              CallCleanup, Joined, Terminated, vars, emuVars, semVars,
              streamVars, copyVars
<1>3. CASE Sync \/ BufferNext \/ cleanup
  <2>1. pending' \in CommandType
    BY <1>3, ZeroTyped DEF Sync, BufferNext, cleanup, PostCommand, Simple,
                           Command, CommandType
  <2>2. caller' = caller /\ active' = active /\ command_sem = 0
    BY <1>3 DEF Sync, BufferNext, cleanup, PostCommand, emuVars, streamVars
  <2>3. /\ pending'.command # "SetActive"
        /\ pending'.command = "BufferNext" => caller.which # NoStream
        /\ emu' # "next" /\ emu' # "construct"
        /\ need_sync' => read_pos' = 0
    BY <1>3, <2>2 DEF Sync, BufferNext, cleanup, PostCommand, Simple, Command,
                 emuVars
  <2>4. QED
    BY <2>1, <2>2, <2>3
<1>4. CASE advance
  <2>1. PICK n \in Advances : caller' = Consumed(caller, n)
    BY <1>4 DEF advance
  <2>2. n \in Nat
    OBVIOUS
  <2>3. caller' \in CallerType /\ caller'.which = caller.which
    <3>1. CASE n <= caller.lead
      BY <2>1, <2>2, <3>1 DEF Consumed, CallerType
    <3>2. CASE ~(n <= caller.lead)
      <4>1. caller.which \in Streams
        BY <1>4 DEF advance, CallerType
      <4>2. caller.pos + (n - caller.lead) \in Int
        BY <2>2 DEF CallerType
      <4>3. PICK p \in Int :
              p = LoopedPos(caller.which, caller.pos + (n - caller.lead))
        BY <4>1, <4>2, LoopedPosTyped
      <4>4. caller' = [which |-> caller.which, lead |-> 0, pos |-> p]
        BY <2>1, <3>2, <4>3 DEF Consumed
      <4>5. QED
        BY <4>1, <4>4 DEF CallerType
    <3>3. QED
      BY <3>1, <3>2
  <2>4. QED
    BY <1>4, <2>3 DEF advance, semVars, streamVars, copyVars
<1>5. CASE set_active_stream
  <2>1. PICK w \in Streams, skip \in Skips, pzb \in Leads :
          /\ pending' = Command("SetActive", w, skip, pzb)
          /\ caller' = [which |-> w, lead |-> pzb, pos |-> LoopedPos(w, skip)]
          /\ command_sem' = command_sem + 1 /\ ack_sem > 0
    BY <1>5 DEF set_active_stream, PostCommand
  <2>2. pending' \in CommandType /\ caller' \in CallerType
    <3>1. LoopedPos(w, skip) \in Int
      BY LoopedPosTyped
    <3>2. skip \in Nat /\ pzb \in 0..Buffer_Size /\ pzb \in Int
      OBVIOUS
    <3>3. QED
      BY <2>1, <3>1, <3>2 DEF Command, CommandType, CallerType
  <2>3. /\ command_sem' = 1 /\ pending'.command = "SetActive"
        /\ pending'.which \in Streams
    BY <2>1 DEF Command
  <2>4. need_sync' /\ read_pos' = 0 /\ emu' = "run"
    BY <1>5 DEF set_active_stream
  <2>5. QED
    BY <2>2, <2>3, <2>4
<1>6. CASE HandleSetActive
  <2>1. pending.which \in Streams
    BY <1>6 DEF HandleSetActive, TakeCommand
  <2>2. QED
    BY <1>6, <2>1 DEF HandleSetActive, TakeCommand, emuVars
<1>7. CASE HandleExit \/ HandleNOP \/ HandleBufferNext
  BY <1>7 DEF HandleExit, HandleNOP, HandleBufferNext, TakeCommand, PostAck,
              emuVars, streamVars, copyVars
<1>8. CASE FillZeros \/ CopyPiece \/ FinishCopy \/ ReadThrows
  BY <1>8 DEF FillZeros, CopyPiece, FinishCopy, PostAck, ReadThrows, emuVars,
              semVars, streamVars
<1>9. QED
  BY <1>1, <1>2, <1>3, <1>4, <1>5, <1>6, <1>7, <1>8
  DEF Next, Caller, ReadThread
-----------------------------------------------------------------------------
(* A piece lies within the ring, the request and the stream.                *)
LEMMA PieceFacts ==
  ASSUME TypeOK, CopyInv, CopyPiece
  PROVE  /\ active \in Streams /\ apos \in Nat /\ tell \in Nat
         /\ write_pos \in Nat /\ count \in Nat /\ Size[active] \in Nat
         /\ SubCount \in Nat /\ SubCount > 0
         /\ write_pos + SubCount <= Buffer_Size
         /\ SubCount <= count /\ apos + SubCount <= Size[active]
<1>1. active \in Streams /\ active # NoStream
  BY ZeroTyped DEF CopyInv, CopyPiece
<1>2. /\ apos \in Nat /\ tell \in Nat /\ Size[active] \in Nat
      /\ write_pos \in Nat /\ count \in Nat /\ count > 0
      /\ write_pos < Buffer_Size /\ apos < Size[active]
  BY <1>1 DEF TypeOK, Ring, CopyPiece
<1>3. QED
  BY <1>1, <1>2 DEF SubCount, SmallerOf

LEMMA PieceWraps ==
  ASSUME TypeOK, CopyInv, CopyPiece
  PROVE  /\ write_pos' = Wrapped(write_pos + SubCount) /\ write_pos' \in Ring
         /\ count' = count - SubCount
  BY PieceFacts, Wraps, ChunkFacts DEF CopyPiece

LEMMA CopyTyped ==
  ASSUME TypeOK, CopyInv, CopyPiece
  PROVE  /\ apos' \in 0..Size[active] /\ tell' \in 0..Size[active]
         /\ basep' \in Ring \cup {NoBase}
<1> USE DEF TypeOK
<1>1. CASE apos + SubCount = Size[active]
  <2>1. AfterEnd(SubCount)
    BY <1>1 DEF CopyPiece
  <2>2. /\ LoopPos[active] \in 0..Size[active]
        /\ tell \in 0..Size[active] /\ SubCount \in Nat
    BY PieceFacts, ZeroTyped
  <2>3. basep = NoBase => tell + SubCount = Size[active]
    BY <1>1 DEF CopyInv, CopyPiece
  <2>4. QED
    BY <2>1, <2>2, <2>3 DEF AfterEnd
<1>2. CASE apos + SubCount # Size[active]
  <2>1. /\ apos' = apos + SubCount /\ basep' = basep
        /\ tell' = IF basep = NoBase THEN tell + SubCount ELSE tell
    BY <1>2 DEF CopyPiece
  <2>2. basep = NoBase => tell = apos
    BY DEF CopyInv, CopyPiece
  <2>3. tell \in 0..Size[active]
    BY PieceFacts, ZeroTyped
  <2>4. QED
    BY <2>1, <2>2, <2>3, PieceFacts
<1>3. QED
  BY <1>1, <1>2

(* Bytes come from the file or from the loop in the buffer.                 *)
LEMMA SourceTyped ==
  ASSUME TypeOK, CopyInv, CopyPiece, NEW k \in 0 .. SubCount - 1
  PROVE  SourceByte(k) \in Byte
<1> USE DEF TypeOK
<1>1. CASE basep = NoBase
  <2>1. tell + k \in Nat
    BY PieceFacts
  <2>2. [stream |-> active, at |-> tell + k] \in Byte
    BY <2>1, PieceFacts DEF Byte
  <2>3. ByteAt(active, tell + k) \in Byte
    BY <2>2, ZeroTyped DEF ByteAt
  <2>4. QED
    BY <1>1, <2>3 DEF SourceByte
<1>2. CASE basep # NoBase
  <2>1. /\ basep \in Ring /\ LoopPos[active] <= apos
        /\ basep + (Size[active] - LoopPos[active]) <= Buffer_Size
    BY <1>2 DEF CopyInv, CopyPiece
  <2>2. LoopPos[active] \in Nat
    BY PieceFacts
  <2>3. k \in Nat /\ apos + k < Size[active]
    BY PieceFacts
  <2>4. PICK at \in Int : at = basep + (apos - LoopPos[active]) + k
    BY <2>1, <2>2, <2>3, PieceFacts DEF Ring
  <2>5. 0 <= at /\ at < Buffer_Size
    BY <2>1, <2>2, <2>3, <2>4, PieceFacts DEF Ring
  <2>6. at \in Places
    BY <2>5 DEF Places
  <2>7. QED
    BY <1>2, <2>4, <2>6 DEF SourceByte
<1>3. QED
  BY <1>1, <1>2

LEMMA PieceTyped ==
  ASSUME TypeOK, CopyInv, CopyPiece
  PROVE  buffer' \in [Places -> Byte]
<1>1. ASSUME NEW i \in Places, i \in write_pos .. write_pos + SubCount - 1
      PROVE  SourceByte(i - write_pos) \in Byte
  <2>1. i - write_pos \in 0 .. SubCount - 1
    BY <1>1, PieceFacts
  <2>2. QED
    BY <2>1, SourceTyped
<1>2. buffer' = [i \in Places |->
                   IF i \in write_pos .. write_pos + SubCount - 1
                   THEN SourceByte(i - write_pos) ELSE buffer[i]]
  BY DEF CopyPiece
<1>3. QED
  BY <1>1, <1>2 DEF TypeOK
-----------------------------------------------------------------------------
LEMMA NextTypeOK ==
  TypeOK /\ OneTurn /\ OneTurn' /\ CallInv /\ CopyInv /\ Next => TypeOK'
<1> SUFFICES ASSUME TypeOK, OneTurn, OneTurn', CallInv, CopyInv, Next
             PROVE  TypeOK'
  OBVIOUS
<1> USE DEF TypeOK
<1>0. Busy \in 0..1 /\ Busy' \in 0..1
  BY DEF Busy
<1>1. CASE Construct
  BY <1>1 DEF Construct, CallInv, emuVars, streamVars, copyVars
<1>2. CASE ConstructFails \/ get_buffer \/ NeedSync \/ CallSetActive
           \/ CallCleanup \/ Joined \/ Terminated
  BY <1>2 DEF ConstructFails, get_buffer, NeedSync, CallSetActive,
              CallCleanup, Joined, Terminated, vars, emuVars, semVars,
              streamVars, copyVars
<1>3. CASE Sync \/ BufferNext \/ cleanup
  <2>1. ack_sem' \in 0..1 /\ command_sem' \in 0..1
    BY <1>0, <1>3 DEF Sync, BufferNext, cleanup, PostCommand, OneTurn
  <2>2. QED
    BY <1>3, <2>1 DEF Sync, BufferNext, cleanup, emuVars, streamVars, copyVars
<1>4. CASE advance
  <2>1. PICK n \in Advances : read_pos' = (read_pos + n) % Buffer_Size
    BY <1>4 DEF advance
  <2>2. read_pos' \in Ring
    BY <2>1 DEF Ring
  <2>3. QED
    BY <1>4, <2>2 DEF advance, semVars, streamVars, copyVars
<1>5. CASE set_active_stream
  <2>1. ack_sem' \in 0..1 /\ command_sem' \in 0..1
    BY <1>0, <1>5 DEF set_active_stream, PostCommand, OneTurn
  <2>2. QED
    BY <1>5, <2>1, ZeroTyped DEF set_active_stream, streamVars
<1>6. CASE HandleExit \/ HandleNOP
  <2>1. ack_sem' \in 0..1 /\ command_sem' \in 0..1
    BY <1>0, <1>6 DEF HandleExit, HandleNOP, TakeCommand, PostAck, OneTurn
  <2>2. QED
    BY <1>6, <2>1 DEF HandleExit, HandleNOP, emuVars, streamVars, copyVars
<1>7. CASE HandleSetActive
  <2>1. pending.which \in Streams /\ pending.skip \in Nat
    <3>1. Pending("SetActive")
      BY <1>7 DEF HandleSetActive, TakeCommand, Pending
    <3>2. QED
      BY <3>1 DEF CallInv, CommandType
  <2>2. pending.pzb \in 0..Buffer_Size
    BY DEF CallInv, CommandType
  <2>3. apos' \in 0..Size[active'] /\ tell' = apos' /\ active' \in Streams
    BY <1>7, <2>1, StartPosTyped DEF HandleSetActive
  <2>4. buffer' \in [Places -> Byte]
    BY <1>7, ZeroedTyped, OverbufferedTyped DEF HandleSetActive
  <2>5. write_pos' \in Ring
    BY <1>7, <2>2 DEF HandleSetActive, Ring
  <2>6. count' \in 0..Buffer_Size
    BY <1>7, <2>2 DEF HandleSetActive
  <2>7. command_sem' \in 0..1
    BY <1>7 DEF HandleSetActive, TakeCommand
  <2>8. QED
    BY <1>7, <2>3, <2>4, <2>5, <2>6, <2>7 DEF HandleSetActive, emuVars
<1>8. CASE HandleBufferNext
  <2>1. command_sem' \in 0..1
    BY <1>8 DEF HandleBufferNext, TakeCommand
  <2>2. count' \in 0..Buffer_Size
    BY <1>8, ChunkFacts DEF HandleBufferNext
  <2>3. QED
    BY <1>8, <2>1, <2>2 DEF HandleBufferNext, emuVars, streamVars
<1>9. CASE FillZeros
  <2>1. buffer' \in [Places -> Byte]
    BY <1>9, ZeroedTyped, OverbufferedTyped DEF FillZeros
  <2>2. write_pos' \in Ring
    BY <1>9 DEF FillZeros, Ring
  <2>3. QED
    BY <1>9, <2>1, <2>2 DEF FillZeros, emuVars, semVars, streamVars
<1>10. CASE CopyPiece
  <2>1. count' \in 0..Buffer_Size
    BY <1>10, PieceFacts, PieceWraps
  <2>2. QED
    BY <1>10, <2>1, PieceTyped, PieceWraps, CopyTyped
    DEF CopyPiece, emuVars, semVars
<1>11. CASE FinishCopy
  <2>1. buffer' \in [Places -> Byte]
    BY <1>11, OverbufferedTyped DEF FinishCopy
  <2>2. ack_sem' \in 0..1
    BY <1>11 DEF FinishCopy, PostAck, OneTurn, Busy
  <2>3. QED
    BY <1>11, <2>1, <2>2 DEF FinishCopy, emuVars
<1>12. CASE ReadThrows
  BY <1>12 DEF ReadThrows, emuVars, semVars, streamVars, copyVars
<1>13. QED
  BY <1>1, <1>2, <1>3, <1>4, <1>5, <1>6, <1>7, <1>8, <1>9, <1>10, <1>11, <1>12
  DEF Next, Caller, ReadThread
-----------------------------------------------------------------------------
LEMMA NextCopy == TypeOK /\ OneTurn /\ CallInv /\ CopyInv /\ Next => CopyInv'
<1> SUFFICES ASSUME TypeOK, OneTurn, CallInv, CopyInv, Next PROVE CopyInv'
  OBVIOUS
<1>1. CASE Caller \/ Terminated
  <2>1. rt' = rt /\ active' = active /\ apos' = apos /\ tell' = tell
        /\ basep' = basep
    BY <1>1 DEF Caller, Construct, ConstructFails, get_buffer, NeedSync, Sync,
                advance, BufferNext, CallSetActive, set_active_stream,
                CallCleanup, cleanup, Joined, Terminated, vars, streamVars,
                copyVars
  <2>2. QED
    BY <2>1 DEF CopyInv
<1>2. CASE HandleExit \/ HandleNOP \/ ReadThrows
  BY <1>2 DEF HandleExit, HandleNOP, ReadThrows, streamVars, copyVars, CopyInv
<1>3. CASE HandleSetActive
  <2>1. pending.which \in Streams
    BY <1>3 DEF HandleSetActive, TakeCommand, CallInv, Pending, TypeOK
  <2>2. QED
    BY <1>3, <2>1 DEF HandleSetActive, CopyInv
<1>4. CASE HandleBufferNext
  <2>1. Pending("BufferNext") /\ caller.which # NoStream
    BY <1>4 DEF HandleBufferNext, TakeCommand, CallInv, Pending, TypeOK
  <2>2. active \in Streams
    BY <2>1 DEF CallInv, Pending
  <2>3. QED
    BY <1>4, <2>2 DEF HandleBufferNext, CopyInv, streamVars
<1>5. CASE FillZeros
  BY <1>5 DEF FillZeros, CopyInv, streamVars
<1>6. CASE CopyPiece
  <2>1. /\ LoopPos[active] \in Nat /\ LoopPos[active] <= Size[active]
        /\ basep = NoBase => tell = apos
    BY <1>6, PieceFacts DEF CopyInv, CopyPiece
  <2>2. CASE apos + SubCount = Size[active]
    <3>1. AfterEnd(SubCount) /\ active' = active /\ rt' = rt
      BY <1>6, <2>2 DEF CopyPiece
    <3>2. CASE basep = NoBase /\ WholeLoop(SubCount)
      <4>1. basep' = write_pos /\ apos' = LoopPos[active]
        BY <3>1, <3>2 DEF AfterEnd
      <4>2. /\ LoopPos[active] < Size[active]
            /\ write_pos + (Size[active] - LoopPos[active]) <= Buffer_Size
        BY <1>6, <3>2, PieceFacts DEF WholeLoop
      <4>3. basep' # NoBase /\ active \in Streams /\ rt = "copy"
        BY <1>6, <4>1, PieceFacts DEF NoBase, CopyPiece
      <4>4. QED
        BY <2>1, <3>1, <4>1, <4>2, <4>3 DEF CopyInv
    <3>3. CASE ~(basep = NoBase /\ WholeLoop(SubCount))
      BY <1>6, <2>1, <3>1, <3>3 DEF AfterEnd, CopyInv, CopyPiece
    <3>4. QED
      BY <3>2, <3>3
  <2>3. CASE apos + SubCount # Size[active]
    BY <1>6, <2>1, <2>3, PieceFacts DEF CopyInv, CopyPiece
  <2>4. QED
    BY <2>2, <2>3
<1>7. CASE FinishCopy
  BY <1>7 DEF FinishCopy, CopyInv
<1>8. QED
  BY <1>1, <1>2, <1>3, <1>4, <1>5, <1>6, <1>7 DEF Next, ReadThread
-----------------------------------------------------------------------------
(* A step of at most a chunk ends in the same chunk or in the next one.     *)
LEMMA StepsAChunk ==
  ASSUME NEW p \in Ring, NEW n \in 0..Chunk_Size, NEW j \in 0..3, InChunk(p, j)
  PROVE  \E i \in 0..3 : /\ InChunk((p + n) % Buffer_Size, i)
                         /\ i = j \/ j = Before(i)
<1>0. p \in Nat /\ n \in Nat /\ p + n < Buffer_Size + Buffer_Size
  BY ChunkFacts DEF Ring
<1>1. (p + n) % Buffer_Size = Wrapped(p + n)
  BY <1>0, Wraps
<1>. Start(j) <= p /\ p < Start(j) + Chunk_Size /\ n <= Chunk_Size
  BY ChunkFacts DEF InChunk
<1>2. CASE j \in 0..2
  <2>1. /\ Wrapped(p + n) = p + n
        /\ InChunk(p + n, j) \/ InChunk(p + n, j + 1)
    <3>1. CASE j = 0
      BY <1>0, <3>1, Starts, ChunkFacts DEF Wrapped, InChunk
    <3>2. CASE j = 1
      BY <1>0, <3>2, Starts, ChunkFacts DEF Wrapped, InChunk
    <3>3. CASE j = 2
      BY <1>0, <3>3, Starts, ChunkFacts DEF Wrapped, InChunk
    <3>4. QED
      BY <1>2, <3>1, <3>2, <3>3
  <2>2. j = Before(j + 1) /\ j + 1 \in 0..3
    BY <1>2 DEF Before
  <2>3. QED
    BY <1>1, <2>1, <2>2
<1>3. CASE j = 3
  <2>1. InChunk(Wrapped(p + n), 3) \/ InChunk(Wrapped(p + n), 0)
    BY <1>0, <1>3, Starts, ChunkFacts DEF Wrapped, InChunk
  <2>2. Before(0) = 3
    BY DEF Before
  <2>3. QED
    BY <1>1, <1>3, <2>1, <2>2
<1>4. QED
  BY <1>2, <1>3

LEMMA NextChunk ==
  TypeOK /\ OneTurn /\ CallInv /\ CopyInv /\ ChunkInv /\ Next => ChunkInv'
<1> SUFFICES ASSUME TypeOK, OneTurn, CallInv, CopyInv, ChunkInv, Next,
                    rt' # "failed"
             PROVE  ChunkInv'
  BY DEF ChunkInv
<1>0. rt # "failed"
  BY DEF Next, Caller, ReadThread, Construct, ConstructFails, get_buffer,
         NeedSync, Sync, advance, BufferNext, CallSetActive, set_active_stream,
         CallCleanup, cleanup, Joined, Terminated, vars, HandleExit,
         HandleNOP, HandleSetActive, HandleBufferNext, FillZeros, CopyPiece,
         FinishCopy, ReadThrows
<1> DEFINE Full(j, at) ==
      /\ InChunk(read_pos, j)
      /\ Wrapped(write_pos + Outstanding) = Start(at)
<1>1. PICK j \in 0..3 : Full(j, IF emu = "next" THEN Before(j) ELSE j)
  BY <1>0 DEF ChunkInv
<1>2. rt = "copy" /\ ~need_sync => count <= Chunk_Size
  BY <1>0 DEF ChunkInv
<1>3. ASSUME read_pos' = read_pos, write_pos' = write_pos, count' = count,
             Outstanding' = Outstanding, emu' = "next" <=> emu = "next",
             rt' = "copy" => rt = "copy", need_sync' = need_sync
      PROVE  ChunkInv'
  BY <1>1, <1>2, <1>3 DEF ChunkInv
<1>4. Wrapped(write_pos) = write_pos /\ write_pos \in Nat
  BY ChunkFacts DEF TypeOK, Wrapped, Ring
<1>5. ASSUME ack_sem > 0
      PROVE  command_sem = 0 /\ rt # "copy" /\ Outstanding = 0
  BY <1>5 DEF TypeOK, OneTurn, Busy, Outstanding, Pending
<1>6. CASE Construct
  <2>1. Outstanding' = Outstanding
    BY <1>6 DEF Construct, CallInv, Outstanding, Pending, Simple, Command
  <2>2. QED
    BY <1>3, <1>6, <2>1 DEF Construct, emuVars, copyVars
<1>7. CASE ConstructFails \/ get_buffer \/ NeedSync \/ CallSetActive
           \/ CallCleanup \/ Joined \/ Terminated
  <2>1. Outstanding' = Outstanding
    BY <1>7 DEF ConstructFails, get_buffer, NeedSync, CallSetActive,
                CallCleanup, Joined, Terminated, vars, emuVars, semVars,
                copyVars, Outstanding, Pending
  <2>2. QED
    BY <1>3, <1>7, <2>1
    DEF ConstructFails, get_buffer, NeedSync, CallSetActive, CallCleanup,
        Joined, Terminated, vars, emuVars, copyVars
<1>8. CASE Sync \/ cleanup
  <2>1. /\ Outstanding = 0 /\ rt' = rt /\ rt # "copy"
        /\ emu # "next" /\ emu' # "next"
        /\ read_pos' = read_pos /\ write_pos' = write_pos
    BY <1>5, <1>8 DEF Sync, cleanup, PostCommand, emuVars, copyVars
  <2>2. Outstanding' = 0
    BY <1>8, <2>1 DEF Sync, cleanup, PostCommand, Outstanding, Pending, Simple,
                 Command
  <2>3. QED
    BY <1>1, <2>1, <2>2 DEF ChunkInv
<1>9. CASE advance
  <2>1. PICK n \in Advances : read_pos' = (read_pos + n) % Buffer_Size
    BY <1>9 DEF advance
  <2>2. read_pos \in Ring /\ n \in 0..Chunk_Size
    BY AdvanceFact DEF TypeOK
  <2>3. PICK i \in 0..3 : InChunk(read_pos', i) /\ (i = j \/ j = Before(i))
    BY <1>1, <2>1, <2>2, StepsAChunk
  <2>4. read_pos' \in Ring
    BY <2>1, <2>2, Wraps, ChunkFacts DEF Ring
  <2>5. Bit(read_pos) = j % 2 /\ Bit(read_pos') = i % 2
    BY <1>1, <2>2, <2>3, <2>4, BitOf
  <2>6. emu = "run"
        /\ emu' = IF ChunkCrossed(read_pos, read_pos') THEN "next" ELSE "run"
    BY <1>9 DEF advance
  <2>7. j = IF emu' = "next" THEN Before(i) ELSE i
    BY <2>3, <2>5, <2>6 DEF ChunkCrossed, Before
  <2>8. /\ write_pos' = write_pos /\ Outstanding' = Outstanding
        /\ rt' = rt /\ need_sync' = need_sync /\ count' = count
    BY <1>9 DEF advance, semVars, copyVars, Outstanding, Pending
  <2>9. QED
    BY <1>1, <1>2, <2>3, <2>6, <2>7, <2>8 DEF ChunkInv
<1>10. CASE BufferNext
  <2>1. /\ Outstanding = 0 /\ rt' = rt /\ rt # "copy" /\ command_sem = 0
        /\ emu = "next" /\ emu' = "run"
        /\ read_pos' = read_pos /\ write_pos' = write_pos
    BY <1>5, <1>10 DEF BufferNext, PostCommand, emuVars, copyVars
  <2>2. Outstanding' = Chunk_Size
    <3>1. Pending("BufferNext")'
      BY <1>10, <2>1 DEF BufferNext, PostCommand, Pending, Simple, Command
    <3>2. QED
      BY <2>1, <3>1 DEF Outstanding
  <2>3. write_pos = Start(Before(j))
    BY <1>1, <1>4, <2>1
  <2>4. Wrapped(write_pos + Chunk_Size) = Start(j)
    BY <1>4, <2>3, Starts, ChunkFacts DEF Before, Wrapped
  <2>5. QED
    BY <1>1, <2>1, <2>2, <2>4 DEF ChunkInv
<1>11. CASE set_active_stream
  <2>1. /\ rt' = rt /\ rt # "copy" /\ emu' = "run"
        /\ read_pos' = 0 /\ write_pos' = 0
    BY <1>5, <1>11 DEF set_active_stream, PostCommand
  <2>2. Outstanding' = 0
    BY <1>11, <2>1 DEF set_active_stream, PostCommand, Outstanding, Pending,
                       Command
  <2>3. InChunk(0, 0) /\ Wrapped(0) = Start(0)
    BY Starts, ChunkFacts DEF InChunk, Wrapped
  <2>4. QED
    BY <2>1, <2>2, <2>3 DEF ChunkInv
<1>12. CASE HandleExit \/ HandleNOP
  <2>1. Outstanding = 0 /\ Outstanding' = 0
    BY <1>12 DEF HandleExit, HandleNOP, TakeCommand, Outstanding, Pending
  <2>2. QED
    BY <1>3, <1>12, <2>1 DEF HandleExit, HandleNOP, emuVars, copyVars
<1>13. CASE HandleSetActive
  <2>1. Pending("SetActive")
    BY <1>13 DEF HandleSetActive, TakeCommand, Pending, TypeOK
  <2>2. need_sync /\ read_pos = 0 /\ emu # "next"
    BY <2>1 DEF CallInv
  <2>3. Outstanding = 0
    BY <1>13, <2>1 DEF HandleSetActive, Outstanding, Pending
  <2>4. j = 0
    <3>1. Start(j) <= 0
      BY <1>1, <2>2 DEF InChunk
    <3>2. QED
      BY <3>1, Starts, ChunkFacts
  <2>5. write_pos = 0
    BY <1>1, <1>4, <2>2, <2>3, <2>4 DEF Start
  <2>6. pending.pzb \in 0..Buffer_Size
    BY DEF CallInv, CommandType
  <2>7. /\ write_pos' = Wrapped(pending.pzb)
        /\ Outstanding' = Buffer_Size - pending.pzb
    BY <1>13, <2>5, <2>6, ChunkFacts, Wraps DEF HandleSetActive, Outstanding
  <2>8. Wrapped(write_pos' + Outstanding') = 0
    BY <2>6, <2>7, ChunkFacts DEF Wrapped
  <2>9. read_pos' = 0 /\ need_sync' /\ emu' # "next"
    BY <1>13, <2>2 DEF HandleSetActive, emuVars
  <2>10. InChunk(0, 0) /\ Start(0) = 0
    BY ChunkFacts DEF InChunk, Start
  <2>11. QED
    BY <2>8, <2>9, <2>10 DEF ChunkInv
<1>14. CASE HandleBufferNext
  <2>1. Pending("BufferNext") /\ rt = "wait"
    BY <1>14 DEF HandleBufferNext, TakeCommand, Pending, TypeOK
  <2>2. Outstanding = Chunk_Size /\ Outstanding' = Chunk_Size
    BY <1>14, <2>1 DEF HandleBufferNext, Outstanding
  <2>3. /\ read_pos' = read_pos /\ write_pos' = write_pos /\ emu' = emu
        /\ count' = Chunk_Size
    BY <1>14 DEF HandleBufferNext, emuVars
  <2>4. QED
    BY <1>1, <2>2, <2>3, ChunkFacts DEF ChunkInv
<1>15. CASE FillZeros
  <2>1. count \in Nat /\ write_pos + count < Buffer_Size + Buffer_Size
    BY DEF TypeOK, Ring
  <2>2. write_pos' = Wrapped(write_pos + count)
    BY <1>4, <1>15, <2>1, Wraps DEF FillZeros
  <2>3. Outstanding = count /\ Outstanding' = 0 /\ count' = 0
    BY <1>15 DEF FillZeros, Outstanding
  <2>4. Wrapped(write_pos') = Wrapped(write_pos + count)
    BY <1>4, <2>1, <2>2, ChunkFacts DEF Wrapped
  <2>5. read_pos' = read_pos /\ emu' = emu
    BY <1>15 DEF FillZeros, emuVars
  <2>6. write_pos' \in Nat
    BY <1>4, <2>1, <2>2, ChunkFacts DEF Wrapped
  <2>7. QED
    BY <1>1, <2>3, <2>4, <2>5, <2>6, ChunkFacts DEF ChunkInv
<1>16. CASE CopyPiece
  <2>1. /\ write_pos' = Wrapped(write_pos + SubCount)
        /\ count' = count - SubCount
    BY <1>16, PieceWraps
  <2>2. Outstanding = count /\ Outstanding' = count'
    BY <1>16 DEF CopyPiece, Outstanding
  <2>3. Wrapped(write_pos' + count') = Wrapped(write_pos + count)
    <3>1. /\ SubCount \in Nat /\ count \in Nat /\ SubCount <= count
          /\ write_pos + SubCount <= Buffer_Size /\ count <= Buffer_Size
      BY <1>16, PieceFacts DEF TypeOK
    <3>2. QED
      BY <1>4, <2>1, <3>1, ChunkFacts DEF Wrapped
  <2>4. /\ read_pos' = read_pos /\ emu' = emu /\ rt = "copy"
        /\ need_sync' = need_sync
    BY <1>16 DEF CopyPiece, emuVars
  <2>5. ~need_sync' => count' <= Chunk_Size
    BY <1>2, <1>16, <2>1, <2>4, PieceFacts, ChunkFacts
  <2>6. QED
    BY <1>1, <2>2, <2>3, <2>4, <2>5 DEF ChunkInv
<1>17. CASE FinishCopy
  <2>1. command_sem = 0 /\ command_sem' = 0
    BY <1>17 DEF FinishCopy, TypeOK, OneTurn, Busy
  <2>2. Outstanding = 0 /\ Outstanding' = 0
    BY <1>17, <2>1 DEF FinishCopy, Outstanding, Pending
  <2>3. QED
    BY <1>3, <1>17, <2>2 DEF FinishCopy, emuVars
<1>18. CASE ReadThrows
  BY <1>18 DEF ReadThrows
<1>19. QED
  BY <1>6, <1>7, <1>8, <1>9, <1>10, <1>11, <1>12, <1>13, <1>14, <1>15, <1>16,
     <1>17, <1>18 DEF Next, Caller, ReadThread
-----------------------------------------------------------------------------
(* The invariant is kept.                                                   *)
THEOREM Invariance == Spec => []IInv
<1>1. IInv /\ [Next]_vars => IInv'
  <2> SUFFICES ASSUME IInv, [Next]_vars PROVE IInv'
    OBVIOUS
  <2>1. CASE Next
    <3>1. TypeOK /\ OneTurn /\ CallInv /\ CopyInv /\ ChunkInv
      BY DEF IInv
    <3>2. OneTurn' /\ CallInv' /\ CopyInv' /\ ChunkInv'
      BY <2>1, <3>1, NextTurn, NextCall, NextCopy, NextChunk
    <3>3. TypeOK'
      BY <2>1, <3>1, <3>2, NextTypeOK
    <3>4. QED
      BY <3>2, <3>3 DEF IInv
  <2>2. CASE UNCHANGED vars
    BY <2>2 DEF vars, emuVars, semVars, streamVars, copyVars, IInv, TypeOK,
                OneTurn, Busy, CallInv, Pending, CopyInv, ChunkInv, Outstanding
  <2>3. QED
    BY <2>1, <2>2
<1>2. QED
  BY <1>1, InitIInv, PTL DEF Spec

(* Whatever the streams and the size of the buffer, positions stay inside   *)
(* the stream and the buffer they index.                                    *)
THEOREM TypeCorrect == Spec => []TypeOK
<1>1. IInv => TypeOK
  BY DEF IInv
<1>2. QED
  BY <1>1, Invariance, PTL

(* The caller and the read thread take turns.                               *)
THEOREM TurnsAreTaken == Spec => []OneTurn
<1>1. IInv => OneTurn
  BY DEF IInv
<1>2. QED
  BY <1>1, Invariance, PTL

(* With chunks of a quarter of the buffer and a look-ahead of no more than  *)
(* a chunk, whatever the caller may look at has been written.               *)
THEOREM NothingRefilledInSight == Spec => []RefillOutOfSight
<1>1. IInv => RefillOutOfSight
  <2> SUFFICES ASSUME IInv, rt = "copy", ~need_sync,
                      NEW k \in 0 .. Overbuffer_Count - 1
               PROVE  (read_pos + k - write_pos) % Buffer_Size >= count
    BY DEF RefillOutOfSight
  <2>1. PICK j \in 0..3 :
          /\ InChunk(read_pos, j)
          /\ Wrapped(write_pos + count)
               = Start(IF emu = "next" THEN Before(j) ELSE j)
    BY DEF IInv, ChunkInv, Outstanding
  <2>2. /\ count \in Nat /\ count <= Chunk_Size
        /\ read_pos \in Nat /\ read_pos < Buffer_Size
        /\ write_pos \in Nat /\ write_pos < Buffer_Size
        /\ k \in Nat /\ k < Chunk_Size
    BY ChunkFacts DEF IInv, TypeOK, ChunkInv, Ring
  <2> DEFINE D == read_pos + k - write_pos
  <2> DEFINE End == Wrapped(write_pos + count)
  <2>3. /\ Start(j) <= read_pos /\ read_pos < Start(j) + Chunk_Size
        /\ End = Start(j) \/ End = Start(Before(j))
    BY <2>1 DEF InChunk
  <2>4. /\ End \in Nat
        /\ End = write_pos + count \/ End = write_pos + count - Buffer_Size
    BY <2>2, ChunkFacts DEF Wrapped
  <2>5. \/ read_pos >= End /\ read_pos - End < Chunk_Size + Chunk_Size
        \/ /\ read_pos + Buffer_Size >= End /\ read_pos < Chunk_Size
           /\ End = Chunk_Size + Chunk_Size + Chunk_Size
    BY <2>2, <2>3, <2>4, Starts, ChunkFacts DEF Before
  <2>6. \/ D >= count /\ D < Buffer_Size
        \/ D + Buffer_Size >= count /\ D < 0 /\ D + Buffer_Size >= 0
    BY <2>2, <2>4, <2>5, ChunkFacts
  <2>7. D \in Int /\ Buffer_Size \in Nat /\ Buffer_Size > 0
    BY <2>2
  <2> HIDE DEF D
  <2>8. CASE D >= count /\ D < Buffer_Size
    BY ONLY <2>2, <2>7, <2>8 DEF D
  <2>9. CASE D + Buffer_Size >= count /\ D < 0 /\ D + Buffer_Size >= 0
    BY ONLY <2>2, <2>7, <2>9 DEF D
  <2>10. QED
    BY <2>6, <2>8, <2>9
<1>2. QED
  BY <1>1, Invariance, PTL
-----------------------------------------------------------------------------
(* What the caller sees is the looped stream.                               *)
(* The byte k bytes after the next one, for a caller's position c.          *)
AheadOf(c, k) ==
  IF k < c.lead THEN Zero
  ELSE ByteAt(c.which, LoopedPos(c.which, c.pos + (k - c.lead)))

Copying == rt \in {"copy", "failed"}
Left == IF Copying THEN count
        ELSE IF Pending("BufferNext") THEN Chunk_Size ELSE 0
Owed == IF emu = "next" THEN Chunk_Size ELSE 0
Settled == caller.which # NoStream /\ ~Pending("SetActive")

(* A stream chosen is the stream the caller reads from.                     *)
AskedInv ==
  /\ Pending("SetActive") =>
       caller = [which |-> pending.which, lead |-> pending.pzb,
                 pos |-> LoopedPos(pending.which, pending.skip)]
  /\ rt = "failed" => command_sem = 0 /\ ack_sem = 0

(* From the caller's position on, and as far as the thread has got, the     *)
(* ring has the bytes promised; the stream stands where they end.  What is  *)
(* left to write ends with the chunk before the caller's.                   *)
Holds(ahead) ==
  \A k \in 0 .. ahead - 1 : buffer[Wrapped(read_pos + k)] = AheadOf(caller, k)
Reached(ahead, j) ==
  /\ InChunk(read_pos, j)
  /\ ahead + Left = Buffer_Size + Start(j) - read_pos - Owed
  /\ caller.lead <= ahead
  /\ write_pos = Wrapped(read_pos + ahead)
  /\ apos = LoopedPos(active, caller.pos + (ahead - caller.lead))
Filled == \E j \in 0..3 : \E ahead \in 0..Buffer_Size :
             Reached(ahead, j) /\ Holds(ahead)
RingInv ==
  Settled =>
    /\ active = caller.which /\ caller.lead \in Nat
    /\ caller.pos \in 0..Size[active]
    /\ Filled
    /\ Copying /\ ~need_sync => count <= Chunk_Size

(* The bytes behind the ring are those at its beginning, unless these are   *)
(* being written.                                                           *)
TailInv ==
  \/ Copying /\ (need_sync \/ Wrapped(write_pos + count) = Chunk_Size)
  \/ \A i \in 0 .. Overbuffer_Count - 1 : buffer[Buffer_Size + i] = buffer[i]

(* A loop found in the buffer is the stream's, and stays clear of what is   *)
(* to be written.                                                           *)
Onward == IF basep >= write_pos THEN basep - write_pos
          ELSE basep - write_pos + Buffer_Size
LoopLength == Size[active] - LoopPos[active]
BaseInv ==
  rt = "copy" /\ basep # NoBase =>
    /\ apos < Size[active]
    /\ \A q \in 0 .. LoopLength - 1 :
         buffer[basep + q] = ByteAt(active, LoopPos[active] + q)
    /\ Onward >= count /\ Onward + LoopLength <= Buffer_Size

DataInv == AskedInv /\ RingInv /\ TailInv /\ BaseInv
-----------------------------------------------------------------------------
LEMMA PromisedAhead ==
  ASSUME NEW k PROVE Promise!Ahead(k) = AheadOf(caller, k)
  BY Zenon DEF Promise!Ahead, Promise!ByteAt, Promise!LoopedPos, Promise!Zero,
    Promise!NoStream, AheadOf, ByteAt, LoopedPos, Zero, NoStream

(* A remainder is determined by what it leaves.                             *)
LEMMA RemainderUnique ==
  ASSUME NEW d \in Nat, d > 0, NEW k \in Int, NEW t \in Nat, t < d
  PROVE  (k * d + t) % d = t
<1> DEFINE z == k * d + t
<1>1. z \in Int /\ z = d * (z \div d) + (z % d) /\ z % d \in Nat /\ z % d < d
  OBVIOUS
<1>2. z \div d = k
  <2> DEFINE m == k - (z \div d)
  <2>1. m \in Int /\ m * d = (z % d) - t
    BY <1>1
  <2>2. CASE m >= 1
    <3>1. m * d >= d
      BY <2>1, <2>2
    <3>2. QED
      BY <1>1, <2>1, <3>1
  <2>3. CASE m <= -1
    <3>1. m * d <= -d
      BY <2>1, <2>3
    <3>2. QED
      BY <1>1, <2>1, <3>1
  <2>4. QED
    BY <1>1, <2>1, <2>2, <2>3
<1>3. QED
  BY <1>1, <1>2

LEMMA RemainderOnward ==
  ASSUME NEW d \in Nat, d > 0, NEW x \in Nat, NEW b \in Nat
  PROVE  ((x % d) + b) % d = (x + b) % d
<1> DEFINE y == (x % d) + b
           q == x \div d
           p == y \div d
           t == y % d
<1>1. x % d \in Nat /\ y \in Nat /\ q \in Int /\ x = d * q + (x % d)
  OBVIOUS
<1>2. p \in Int /\ t \in Nat /\ t < d /\ y = d * p + t
  BY <1>1
<1>3. x + b = (q + p) * d + t
  BY <1>1, <1>2
<1>4. q + p \in Int
  BY <1>1, <1>2
<1>5. ((q + p) * d + t) % d = t
  <2> HIDE DEF p, q, t
  <2>1. QED
    BY <1>2, <1>4, RemainderUnique
<1>6. QED
  BY <1>3, <1>5

LEMMA StreamFacts ==
  ASSUME NEW s \in Streams
  PROVE  /\ Size[s] \in Nat /\ LoopPos[s] \in Nat /\ LoopPos[s] <= Size[s]
         /\ s # NoStream
  BY DEF NoStream

LEMMA LoopedIn ==
  ASSUME NEW s \in Streams, NEW n \in Nat, ~(n < Size[s]), LoopPos[s] # Size[s]
  PROVE  LoopedPos(s, n)
           = LoopPos[s] + ((n - LoopPos[s]) % (Size[s] - LoopPos[s]))
  BY Zenon DEF LoopedPos

(* To go on from where one has come to is to go on from the start.          *)
LEMMA LoopedOnward ==
  ASSUME NEW s \in Streams, NEW a \in Nat, NEW b \in Nat
  PROVE  /\ LoopedPos(s, a) \in 0..Size[s]
         /\ LoopedPos(s, a) = Size[s] <=> (LoopPos[s] = Size[s] /\ a >= Size[s])
         /\ LoopedPos(s, LoopedPos(s, a) + b) = LoopedPos(s, a + b)
<1> DEFINE S == Size[s]
           L == LoopPos[s]
<1>1. S \in Nat /\ L \in Nat /\ L <= S
  BY StreamFacts
<1>2. CASE a < S
  <2>1. LoopedPos(s, a) = a
    BY <1>2 DEF LoopedPos
  <2>2. QED
    BY <1>1, <1>2, <2>1
<1>3. CASE a >= S /\ L = S
  <2>1. LoopedPos(s, a) = S
    BY <1>1, <1>3 DEF LoopedPos
  <2>2. LoopedPos(s, S + b) = S /\ LoopedPos(s, a + b) = S
    BY <1>1, <1>3 DEF LoopedPos
  <2>3. QED
    BY <1>1, <1>3, <2>1, <2>2
<1>4. CASE a >= S /\ L # S
  <2> DEFINE d == S - L
             x == a - L
             r == x % d
  <2>1. d \in Nat /\ d > 0 /\ x \in Nat
    BY <1>1, <1>4
  <2>2. r \in Nat /\ r < d
    BY <2>1
  <2>3. LoopedPos(s, a) = L + r
    BY <1>1, <1>4 DEF LoopedPos
  <2>4. L + r < S /\ L + r \in Nat
    BY <1>1, <2>1, <2>2
  <2>5. (r + b) % d = (x + b) % d
    <3> HIDE DEF d, x
    <3>1. QED
      BY <2>1, RemainderOnward
  <2>6. LoopedPos(s, a + b) = L + ((x + b) % d)
    <3>1. LoopedPos(s, a + b) = L + ((a + b - L) % d)
      BY <1>1, <1>4 DEF LoopedPos
    <3>2. a + b - L = x + b
      BY <1>1
    <3>3. QED
      BY <3>1, <3>2
  <2>7. LoopedPos(s, L + r + b) = L + ((r + b) % d)
    <3> HIDE DEF r
    <3>1. CASE r + b < d
      <4>1. (r + b) % d = r + b
        <5> HIDE DEF d
        <5>1. QED
          BY <2>1, <2>2, <3>1
      <4>2. L + r + b < S
        BY <1>1, <2>2, <3>1
      <4>3. QED
        BY <1>1, <2>2, <4>1, <4>2 DEF LoopedPos
    <3>2. CASE r + b >= d
      <4>1. ~(L + r + b < S) /\ (L + r + b) - L = r + b
        BY <1>1, <2>2, <3>2
      <4>2. LoopedPos(s, L + r + b) = L + (((L + r + b) - L) % d)
        <5>1. L + r + b \in Nat
          BY <1>1, <2>2
        <5>2. QED
          BY <1>4, <4>1, <5>1, LoopedIn
      <4>3. QED
        BY ONLY <4>1, <4>2
    <3>3. QED
      BY <2>1, <2>2, <3>1, <3>2
  <2>8. LoopedPos(s, LoopedPos(s, a) + b) = LoopedPos(s, a + b)
    BY <2>3, <2>5, <2>6, <2>7
  <2>9. QED
    BY <1>1, <1>4, <2>3, <2>4, <2>8
<1>5. QED
  BY <1>1, <1>2, <1>3, <1>4

LEMMA StartIsLooped ==
  ASSUME NEW s \in Streams, NEW skip \in Nat
  PROVE  StartPos(s, skip) = LoopedPos(s, skip)
  BY StreamFacts DEF StartPos, LoopedPos, SmallerOf

(* What is consumed comes off the front.                                    *)
LEMMA ConsumedAhead ==
  ASSUME NEW c \in CallerType, c.which \in Streams, c.lead \in Nat, c.pos \in Nat,
         NEW n \in Nat, NEW k \in Nat
  PROVE  /\ AheadOf(Consumed(c, n), k) = AheadOf(c, n + k)
         /\ Consumed(c, n).which = c.which /\ Consumed(c, n).lead \in Nat
         /\ c.pos <= Size[c.which] => Consumed(c, n).pos \in 0..Size[c.which]
         /\ n + k >= c.lead =>
              /\ k >= Consumed(c, n).lead
              /\ LoopedPos(c.which, Consumed(c, n).pos + (k - Consumed(c, n).lead))
                   = LoopedPos(c.which, c.pos + (n + k - c.lead))
<1>1. CASE n <= c.lead
  <2>1. Consumed(c, n) = [c EXCEPT !.lead = @ - n]
    BY <1>1 DEF Consumed
  <2>2. /\ Consumed(c, n).lead = c.lead - n /\ Consumed(c, n).pos = c.pos
        /\ Consumed(c, n).which = c.which
    BY <2>1 DEF CallerType
  <2>3. k - (c.lead - n) = n + k - c.lead /\ (k < c.lead - n <=> n + k < c.lead)
    OBVIOUS
  <2>4. AheadOf(Consumed(c, n), k) = AheadOf(c, n + k)
    BY <2>2, <2>3 DEF AheadOf
  <2>5. QED
    BY <1>1, <2>2, <2>3, <2>4
<1>2. CASE ~(n <= c.lead)
  <2> DEFINE from == c.pos + (n - c.lead)
  <2>1. from \in Nat
    BY <1>2
  <2>2. /\ Consumed(c, n).lead = 0 /\ Consumed(c, n).which = c.which
        /\ Consumed(c, n).pos = LoopedPos(c.which, from)
    BY <1>2 DEF Consumed
  <2>3. /\ LoopedPos(c.which, from) \in 0..Size[c.which]
        /\ LoopedPos(c.which, LoopedPos(c.which, from) + k)
             = LoopedPos(c.which, from + k)
    <3> HIDE DEF from
    <3>1. c.which \in Streams /\ k \in Nat
      OBVIOUS
    <3>2. QED
      BY ONLY <2>1, <3>1, LoopedOnward
  <2>4. from + k = c.pos + (n + k - c.lead) /\ k - 0 = k /\ ~(k < 0)
    BY <1>2
  <2>5. ~(n + k < c.lead)
    BY <1>2
  <2>6. AheadOf(Consumed(c, n), k)
          = ByteAt(c.which, LoopedPos(c.which, LoopedPos(c.which, from) + k))
    BY <2>2, <2>4 DEF AheadOf
  <2>7. AheadOf(c, n + k)
          = ByteAt(c.which, LoopedPos(c.which, c.pos + (n + k - c.lead)))
    BY <2>5 DEF AheadOf
  <2>8. QED
    BY <2>2, <2>3, <2>4, <2>5, <2>6, <2>7
<1>3. QED
  BY <1>1, <1>2
-----------------------------------------------------------------------------
LEMMA NextAsked ==
  TypeOK /\ OneTurn /\ CallInv /\ AskedInv /\ Next => AskedInv'
<1> SUFFICES ASSUME TypeOK, OneTurn, CallInv, AskedInv, Next PROVE AskedInv'
  OBVIOUS
<1> USE DEF TypeOK, OneTurn, Busy, AskedInv, Pending
<1>1. CASE Construct \/ Sync \/ BufferNext \/ cleanup
  <2>1. pending'.command # "SetActive" /\ rt' = rt /\ rt # "failed"
    BY <1>1 DEF Construct, Sync, BufferNext, cleanup, PostCommand, Simple,
                Command, CallInv
  <2>2. QED
    BY <2>1
<1>2. CASE ConstructFails \/ get_buffer \/ NeedSync \/ CallSetActive
           \/ CallCleanup \/ Joined \/ Terminated
  BY <1>2 DEF ConstructFails, get_buffer, NeedSync, CallSetActive,
              CallCleanup, Joined, Terminated, vars, emuVars, semVars
<1>3. CASE advance
  BY <1>3 DEF advance, CallInv, semVars
<1>4. CASE set_active_stream
  <2>1. PICK w \in Streams, skip \in Skips, pzb \in Leads :
          /\ PostCommand(Command("SetActive", w, skip, pzb))
          /\ caller' = [which |-> w, lead |-> pzb, pos |-> LoopedPos(w, skip)]
    BY <1>4 DEF set_active_stream
  <2>2. /\ pending'.which = w /\ pending'.skip = skip /\ pending'.pzb = pzb
        /\ rt' = rt /\ rt # "failed"
    BY <1>4, <2>1 DEF set_active_stream, PostCommand, Command
  <2>3. QED
    BY <2>1, <2>2
<1>5. CASE HandleExit \/ HandleNOP \/ HandleSetActive \/ HandleBufferNext
  <2>1. command_sem' = 0 /\ rt' # "failed"
    BY <1>5 DEF HandleExit, HandleNOP, HandleSetActive, HandleBufferNext,
                TakeCommand
  <2>2. QED
    BY <2>1
<1>6. CASE FillZeros \/ CopyPiece \/ ReadThrows
  <2>1. /\ rt = "copy" /\ command_sem' = command_sem /\ ack_sem' = ack_sem
        /\ command_sem = 0 /\ ack_sem = 0
    BY <1>6 DEF FillZeros, CopyPiece, ReadThrows, semVars
  <2>2. QED
    BY <2>1
<1>7. CASE FinishCopy
  BY <1>7 DEF FinishCopy
<1>8. QED
  BY <1>1, <1>2, <1>3, <1>4, <1>5, <1>6, <1>7 DEF Next, Caller, ReadThread

(* A call that waits for the acknowledgement finds the thread at rest.      *)
LEMMA AckedAtRest ==
  ASSUME TypeOK, OneTurn, AskedInv, ack_sem > 0
  PROVE  ~Copying /\ command_sem = 0 /\ Left = 0
  BY DEF TypeOK, OneTurn, Busy, AskedInv, Copying, Left, Pending

LEMMA CalmCaller ==
  ASSUME ConstructFails \/ get_buffer \/ NeedSync \/ CallSetActive
         \/ CallCleanup \/ Joined \/ Terminated
  PROVE  /\ UNCHANGED <<need_sync, read_pos, caller, pending, semVars, rt,
                        streamVars, copyVars>>
         /\ emu' = emu \/ (emu # "next" /\ emu' # "next")
  BY DEF ConstructFails, get_buffer, NeedSync, CallSetActive, CallCleanup,
         Joined, Terminated, vars, emuVars

(* A piece ends where what is asked for ends.                               *)
LEMMA PieceEnds ==
  ASSUME TypeOK, CopyInv, CopyPiece
  PROVE  Wrapped(write_pos' + count') = Wrapped(write_pos + count)
<1>1. /\ SubCount \in Nat /\ count \in Nat /\ SubCount <= count
      /\ write_pos + SubCount <= Buffer_Size /\ count <= Buffer_Size
      /\ write_pos \in Nat /\ SubCount > 0
  BY PieceFacts DEF TypeOK
<1>2. write_pos' = Wrapped(write_pos + SubCount) /\ count' = count - SubCount
  BY PieceWraps
<1>3. CASE write_pos + SubCount < Buffer_Size
  <2>1. write_pos' = write_pos + SubCount
    BY <1>1, <1>2, <1>3 DEF Wrapped
  <2>2. write_pos' + count' = write_pos + count
    BY ONLY <1>1, <1>2, <2>1
  <2>3. QED
    BY <2>2
<1>4. CASE write_pos + SubCount = Buffer_Size
  <2>1. write_pos' = 0
    BY <1>1, <1>2, <1>4 DEF Wrapped
  <2>2. QED
    BY <1>1, <1>2, <1>4, <2>1 DEF Wrapped
<1>5. QED
  BY <1>1, <1>3, <1>4

LEMMA OverbufferedAt ==
  ASSUME NEW b \in [Places -> Byte]
  PROVE  /\ \A i \in Ring : Overbuffered(b)[i] = b[i]
         /\ \A i \in 0 .. Overbuffer_Count - 1 :
              Overbuffered(b)[Buffer_Size + i] = Overbuffered(b)[i]
<1>1. ASSUME NEW i \in Ring PROVE i \in Places /\ i < Buffer_Size
  BY DEF Ring, Places
<1>2. ASSUME NEW i \in 0 .. Overbuffer_Count - 1
      PROVE  /\ i \in Ring /\ Buffer_Size + i \in Places
             /\ ~(Buffer_Size + i < Buffer_Size)
             /\ (Buffer_Size + i) - Buffer_Size = i
  BY ChunkFacts DEF Ring, Places
<1>3. ASSUME NEW i \in Ring PROVE Overbuffered(b)[i] = b[i]
  BY <1>1, <1>3 DEF Overbuffered
<1>4. ASSUME NEW i \in 0 .. Overbuffer_Count - 1
      PROVE  Overbuffered(b)[Buffer_Size + i] = Overbuffered(b)[i]
  <2>1. Overbuffered(b)[Buffer_Size + i] = b[(Buffer_Size + i) - Buffer_Size]
    BY <1>2 DEF Overbuffered
  <2>2. QED
    BY <1>2, <1>3, <2>1
<1>5. QED
  BY <1>3, <1>4

(* The bytes behind the ring.                                               *)
LEMMA NextTail ==
  TypeOK /\ OneTurn /\ CallInv /\ CopyInv /\ ChunkInv /\ AskedInv /\ TailInv
    /\ Next => TailInv'
<1> SUFFICES ASSUME TypeOK, OneTurn, CallInv, CopyInv, ChunkInv, AskedInv,
                    TailInv, Next
             PROVE  TailInv'
  OBVIOUS
<1> DEFINE Repeats == \A i \in 0 .. Overbuffer_Count - 1 :
                         buffer[Buffer_Size + i] = buffer[i]
<1>1. ASSUME NEW b \in [Places -> Byte], buffer' = Overbuffered(b)
      PROVE  TailInv'
  BY <1>1, OverbufferedAt, Zenon DEF TailInv
<1>2. ~Copying => Repeats
  BY DEF TailInv
<1>3. Repeats /\ buffer' = buffer => TailInv'
  BY DEF TailInv
<1>4. CASE Sync \/ BufferNext \/ set_active_stream \/ cleanup
  <2>1. ack_sem > 0 /\ buffer' = buffer
    BY <1>4 DEF Sync, BufferNext, set_active_stream, cleanup, PostCommand,
                copyVars
  <2>2. QED
    BY <1>2, <1>3, <2>1, AckedAtRest
<1>5. CASE Construct \/ advance \/ ReadThrows \/ ConstructFails \/ get_buffer
           \/ NeedSync \/ CallSetActive \/ CallCleanup \/ Joined \/ Terminated
  <2>1. /\ buffer' = buffer /\ need_sync' = need_sync /\ write_pos' = write_pos
        /\ count' = count /\ Copying' = Copying
    BY <1>5, CalmCaller
    DEF Construct, advance, ReadThrows, emuVars, copyVars, Copying
  <2>2. QED
    BY <2>1 DEF TailInv
<1>6. CASE HandleExit \/ HandleNOP \/ HandleBufferNext
  <2>1. ~Copying /\ buffer' = buffer
    BY <1>6 DEF HandleExit, HandleNOP, HandleBufferNext, Copying, copyVars
  <2>2. QED
    BY <1>2, <1>3, <2>1
<1>7. CASE HandleSetActive
  <2>1. Zeroed(write_pos, pending.pzb) \in [Places -> Byte]
    BY ZeroedTyped DEF TypeOK
  <2>2. QED
    BY <1>1, <1>7, <2>1 DEF HandleSetActive
<1>8. CASE FillZeros
  <2>1. Zeroed(write_pos, count) \in [Places -> Byte]
    BY ZeroedTyped DEF TypeOK
  <2>2. QED
    BY <1>1, <1>8, <2>1 DEF FillZeros
<1>9. CASE FinishCopy
  BY <1>1, <1>9 DEF FinishCopy, TypeOK
<1>10. CASE CopyPiece
  <2>1. rt = "copy" /\ rt' = rt /\ need_sync' = need_sync
    BY <1>10 DEF CopyPiece, emuVars
  <2>2. CASE need_sync \/ Wrapped(write_pos + count) = Chunk_Size
    <3>1. need_sync' \/ Wrapped(write_pos' + count') = Chunk_Size
      BY <1>10, <2>1, <2>2, PieceEnds
    <3>2. Copying'
      BY <2>1 DEF Copying
    <3>3. QED
      BY <3>1, <3>2 DEF TailInv
  <2>3. CASE ~need_sync /\ Wrapped(write_pos + count) # Chunk_Size
    <3>1. Repeats
      BY <2>3 DEF TailInv
    <3>2. PICK i \in 0..3 : Wrapped(write_pos + count) = Start(i)
      BY <2>1 DEF ChunkInv, Outstanding, Before
    <3>3. count <= Chunk_Size /\ count > 0 /\ count \in Nat /\ write_pos \in Nat
          /\ write_pos < Buffer_Size
      BY <1>10, <2>1, <2>3 DEF ChunkInv, CopyPiece, TypeOK, Ring
    <3>4. write_pos >= Chunk_Size
      <4>1. CASE i = 0
        BY <3>2, <3>3, <4>1, Starts, ChunkFacts DEF Wrapped
      <4>2. CASE i = 1
        BY <2>3, <3>2, <4>2, Starts
      <4>3. CASE i = 2
        BY <3>2, <3>3, <4>3, Starts, ChunkFacts DEF Wrapped
      <4>4. CASE i = 3
        BY <3>2, <3>3, <4>4, Starts, ChunkFacts DEF Wrapped
      <4>5. QED
        BY <4>1, <4>2, <4>3, <4>4
    <3>5. ASSUME NEW p \in Places, p \notin write_pos .. write_pos + SubCount - 1
          PROVE  buffer'[p] = buffer[p]
      BY <1>10, <3>5 DEF CopyPiece
    <3>6. ASSUME NEW q \in 0 .. Overbuffer_Count - 1
          PROVE  buffer'[Buffer_Size + q] = buffer'[q]
      <4>1. /\ q \in Places /\ Buffer_Size + q \in Places
            /\ q < Chunk_Size
        BY ChunkFacts DEF Places
      <4>2. SubCount \in Nat /\ write_pos + SubCount <= Buffer_Size
        BY <1>10, PieceFacts
      <4>3. /\ q \notin write_pos .. write_pos + SubCount - 1
            /\ Buffer_Size + q \notin write_pos .. write_pos + SubCount - 1
        BY <3>3, <3>4, <4>1, <4>2, ChunkFacts
      <4>4. QED
        BY <3>1, <3>5, <4>1, <4>3
    <3>7. QED
      BY <3>6 DEF TailInv
  <2>4. QED
    BY <2>2, <2>3
<1>11. QED
  BY <1>4, <1>5, <1>6, <1>7, <1>8, <1>9, <1>10 DEF Next, Caller, ReadThread

(* A piece is read from where the stream stands.                            *)
LEMMA SourceIs ==
  ASSUME TypeOK, CopyInv, BaseInv, CopyPiece, NEW k \in 0 .. SubCount - 1
  PROVE  SourceByte(k) = ByteAt(active, apos + k)
<1>1. CASE basep = NoBase
  BY <1>1 DEF SourceByte, CopyInv, CopyPiece
<1>2. CASE basep # NoBase
  <2>1. rt = "copy" /\ LoopPos[active] \in Nat /\ LoopPos[active] <= apos
    BY <1>2, PieceFacts DEF CopyInv, CopyPiece
  <2> DEFINE q == (apos - LoopPos[active]) + k
  <2>2. q \in 0 .. LoopLength - 1 /\ LoopPos[active] + q = apos + k
    BY <2>1, PieceFacts DEF LoopLength
  <2>3. basep \in Int
    BY DEF TypeOK, Ring, NoBase
  <2>4. basep + (apos - LoopPos[active]) + k = basep + q
    BY <2>1, <2>3, PieceFacts
  <2>5. buffer[basep + q] = ByteAt(active, LoopPos[active] + q)
    <3> HIDE DEF q
    <3>1. QED
      BY <1>2, <2>1, <2>2 DEF BaseInv
  <2>6. QED
    BY <1>2, <2>2, <2>4, <2>5 DEF SourceByte
<1>3. QED
  BY <1>1, <1>2

(* A loop found stays whole.                                                *)
LEMMA NextBase ==
  TypeOK /\ OneTurn /\ CallInv /\ CopyInv /\ AskedInv /\ BaseInv /\ Next
    => BaseInv'
<1> SUFFICES ASSUME TypeOK, OneTurn, CallInv, CopyInv, AskedInv, BaseInv, Next,
                    rt' = "copy", basep' # NoBase
             PROVE  BaseInv'
  BY DEF BaseInv
<1>1. ASSUME UNCHANGED <<rt, streamVars, copyVars>> PROVE BaseInv'
  BY <1>1 DEF BaseInv, Onward, LoopLength, streamVars, copyVars
<1>2. CASE Construct \/ advance \/ ConstructFails \/ get_buffer
           \/ NeedSync \/ CallSetActive \/ CallCleanup \/ Joined \/ Terminated
           \/ Sync \/ BufferNext \/ cleanup
  BY <1>1, <1>2, CalmCaller DEF Construct, advance, Sync, BufferNext, cleanup
<1>3. CASE set_active_stream
  BY <1>3, AckedAtRest DEF set_active_stream, PostCommand, Copying
<1>4. CASE HandleExit \/ HandleNOP \/ HandleSetActive \/ HandleBufferNext
           \/ FinishCopy \/ ReadThrows
  BY <1>4 DEF HandleExit, HandleNOP, HandleSetActive, HandleBufferNext,
              FinishCopy, ReadThrows
<1>5. CASE FillZeros
  BY <1>5 DEF FillZeros, BaseInv, TypeOK
<1>6. CASE CopyPiece
  <2> DEFINE n == SubCount
  <2>1. /\ active \in Streams /\ active' = active /\ LoopPos[active] \in Nat
        /\ Size[active] \in Nat /\ apos \in Nat /\ write_pos \in Nat
        /\ n \in Nat /\ n > 0 /\ n <= count /\ count \in Nat
        /\ write_pos + n <= Buffer_Size /\ apos + n <= Size[active]
        /\ count <= Buffer_Size /\ rt = "copy"
    BY <1>6, PieceFacts DEF CopyPiece, TypeOK
  <2>2. write_pos' = Wrapped(write_pos + n) /\ count' = count - n
    BY <1>6, PieceWraps
  <2>3. apos' = IF apos + n = Size[active] THEN LoopPos[active] ELSE apos + n
    BY <1>6 DEF CopyPiece, AfterEnd
  <2>4. LoopLength' = LoopLength /\ LoopLength = Size[active] - LoopPos[active]
    BY <2>1 DEF LoopLength
  <2>5. ASSUME NEW p \in Places, p \notin write_pos .. write_pos + n - 1
        PROVE  buffer'[p] = buffer[p]
    BY <1>6, <2>5 DEF CopyPiece
  <2>6. ASSUME NEW k \in 0 .. n - 1
        PROVE  buffer'[write_pos + k] = ByteAt(active, apos + k)
    <3>1. /\ write_pos + k \in Places
          /\ write_pos + k \in write_pos .. write_pos + n - 1
          /\ (write_pos + k) - write_pos = k
      BY <2>1 DEF Places
    <3>2. buffer'[write_pos + k] = SourceByte((write_pos + k) - write_pos)
      BY <1>6, <3>1 DEF CopyPiece
    <3>3. QED
      BY <1>6, <3>1, <3>2, SourceIs
  <2>7. CASE basep = NoBase
    <3>1. /\ apos + n = Size[active] /\ WholeLoop(n) /\ basep' = write_pos
      BY <1>6, <2>7 DEF CopyPiece, AfterEnd
    <3>2. /\ LoopPos[active] < Size[active] /\ LoopLength = n
          /\ apos = LoopPos[active]
      BY <2>1, <2>4, <3>1 DEF WholeLoop
    <3>3. apos' < Size[active']
      BY <2>1, <2>3, <3>1, <3>2
    <3>4. ASSUME NEW q \in 0 .. LoopLength' - 1
          PROVE  buffer'[basep' + q] = ByteAt(active', LoopPos[active'] + q)
      BY <2>1, <2>4, <2>6, <3>1, <3>2
    <3>5. Onward' >= count' /\ Onward' + LoopLength' <= Buffer_Size
      <4>1. Onward' = Buffer_Size - n
        BY <2>1, <2>2, <3>1, ChunkFacts DEF Onward, Wrapped
      <4>2. QED
        BY <2>1, <2>2, <2>4, <3>2, <4>1
    <3>6. QED
      BY <3>3, <3>4, <3>5 DEF BaseInv
  <2>8. CASE basep # NoBase
    <3>1. /\ apos < Size[active] /\ Onward >= count
          /\ Onward + LoopLength <= Buffer_Size
          /\ \A q \in 0 .. LoopLength - 1 :
               buffer[basep + q] = ByteAt(active, LoopPos[active] + q)
      BY <2>1, <2>8 DEF BaseInv
    <3>2. /\ basep' = basep /\ basep \in Nat /\ basep < Buffer_Size
          /\ LoopPos[active] < Size[active]
          /\ basep + LoopLength <= Buffer_Size
      <4>1. basep' = basep
        BY <1>6, <2>8 DEF CopyPiece, AfterEnd
      <4>2. QED
        BY <2>1, <2>4, <2>8, <4>1 DEF CopyInv, TypeOK, Ring, NoBase
    <3>3. apos' < Size[active']
      BY <2>1, <2>3, <3>2
    <3>4. Onward' = Onward - n
      BY <2>1, <2>2, <3>1, <3>2, ChunkFacts DEF Onward, Wrapped
    <3>5. ASSUME NEW q \in 0 .. LoopLength' - 1
          PROVE  buffer'[basep' + q] = ByteAt(active', LoopPos[active'] + q)
      <4>1. q \in 0 .. LoopLength - 1 /\ basep + q \in Places
        BY <2>1, <2>4, <3>2 DEF Places
      <4>2. basep + q \notin write_pos .. write_pos + n - 1
        BY <2>1, <2>4, <3>1, <3>2, <4>1 DEF Onward
      <4>3. QED
        BY <2>1, <2>5, <3>1, <3>2, <4>1, <4>2
    <3>6. Onward' >= count' /\ Onward' + LoopLength' <= Buffer_Size
      BY <2>1, <2>2, <2>4, <3>1, <3>2, <3>4 DEF Onward
    <3>7. QED
      BY <3>3, <3>5, <3>6 DEF BaseInv
  <2>9. QED
    BY <2>7, <2>8
<1>7. QED
  BY <1>2, <1>3, <1>4, <1>5, <1>6 DEF Next, Caller, ReadThread
-----------------------------------------------------------------------------
(* What is settled about the caller's position and the thread's.            *)
LEMMA SettledFacts ==
  ASSUME TypeOK, CallInv, RingInv, Settled
  PROVE  /\ caller.which \in Streams /\ active = caller.which
         /\ caller.lead \in Nat /\ caller.pos \in Nat
         /\ caller.pos <= Size[active] /\ caller \in CallerType
         /\ read_pos \in Nat /\ read_pos < Buffer_Size
         /\ write_pos \in Nat /\ write_pos < Buffer_Size
         /\ count \in Nat /\ count <= Buffer_Size
         /\ Copying /\ ~need_sync => count <= Chunk_Size
         /\ Left \in Nat /\ Owed \in Nat
         /\ Size[active] \in Nat /\ apos \in 0..Size[active]
<1>1. caller.which \in Streams /\ caller \in CallerType
  BY DEF CallInv, CallerType, Settled
<1>2. active = caller.which /\ caller.lead \in Nat /\ caller.pos \in 0..Size[active]
      /\ (Copying /\ ~need_sync => count <= Chunk_Size)
  BY DEF RingInv
<1>3. /\ count \in Nat /\ count <= Buffer_Size
      /\ read_pos \in Nat /\ read_pos < Buffer_Size
      /\ write_pos \in Nat /\ write_pos < Buffer_Size
  BY DEF TypeOK, Ring
<1>4. Left \in Nat /\ Owed \in Nat
  BY <1>3, ChunkFacts DEF Left, Owed
<1>5. Size[active] \in Nat /\ apos \in 0..Size[active]
  BY <1>1, <1>2, StreamFacts DEF TypeOK
<1>6. QED
  BY <1>1, <1>2, <1>3, <1>4, <1>5

LEMMA StartTyped ==
  ASSUME NEW j \in 0..3
  PROVE  /\ Start(j) \in Nat /\ Start(j) + Chunk_Size <= Buffer_Size
         /\ j # 0 => Start(j) = Start(j - 1) + Chunk_Size
<1>1. j = 0 \/ j = 1 \/ j = 2 \/ j = 3
  OBVIOUS
<1>2. CASE j = 0
  BY <1>2, Starts, ChunkFacts
<1>3. CASE j = 1
  BY <1>3, Starts, ChunkFacts
<1>4. CASE j = 2
  BY <1>4, Starts, ChunkFacts
<1>5. CASE j = 3
  BY <1>5, Starts, ChunkFacts
<1>6. QED
  BY <1>1, <1>2, <1>3, <1>4, <1>5

LEMMA AheadKept ==
  ASSUME caller' = caller, active' = active, apos' = apos,
         write_pos' = write_pos, read_pos' = read_pos,
         Left' + Owed' = Left + Owed,
         Left \in Nat, Owed \in Nat, Left' \in Nat, Owed' \in Nat,
         read_pos \in Nat,
         \A i \in Ring : buffer'[i] = buffer[i],
         RingInv, Settled' => Settled,
         Copying' /\ ~need_sync' => count' <= Chunk_Size
  PROVE  RingInv'
<1> SUFFICES ASSUME Settled' PROVE RingInv'
  BY DEF RingInv
<1>1. Settled
  OBVIOUS
<1>2. PICK j \in 0..3 : \E ahead \in 0..Buffer_Size : Reached(ahead, j) /\ Holds(ahead)
  BY <1>1 DEF RingInv, Filled
<1>3. PICK ahead \in 0..Buffer_Size : Reached(ahead, j) /\ Holds(ahead)
  BY <1>2
<1>4. Reached(ahead, j)'
  <2>1. Start(j) \in Nat
    BY StartTyped
  <2>2. ahead + Left' = Buffer_Size + Start(j) - read_pos - Owed'
    BY <1>3, <2>1 DEF Reached
  <2>3. QED
    BY <1>3, <2>2 DEF Reached
<1>5. Holds(ahead)'
  <2>1. ASSUME NEW k \in 0 .. ahead - 1
        PROVE  /\ buffer'[Wrapped(read_pos' + k)] = AheadOf(caller', k)
    <3>1. read_pos < Buffer_Size
      BY <1>3, Starts, ChunkFacts DEF Reached, InChunk
    <3>2. Wrapped(read_pos + k) \in Ring
      BY <3>1 DEF Wrapped, Ring
    <3>3. QED
      BY <1>3, <3>2 DEF Holds
  <2>2. QED
    BY <2>1 DEF Holds
<1>6. Filled'
  BY <1>4, <1>5 DEF Filled
<1>7. QED
  BY <1>1, <1>6 DEF RingInv

(* The caller goes on.                                                      *)
LEMMA RingAdvanced ==
  ASSUME TypeOK, CallInv, RingInv, advance
  PROVE  RingInv'
<1>1. Settled /\ emu = "run" /\ ~need_sync
  BY DEF advance, Settled, CallInv
<1>2. PICK n \in Advances : /\ read_pos' = (read_pos + n) % Buffer_Size
                            /\ caller' = Consumed(caller, n)
  BY DEF advance
<1>3. PICK j \in 0..3 : \E ahead \in 0..Buffer_Size : Reached(ahead, j) /\ Holds(ahead)
  BY <1>1 DEF RingInv, Filled
<1>4. PICK ahead \in 0..Buffer_Size : Reached(ahead, j) /\ Holds(ahead)
  BY <1>3
<1>5. /\ n \in 0..Chunk_Size /\ n \in Nat /\ read_pos \in Ring
  BY AdvanceFact DEF TypeOK
<1>6. PICK i \in 0..3 : InChunk(read_pos', i) /\ (i = j \/ j = Before(i))
  BY <1>2, <1>4, <1>5, StepsAChunk DEF Reached
<1>7. read_pos' = Wrapped(read_pos + n) /\ read_pos' \in Ring
  <2>1. read_pos + n \in Nat /\ read_pos + n < Buffer_Size + Buffer_Size
    BY <1>5, ChunkFacts DEF Ring
  <2>2. QED
    BY <1>2, <2>1, Wraps
<1>8. Owed = 0 /\ Owed' = IF i = j THEN 0 ELSE Chunk_Size
  <2>1. Bit(read_pos) = j % 2 /\ Bit(read_pos') = i % 2
    BY <1>4, <1>5, <1>6, <1>7, BitOf DEF Reached
  <2>2. emu' = IF ChunkCrossed(read_pos, read_pos') THEN "next" ELSE "run"
    BY DEF advance
  <2>3. ChunkCrossed(read_pos, read_pos') <=> i # j
    BY <1>6, <2>1 DEF ChunkCrossed, Before
  <2>4. QED
    BY <1>1, <2>2, <2>3 DEF Owed
<1>9. /\ active' = active /\ apos' = apos /\ write_pos' = write_pos
      /\ buffer' = buffer /\ need_sync' = need_sync /\ count' = count
      /\ Copying' = Copying /\ Left' = Left
  BY DEF advance, semVars, streamVars, copyVars, Copying, Left, Pending
<1>10. Left <= Chunk_Size
  BY <1>1, SettledFacts, ChunkFacts DEF Left
<1>11. n <= ahead
  BY <1>4, <1>5, <1>8, <1>10, SettledFacts, <1>1, Starts, ChunkFacts
  DEF Reached, InChunk
<1> DEFINE rest == ahead - n
<1>12. rest \in 0..Buffer_Size /\ n + rest = ahead /\ rest \in Nat /\ ahead \in Nat
  BY <1>5, <1>11
<1>13. ASSUME NEW k \in Nat
       PROVE  AheadOf(caller', k) = AheadOf(caller, n + k)
  BY <1>1, <1>2, <1>5, SettledFacts, ConsumedAhead
<1>14. /\ caller'.which = caller.which /\ caller'.lead \in Nat
       /\ caller'.pos \in 0..Size[caller.which]
  BY <1>1, <1>2, <1>5, <1>12, SettledFacts, ConsumedAhead
<1>15. /\ caller'.lead <= rest
       /\ LoopedPos(caller.which, caller'.pos + (rest - caller'.lead))
            = LoopedPos(caller.which, caller.pos + (ahead - caller.lead))
  <2>1. n + rest >= caller.lead
    BY <1>4, <1>12 DEF Reached
  <2> HIDE DEF rest
  <2>2. /\ rest >= caller'.lead
        /\ LoopedPos(caller.which, caller'.pos + (rest - caller'.lead))
             = LoopedPos(caller.which, caller.pos + (n + rest - caller.lead))
    <3>1. /\ caller \in CallerType /\ caller.which \in Streams
          /\ caller.lead \in Nat /\ caller.pos \in Nat
      BY <1>1, SettledFacts
    <3>2. n \in Nat /\ rest \in Nat
      BY <1>5, <1>12
    <3>3. n + rest >= caller.lead =>
            /\ rest >= Consumed(caller, n).lead
            /\ LoopedPos(caller.which, Consumed(caller, n).pos
                                         + (rest - Consumed(caller, n).lead))
                 = LoopedPos(caller.which, caller.pos + (n + rest - caller.lead))
      BY ONLY <3>1, <3>2, ConsumedAhead
    <3>4. QED
      BY <1>2, <2>1, <3>3
  <2>3. n + rest - caller.lead = ahead - caller.lead
    BY <1>1, <1>5, <1>12, SettledFacts
  <2>4. QED
    BY <1>14, <2>2, <2>3
<1>16. rest + Left = Buffer_Size + Start(i) - read_pos' - Owed'
  <2>1. Left \in Nat /\ read_pos \in Nat /\ read_pos < Buffer_Size
    BY <1>1, SettledFacts
  <2>2. ahead + Left = Buffer_Size + Start(j) - read_pos
        /\ Start(j) <= read_pos /\ read_pos < Start(j) + Chunk_Size
    BY <1>4, <1>8, <2>1, Starts, ChunkFacts DEF Reached, InChunk
  <2>3. Start(i) <= read_pos' /\ read_pos' < Start(i) + Chunk_Size
    BY <1>6 DEF InChunk
  <2>4. Start(j) \in Nat /\ Start(i) \in Nat
    BY StartTyped
  <2>5. CASE i = j
    <3>1. read_pos' = read_pos + n
      BY <1>5, <1>7, <2>1, <2>2, <2>3, <2>4, <2>5, ChunkFacts DEF Wrapped
    <3>2. QED
      BY <1>5, <1>8, <2>1, <2>2, <2>4, <2>5, <3>1, ChunkFacts
  <2>6. CASE i # j /\ i = 0
    <3>1. j = 3
      BY <1>6, <2>6 DEF Before
    <3>2. read_pos' = read_pos + n - Buffer_Size
      BY <1>5, <1>7, <2>1, <2>2, <2>3, <2>6, <3>1, Starts, ChunkFacts
      DEF Wrapped
    <3>3. Start(j) = Chunk_Size + Chunk_Size + Chunk_Size /\ Start(i) = 0
      BY <2>6, <3>1, Starts
    <3>4. QED
      BY <1>5, <1>8, <2>1, <2>2, <2>6, <3>2, <3>3, ChunkFacts
  <2>7. CASE i # j /\ i # 0
    <3>1. j = i - 1 /\ Start(i) = Start(j) + Chunk_Size
      BY <1>6, <2>7, StartTyped DEF Before
    <3>2. read_pos' = read_pos + n
      BY <1>5, <1>7, <2>1, <2>2, <2>3, <2>4, <3>1, ChunkFacts DEF Wrapped
    <3>3. QED
      BY <1>5, <1>8, <2>1, <2>2, <2>4, <2>7, <3>1, <3>2, ChunkFacts
  <2>8. QED
    BY <2>5, <2>6, <2>7
<1>17. ASSUME NEW k \in 0 .. rest
       PROVE  Wrapped(read_pos' + k) = Wrapped(read_pos + (n + k))
  <2>1. /\ read_pos \in Nat /\ read_pos < Buffer_Size
        /\ n + k <= Buffer_Size
    BY <1>1, <1>5, <1>12, SettledFacts
  <2>2. QED
    BY <1>5, <1>7, <2>1 DEF Wrapped
<1>18. Reached(rest, i)'
  <2>1. write_pos = Wrapped(read_pos' + rest)
    BY <1>4, <1>12, <1>17 DEF Reached
  <2>2. apos = LoopedPos(active, caller'.pos + (rest - caller'.lead))
    BY <1>1, <1>4, <1>15, SettledFacts DEF Reached
  <2>3. QED
    BY <1>6, <1>9, <1>15, <1>16, <2>1, <2>2 DEF Reached
<1>19. Holds(rest)'
  <2>1. ASSUME NEW k \in 0 .. rest - 1
        PROVE  buffer'[Wrapped(read_pos' + k)] = AheadOf(caller', k)
    <3>1. k \in Nat /\ n + k \in 0 .. ahead - 1 /\ k \in 0..rest
      BY <1>5, <1>12
    <3>2. buffer[Wrapped(read_pos + (n + k))] = AheadOf(caller, n + k)
      BY <1>4, <3>1 DEF Holds
    <3>3. QED
      BY <1>9, <1>13, <1>17, <3>1, <3>2
  <2>2. QED
    BY <2>1 DEF Holds
<1>20. Filled'
  <2> HIDE DEF rest
  <2>1. QED
    BY <1>12, <1>18, <1>19 DEF Filled
<1>21. QED
  BY <1>1, <1>9, <1>14, <1>20, SettledFacts DEF RingInv

(* Where what is written after the next ahead bytes begins and ends.        *)
LEMMA WrapsOn ==
  ASSUME NEW at \in Nat, at < Buffer_Size, NEW ahead \in Nat, NEW n \in Nat,
         n > 0, ahead + n <= Buffer_Size
  PROVE  Wrapped(Wrapped(at + ahead) + n) = Wrapped(at + (ahead + n))
  BY DEF Wrapped

LEMMA Remains ==
  ASSUME NEW i \in Ring, NEW from \in Ring
  PROVE  (i - from) % Buffer_Size
           = IF i >= from THEN i - from ELSE i - from + Buffer_Size
<1>1. i \in Nat /\ from \in Nat /\ i < Buffer_Size /\ from < Buffer_Size
  BY DEF Ring
<1>2. CASE i >= from
  BY <1>1, <1>2
<1>3. CASE i < from
  BY <1>1, <1>3
<1>4. QED
  BY <1>1, <1>2, <1>3

LEMMA ZeroedAt ==
  ASSUME buffer \in [Places -> Byte], NEW from \in Ring, NEW n \in 0..Buffer_Size,
         NEW i \in Ring
  PROVE  LET off == IF i >= from THEN i - from ELSE i - from + Buffer_Size
         IN  Overbuffered(Zeroed(from, n))[i]
               = IF off < n THEN Zero ELSE buffer[i]
<1>1. Overbuffered(Zeroed(from, n))[i] = Zeroed(from, n)[i]
  BY ZeroedTyped, OverbufferedAt
<1>2. i \in Places /\ i < Buffer_Size
  BY DEF Ring, Places
<1>3. Zeroed(from, n)[i]
        = IF (i - from) % Buffer_Size < n THEN Zero ELSE buffer[i]
  BY <1>2 DEF Zeroed
<1>4. QED
  BY <1>1, <1>3, Remains

(* A stream is chosen: its bytes come after the zeros.                      *)
LEMMA RingChosen ==
  ASSUME TypeOK, OneTurn, CallInv, ChunkInv, AskedInv, HandleSetActive
  PROVE  RingInv'
<1>1. Pending("SetActive") /\ rt = "wait"
  BY DEF HandleSetActive, TakeCommand, Pending, TypeOK
<1>2. need_sync /\ read_pos = 0 /\ emu # "next" /\ pending.which \in Streams
  BY <1>1 DEF CallInv
<1>3. write_pos = 0
  <2>1. Outstanding = 0
    BY <1>1 DEF Outstanding, Pending
  <2>2. PICK j \in 0..3 : /\ InChunk(read_pos, j)
                          /\ Wrapped(write_pos + Outstanding) = Start(j)
    BY <1>1, <1>2 DEF ChunkInv
  <2>3. j = 0
    <3>1. Start(j) <= 0
      BY <1>2, <2>2 DEF InChunk
    <3>2. QED
      BY <3>1, Starts, ChunkFacts
  <2>4. QED
    BY <2>1, <2>2, <2>3, Starts DEF TypeOK, Ring, Wrapped
<1>4. PICK pzb \in 0..Buffer_Size : pzb = pending.pzb
  BY DEF CallInv, CommandType
<1>13. PICK skip \in Nat : skip = pending.skip
  BY DEF CallInv, CommandType
<1>14. PICK which \in Streams : which = pending.which
  BY <1>2
<1>5. /\ caller' = caller /\ caller.which = which /\ caller.lead = pzb
      /\ caller.pos = LoopedPos(which, skip)
  BY <1>1, <1>4, <1>13, <1>14 DEF AskedInv, HandleSetActive, emuVars
<1>6. /\ active' = which /\ apos' = LoopedPos(which, skip)
      /\ buffer' = Overbuffered(Zeroed(0, pzb))
      /\ write_pos' = Wrapped(pzb) /\ count' = Buffer_Size - pzb
      /\ rt' = "copy" /\ read_pos' = 0 /\ need_sync' /\ emu' # "next"
  <2>1. write_pos' = pzb % Buffer_Size
    BY <1>3, <1>4 DEF HandleSetActive
  <2>2. pzb % Buffer_Size = Wrapped(pzb)
    BY <1>4, Wraps, ChunkFacts
  <2>3. apos' = LoopedPos(which, skip)
    BY <1>13, <1>14, StartIsLooped DEF HandleSetActive
  <2>4. QED
    BY <1>2, <1>3, <1>4, <1>14, <2>1, <2>2, <2>3 DEF HandleSetActive, emuVars
<1>7. /\ LoopedPos(which, skip) \in 0..Size[which]
      /\ LoopedPos(which, LoopedPos(which, skip) + 0) = LoopedPos(which, skip + 0)
  <2>1. 0 \in Nat
    OBVIOUS
  <2>2. QED
    BY ONLY <2>1, LoopedOnward, <1>13, <1>14, Zenon
<1>8. Copying' /\ Left' = Buffer_Size - pzb /\ Owed' = 0
  BY <1>6 DEF Copying, Left, Owed
<1>9. Reached(pzb, 0)'
  <2>1. InChunk(read_pos', 0)
    BY <1>6, Starts, ChunkFacts DEF InChunk
  <2>2. pzb + Left' = Buffer_Size + Start(0) - read_pos' - Owed'
    BY <1>4, <1>6, <1>8, Starts, ChunkFacts
  <2>3. caller'.lead <= pzb
    BY <1>4, <1>5
  <2>4. write_pos' = Wrapped(read_pos' + pzb)
    BY <1>4, <1>6
  <2>5. apos' = LoopedPos(active', caller'.pos + (pzb - caller'.lead))
    <3>1. pzb - pzb = 0 /\ skip + 0 = skip
      OBVIOUS
    <3>2. LoopedPos(which, LoopedPos(which, skip) + (pzb - pzb))
            = LoopedPos(which, skip)
      BY ONLY <1>7, <3>1
    <3>3. QED
      BY ONLY <1>5, <1>6, <3>2
  <2>6. QED
    BY <2>1, <2>2, <2>3, <2>4, <2>5 DEF Reached
<1>10. Holds(pzb)'
  <2>1. ASSUME NEW k \in 0 .. pzb - 1
        PROVE  buffer'[Wrapped(read_pos' + k)] = AheadOf(caller', k)
    <3>1. k \in Ring /\ 0 \in Ring /\ k >= 0 /\ pzb \in 0..Buffer_Size
          /\ k - 0 = k /\ k < pzb
      BY <1>4 DEF Ring
    <3>2. buffer'[k] = Zero
      BY <1>6, <3>1, ZeroedAt DEF TypeOK
    <3>3. Wrapped(read_pos' + k) = k
      BY <1>6, <3>1 DEF Wrapped, Ring
    <3>4. AheadOf(caller', k) = Zero
      BY <1>5, <3>1 DEF AheadOf
    <3>5. QED
      BY <3>2, <3>3, <3>4
  <2>2. QED
    BY <2>1 DEF Holds
<1>11. Filled'
  <2>1. pzb \in 0..Buffer_Size /\ 0 \in 0..3
    BY <1>4
  <2>2. QED
    BY <1>9, <1>10, <2>1 DEF Filled
<1>12. QED
  BY <1>4, <1>5, <1>6, <1>7, <1>11 DEF RingInv

(* Past the end of a stream that does not loop.                             *)
LEMMA RingZeros ==
  ASSUME TypeOK, OneTurn, CallInv, RingInv, FillZeros, Settled
  PROVE  RingInv'
<1>1. PICK j \in 0..3 : \E ahead \in 0..Buffer_Size : Reached(ahead, j) /\ Holds(ahead)
  BY DEF RingInv, Filled
<1>2. PICK ahead \in 0..Buffer_Size : Reached(ahead, j) /\ Holds(ahead)
  BY <1>1
<1>3. /\ Left = count /\ Left' = 0 /\ count' = 0 /\ Owed' = Owed
      /\ read_pos' = read_pos /\ caller' = caller /\ active' = active
      /\ apos' = apos /\ count > 0 /\ apos = Size[active] /\ need_sync' = need_sync
      /\ buffer' = Overbuffered(Zeroed(write_pos, count)) /\ Settled' = Settled
      /\ write_pos' = (write_pos + count) % Buffer_Size
  BY DEF FillZeros, Left, Copying, Owed, emuVars, streamVars, semVars, Settled,
         Pending
<1>4. /\ ahead \in Nat /\ count \in Nat /\ ahead + count <= Buffer_Size
      /\ read_pos \in Nat /\ read_pos < Buffer_Size /\ write_pos \in Ring
      /\ Start(j) \in Nat
  <2>1. /\ Start(j) \in Nat /\ Start(j) <= read_pos
        /\ ahead + Left = Buffer_Size + Start(j) - read_pos - Owed
    BY <1>2, StartTyped DEF Reached, InChunk
  <2>2. QED
    BY <1>3, <2>1, SettledFacts DEF TypeOK
<1>5. write_pos = Wrapped(read_pos + ahead)
  BY <1>2 DEF Reached
<1>6. PICK next \in 0..Buffer_Size : next = ahead + count
  BY <1>4
<1>7. write_pos' = Wrapped(read_pos' + next)
  <2>1. write_pos' = Wrapped(write_pos + count)
    <3>1. write_pos + count \in Nat /\ write_pos + count < Buffer_Size + Buffer_Size
      BY <1>4 DEF Ring
    <3>2. QED
      BY <1>3, <3>1, Wraps
  <2>2. QED
    <3>1. Wrapped(Wrapped(read_pos + ahead) + count)
            = Wrapped(read_pos + (ahead + count))
      BY <1>3, <1>4, WrapsOn
    <3>2. QED
      BY <1>3, <1>5, <1>6, <2>1, <3>1
<1>8. /\ caller.which \in Streams /\ active = caller.which
      /\ caller.lead \in Nat /\ caller.pos \in Nat /\ caller.lead <= ahead
      /\ Size[active] \in Nat
  BY <1>2, SettledFacts DEF Reached
<1> DEFINE from == caller.pos + (ahead - caller.lead)
<1>9. from \in Nat /\ Size[active] = LoopedPos(active, from)
  BY <1>2, <1>3, <1>4, <1>8 DEF Reached
<1>10. ASSUME NEW k \in Nat
       PROVE  LoopedPos(active, from + k) = Size[active]
  <2> HIDE DEF from
  <2>1. LoopPos[active] = Size[active] /\ from >= Size[active]
    BY <1>8, <1>9, LoopedOnward
  <2>2. ~(from + k < Size[active])
    BY <1>8, <1>9, <2>1
  <2>3. QED
    BY ONLY <2>1, <2>2 DEF LoopedPos
<1>11. ASSUME NEW k \in Nat
       PROVE  caller.pos + ((ahead + k) - caller.lead) = from + k
  BY <1>4, <1>8
<1>12. Reached(next, j)'
  <2>1. apos' = LoopedPos(active', caller'.pos + (next - caller'.lead))
    BY <1>3, <1>4, <1>6, <1>10, <1>11
  <2>2. next + Left' = Buffer_Size + Start(j) - read_pos' - Owed'
    BY <1>2, <1>3, <1>4, <1>6, SettledFacts DEF Reached
  <2>3. caller'.lead <= next
    BY <1>3, <1>4, <1>6, <1>8
  <2>4. QED
    BY <1>2, <1>3, <1>7, <2>1, <2>2, <2>3 DEF Reached
<1>13. Holds(next)'
  <2>1. ASSUME NEW k \in 0 .. next - 1
        PROVE  buffer'[Wrapped(read_pos' + k)] = AheadOf(caller', k)
    <3> DEFINE i == Wrapped(read_pos + k)
               off == IF i >= write_pos THEN i - write_pos
                      ELSE i - write_pos + Buffer_Size
    <3>1. k \in Nat /\ k < Buffer_Size /\ write_pos \in Nat
          /\ write_pos < Buffer_Size
      BY <1>4, <1>6 DEF Ring
    <3>2. i \in Ring
      BY <1>4, <3>1 DEF Wrapped, Ring
    <3>3. buffer'[i] = IF off < count THEN Zero ELSE buffer[i]
      <4> HIDE DEF i
      <4>1. count \in 0..Buffer_Size
        BY <1>4
      <4>2. QED
        BY <1>3, <1>4, <3>2, <4>1, ZeroedAt DEF TypeOK
    <3>4. CASE k < ahead
      <4>1. k \in 0 .. ahead - 1
        BY <1>4, <3>1, <3>4
      <4>2. off >= count
        BY <1>4, <1>5, <3>1, <4>1 DEF Wrapped
      <4>3. buffer'[i] = buffer[i]
        <5> HIDE DEF off, i
        <5>1. off \in Int
          BY <3>1, <3>2 DEF off, Ring
        <5>2. QED
          BY <1>4, <3>3, <4>2, <5>1
      <4>4. QED
        BY <1>2, <1>3, <4>1, <4>3 DEF Holds
    <3>5. CASE k >= ahead
      <4> DEFINE q == k - ahead
      <4>1. q \in Nat /\ q < count /\ k = ahead + q /\ ~(k < caller.lead)
        BY <1>4, <1>6, <1>8, <3>1, <3>5
      <4>2. off = q
        BY <1>4, <1>5, <3>1, <4>1 DEF Wrapped
      <4>3. buffer'[i] = Zero
        BY <3>3, <4>1, <4>2
      <4>4. AheadOf(caller, k) = ByteAt(active, Size[active])
        BY <1>8, <1>10, <1>11, <4>1 DEF AheadOf
      <4>5. QED
        BY <1>3, <4>3, <4>4 DEF ByteAt
    <3>6. QED
      BY <1>4, <3>1, <3>4, <3>5
  <2>2. QED
    BY <2>1 DEF Holds
<1>14. Filled'
  <2>1. QED
    BY <1>6, <1>12, <1>13 DEF Filled
<1>15. QED
  BY <1>3, <1>8, <1>14, ChunkFacts, SettledFacts DEF RingInv

(* A piece is copied: it goes on where the last one ended.                  *)
LEMMA RingCopied ==
  ASSUME TypeOK, OneTurn, CallInv, CopyInv, BaseInv, RingInv, CopyPiece, Settled
  PROVE  RingInv'
<1>1. PICK j \in 0..3 : \E ahead \in 0..Buffer_Size : Reached(ahead, j) /\ Holds(ahead)
  BY DEF RingInv, Filled
<1>2. PICK ahead \in 0..Buffer_Size : Reached(ahead, j) /\ Holds(ahead)
  BY <1>1
<1>3. PICK n \in Nat : n = SubCount
  BY PieceFacts
<1>4. /\ n > 0 /\ n <= count /\ count \in Nat /\ apos \in Nat
      /\ Size[active] \in Nat /\ apos + n <= Size[active]
      /\ write_pos \in Nat /\ write_pos + n <= Buffer_Size
  BY <1>3, PieceFacts
<1>5. /\ rt = "copy" /\ rt' = rt /\ read_pos' = read_pos /\ caller' = caller
      /\ active' = active /\ need_sync' = need_sync /\ Owed' = Owed
      /\ Settled' = Settled /\ count' = count - n
      /\ write_pos' = Wrapped(write_pos + n)
  BY <1>3, PieceWraps
  DEF CopyPiece, emuVars, semVars, Owed, Settled, Pending
<1>6. Left = count /\ Left' = count - n
  BY <1>5 DEF Left, Copying
<1>7. /\ ahead \in Nat /\ ahead + n <= Buffer_Size /\ read_pos \in Nat
      /\ read_pos < Buffer_Size /\ Start(j) \in Nat /\ Owed \in Nat
  <2>1. /\ Start(j) \in Nat /\ Start(j) <= read_pos
        /\ ahead + Left = Buffer_Size + Start(j) - read_pos - Owed
    BY <1>2, StartTyped DEF Reached, InChunk
  <2>2. QED
    BY <1>4, <1>6, <2>1, SettledFacts
<1>8. PICK next \in 0..Buffer_Size : next = ahead + n
  BY <1>7
<1>9. write_pos = Wrapped(read_pos + ahead)
  BY <1>2 DEF Reached
<1>10. write_pos' = Wrapped(read_pos' + next)
  <2>1. Wrapped(Wrapped(read_pos + ahead) + n) = Wrapped(read_pos + (ahead + n))
    BY <1>4, <1>7, WrapsOn
  <2>2. QED
    BY <1>5, <1>8, <1>9, <2>1
<1>11. /\ caller.which \in Streams /\ active = caller.which
       /\ caller.lead \in Nat /\ caller.pos \in Nat /\ caller.lead <= ahead
       /\ LoopPos[active] \in Nat /\ LoopPos[active] <= Size[active]
  BY <1>2, SettledFacts, StreamFacts DEF Reached
<1>12. PICK from \in Nat : from = caller.pos + (ahead - caller.lead)
  BY <1>7, <1>11
<1>13. apos = LoopedPos(active, from)
  BY <1>2, <1>12 DEF Reached
<1>14. ASSUME NEW k \in Nat
       PROVE  /\ caller.pos + ((ahead + k) - caller.lead) = from + k
              /\ LoopedPos(active, from + k) = LoopedPos(active, apos + k)
  <2>1. caller.pos + ((ahead + k) - caller.lead) = from + k
    BY <1>7, <1>11, <1>12
  <2>2. active \in Streams
    BY <1>11
  <2>3. LoopedPos(active, LoopedPos(active, from) + k)
          = LoopedPos(active, from + k)
    BY ONLY <1>14, <2>2, LoopedOnward, from \in Nat
  <2>4. LoopedPos(active, from + k) = LoopedPos(active, apos + k)
    BY <1>13, <2>3
  <2>5. QED
    BY <2>1, <2>4
<1>15. apos' = LoopedPos(active, apos + n)
  <2>1. CASE apos + n = Size[active]
    <3>1. apos' = LoopPos[active]
      BY <1>3, <2>1 DEF CopyPiece, AfterEnd
    <3>2. LoopedPos(active, Size[active]) = LoopPos[active]
      <4>1. CASE LoopPos[active] = Size[active]
        BY <1>4, <4>1 DEF LoopedPos
      <4>2. CASE LoopPos[active] # Size[active]
        <5>1. PICK d \in Nat : d = Size[active] - LoopPos[active]
          BY <1>4, <1>11
        <5>2. d % d = 0
          BY <1>4, <1>11, <4>2, <5>1
        <5>3. ~(Size[active] < Size[active])
          BY <1>4
        <5>4. LoopedPos(active, Size[active])
                = LoopPos[active] + ((Size[active] - LoopPos[active])
                                       % (Size[active] - LoopPos[active]))
          BY <1>4, <1>11, <4>2, <5>3, LoopedIn
        <5>5. QED
          BY <1>11, <5>1, <5>2, <5>4
      <4>3. QED
        BY <4>1, <4>2
    <3>3. QED
      BY <2>1, <3>1, <3>2
  <2>2. CASE apos + n # Size[active]
    <3>1. apos' = apos + n /\ apos + n < Size[active]
      BY <1>3, <1>4, <2>2 DEF CopyPiece
    <3>2. QED
      BY <3>1 DEF LoopedPos
  <2>3. QED
    BY <2>1, <2>2
<1>16. Reached(next, j)'
  <2>1. apos' = LoopedPos(active', caller'.pos + (next - caller'.lead))
    BY <1>5, <1>8, <1>14, <1>15
  <2>2. next + Left' = Buffer_Size + Start(j) - read_pos' - Owed'
    BY <1>2, <1>4, <1>5, <1>6, <1>7, <1>8 DEF Reached
  <2>3. caller'.lead <= next
    BY <1>5, <1>7, <1>8, <1>11
  <2>4. QED
    BY <1>2, <1>5, <1>10, <2>1, <2>2, <2>3 DEF Reached
<1>17. Holds(next)'
  <2>1. ASSUME NEW k \in 0 .. next - 1
        PROVE  buffer'[Wrapped(read_pos' + k)] = AheadOf(caller', k)
    <3>1. k \in Nat /\ k < Buffer_Size /\ k < ahead + n
      BY <1>7, <1>8
    <3>2. PICK i \in Ring : i = Wrapped(read_pos + k)
      <4>1. Wrapped(read_pos + k) \in Ring
        BY <1>7, <3>1 DEF Wrapped, Ring
      <4>2. QED
        BY <4>1
    <3>3. i \in Places
      BY DEF Ring, Places
    <3>4. CASE k < ahead
      <4>1. k \in 0 .. ahead - 1
        BY <1>7, <3>1, <3>4
      <4>2. i \notin write_pos .. write_pos + n - 1
        BY <1>4, <1>7, <1>9, <3>1, <3>2, <4>1 DEF Wrapped
      <4>3. buffer'[i] = buffer[i]
        BY <1>3, <3>3, <4>2 DEF CopyPiece
      <4>4. QED
        BY <1>2, <1>5, <3>2, <4>1, <4>3 DEF Holds
    <3>5. CASE k >= ahead
      <4>1. PICK q \in Nat : q = k - ahead
        BY <1>7, <3>1, <3>5
      <4>2. /\ q < n /\ k = ahead + q /\ ~(k < caller.lead)
            /\ q \in 0 .. n - 1
        BY <1>4, <1>7, <1>11, <3>1, <3>5, <4>1
      <4>3. i = write_pos + q
        BY <1>4, <1>7, <1>9, <3>1, <3>2, <4>2 DEF Wrapped
      <4>4. i \in write_pos .. write_pos + n - 1 /\ i - write_pos = q
        BY <1>4, <4>2, <4>3
      <4>5. buffer'[i] = SourceByte(i - write_pos)
        BY <1>3, <3>3, <4>4 DEF CopyPiece
      <4>6. SourceByte(q) = ByteAt(active, apos + q)
        BY <1>3, <4>2, SourceIs
      <4>7. LoopedPos(active, apos + q) = apos + q
        BY <1>4, <4>2 DEF LoopedPos
      <4>8. AheadOf(caller, k) = ByteAt(active, LoopedPos(active, from + q))
        BY <1>11, <1>14, <4>2 DEF AheadOf
      <4>9. AheadOf(caller, k) = ByteAt(active, apos + q)
        BY <1>14, <4>7, <4>8
      <4>10. QED
        BY <1>5, <3>2, <4>4, <4>5, <4>6, <4>9
    <3>6. QED
      BY <1>7, <3>1, <3>4, <3>5
  <2>2. QED
    BY <2>1 DEF Holds
<1>18. Filled'
  BY <1>16, <1>17 DEF Filled
<1>19. Copying' /\ ~need_sync' => count' <= Chunk_Size
  BY <1>4, <1>5, ChunkFacts, SettledFacts DEF Copying
<1>20. QED
  BY <1>5, <1>18, <1>19, SettledFacts DEF RingInv

LEMMA NextRing ==
  TypeOK /\ OneTurn /\ CallInv /\ CopyInv /\ ChunkInv /\ DataInv /\ Next
    => RingInv'
<1> SUFFICES ASSUME TypeOK, OneTurn, CallInv, CopyInv, ChunkInv, AskedInv,
                    RingInv, BaseInv, Next
             PROVE  RingInv'
  BY DEF DataInv
<1> DEFINE Still == /\ caller' = caller /\ active' = active /\ apos' = apos
                    /\ write_pos' = write_pos /\ read_pos' = read_pos
<1>1. count \in Nat /\ read_pos \in Nat
  BY DEF TypeOK, Ring
<1>2. Left \in Nat /\ Owed \in Nat
  BY <1>1, ChunkFacts DEF Left, Owed
<1>3. ASSUME Still, Left' + Owed' = Left + Owed, Left' \in Nat, Owed' \in Nat,
             \A i \in Ring : buffer'[i] = buffer[i],
             Settled' => Settled,
             Copying' /\ ~need_sync' => count' <= Chunk_Size
      PROVE  RingInv'
  BY <1>1, <1>2, <1>3, AheadKept
<1>4. Settled /\ Copying /\ ~need_sync => count <= Chunk_Size
  BY DEF RingInv
<1>5. ASSUME Still, Left' = Left, Owed' = Owed, buffer' = buffer,
              Settled' => Settled,
              Copying' /\ ~need_sync' => count' <= Chunk_Size
       PROVE  RingInv'
  <2>1. /\ Left' + Owed' = Left + Owed /\ Left' \in Nat /\ Owed' \in Nat
        /\ \A i \in Ring : buffer'[i] = buffer[i]
    BY <1>2, <1>5
  <2>2. QED
    BY <1>3, <1>5, <2>1
<1>6. CASE ~Settled'
  BY <1>6 DEF RingInv
<1>7. CASE Construct
  <2>1. /\ Still /\ buffer' = buffer /\ Left' = Left /\ Owed' = Owed
        /\ ~Copying' /\ (Settled' => Settled)
    BY <1>7 DEF Construct, emuVars, streamVars, copyVars, Left, Owed, Copying,
                Pending, Settled, CallInv, Simple, Command
  <2>2. QED
    BY <1>5, <2>1
<1>8. CASE ConstructFails \/ get_buffer \/ NeedSync \/ CallSetActive
           \/ CallCleanup \/ Joined \/ Terminated
  <2>1. UNCHANGED <<need_sync, read_pos, caller, pending, semVars, rt,
                    streamVars, copyVars>>
        /\ (emu' = emu \/ (emu # "next" /\ emu' # "next"))
    BY <1>8, CalmCaller
  <2>2. /\ Still /\ buffer' = buffer /\ Left' = Left /\ Owed' = Owed
        /\ Copying' = Copying /\ Settled' = Settled /\ need_sync' = need_sync
        /\ count' = count
    BY <2>1 DEF semVars, streamVars, copyVars, Left, Owed, Copying, Pending,
                Settled
  <2>3. QED
    BY <1>4, <1>6, <1>5, <2>2
<1>9. CASE Sync \/ cleanup
  <2>1. ack_sem > 0
    BY <1>9 DEF Sync, cleanup, PostCommand
  <2>2. ~Copying /\ command_sem = 0 /\ Left = 0
    BY <2>1, AckedAtRest
  <2>3. /\ Still /\ buffer' = buffer /\ ~Copying' /\ Left' = 0 /\ Owed' = Owed
        /\ (Settled' => Settled)
    BY <1>9, <2>2 DEF Sync, cleanup, PostCommand, emuVars, streamVars,
      copyVars, Copying, Left, Owed, Pending, Settled, Simple, Command
  <2>4. QED
    BY <1>5, <2>2, <2>3
<1>10. CASE advance
  BY <1>10, RingAdvanced
<1>11. CASE BufferNext
  <2>1. ack_sem > 0
    BY <1>11 DEF BufferNext, PostCommand
  <2>2. ~Copying /\ command_sem = 0 /\ Left = 0
    BY <2>1, AckedAtRest
  <2>3. /\ Still /\ buffer' = buffer /\ ~Copying' /\ Left' = Chunk_Size
        /\ Owed = Chunk_Size /\ Owed' = 0 /\ (Settled' => Settled)
    BY <1>11, <2>2 DEF BufferNext, PostCommand, emuVars, streamVars,
      copyVars, Copying, Left, Owed, Pending, Settled, Simple, Command
  <2>4. /\ Left' + Owed' = Left + Owed /\ Left' \in Nat /\ Owed' \in Nat
        /\ \A i \in Ring : buffer'[i] = buffer[i]
    BY <2>2, <2>3, ChunkFacts
  <2>5. QED
    BY <1>3, <2>3, <2>4
<1>12. CASE set_active_stream
  <2>1. PICK w \in Streams, skip \in Skips, pzb \in Leads :
          PostCommand(Command("SetActive", w, skip, pzb))
    BY <1>12 DEF set_active_stream
  <2>2. command_sem' = 1 /\ pending'.command = "SetActive"
    BY <2>1 DEF PostCommand, Command, TypeOK, OneTurn, Busy
  <2>3. QED
    BY <1>6, <2>2 DEF Settled, Pending
<1>13. CASE HandleExit \/ HandleNOP
  <2>1. /\ pending.command \in {"Exit", "NOP"} /\ rt = "wait"
        /\ command_sem' = 0 /\ rt' # "copy" /\ rt' # "failed"
    BY <1>13 DEF HandleExit, HandleNOP, TakeCommand, TypeOK
  <2>2. /\ Still /\ buffer' = buffer /\ ~Copying' /\ Left = 0 /\ Left' = 0
        /\ Owed' = Owed /\ (Settled' => Settled)
    BY <1>13, <2>1 DEF HandleExit, HandleNOP, emuVars, streamVars, copyVars,
                       Copying, Left, Owed, Pending, Settled
  <2>3. QED
    BY <1>5, <2>2
<1>14. CASE HandleSetActive
  BY <1>14, RingChosen
<1>15. CASE HandleBufferNext
  <2>1. Pending("BufferNext") /\ rt = "wait" /\ command_sem' = 0
    BY <1>15 DEF HandleBufferNext, TakeCommand, Pending, TypeOK
  <2>2. /\ Still /\ buffer' = buffer /\ Left = Chunk_Size /\ Left' = Chunk_Size
        /\ Owed' = Owed /\ count' = Chunk_Size /\ (Settled' => Settled)
    BY <1>15, <2>1 DEF HandleBufferNext, emuVars, streamVars, copyVars,
                       Copying, Left, Owed, Pending, Settled
  <2>3. count' <= Chunk_Size /\ Left' = Left
    BY <2>2, ChunkFacts
  <2>4. QED
    BY <1>5, <2>2, <2>3
<1>16. CASE FillZeros
  <2>1. Settled' = Settled
    BY <1>16 DEF FillZeros, emuVars, semVars, Settled, Pending
  <2>2. QED
    BY <1>6, <1>16, <2>1, RingZeros
<1>17. CASE CopyPiece
  <2>1. Settled' = Settled
    BY <1>17 DEF CopyPiece, emuVars, semVars, Settled, Pending
  <2>2. QED
    BY <1>6, <1>17, <2>1, RingCopied
<1>18. CASE FinishCopy
  <2>1. command_sem = 0
    BY <1>18 DEF FinishCopy, TypeOK, OneTurn, Busy
  <2>2. /\ Still /\ ~Copying' /\ Left = 0 /\ Left' = 0 /\ Owed' = Owed
        /\ (Settled' => Settled)
    BY <1>18, <2>1 DEF FinishCopy, emuVars, streamVars, copyVars, Copying,
                       Left, Owed, Pending, Settled
  <2>3. \A i \in Ring : buffer'[i] = buffer[i]
    BY <1>18, OverbufferedAt DEF FinishCopy, TypeOK
  <2>4. Left' + Owed' = Left + Owed /\ Left' \in Nat /\ Owed' \in Nat
    BY <1>2, <2>2
  <2>5. QED
    BY <1>3, <2>2, <2>3, <2>4
<1>19. CASE ReadThrows
  <2>1. /\ Still /\ buffer' = buffer /\ Copying /\ Copying' /\ Left' = Left
        /\ Owed' = Owed /\ Settled' = Settled /\ count' = count
        /\ need_sync' = need_sync
    BY <1>19 DEF ReadThrows, emuVars, semVars, streamVars, copyVars, Copying,
                 Left, Owed, Pending, Settled
  <2>2. QED
    BY <1>4, <1>6, <1>5, <2>1
<1>20. QED
  BY <1>7, <1>8, <1>9, <1>10, <1>11, <1>12, <1>13, <1>14, <1>15, <1>16, <1>17,
     <1>18, <1>19 DEF Next, Caller, ReadThread
-----------------------------------------------------------------------------
LEMMA InitDataInv == Init => DataInv
<1> SUFFICES ASSUME Init PROVE DataInv
  OBVIOUS
<1>1. AskedInv /\ BaseInv
  BY DEF Init, AskedInv, BaseInv, Pending
<1>2. RingInv
  BY DEF Init, RingInv, Settled
<1>3. TailInv
  <2>1. ASSUME NEW i \in 0 .. Overbuffer_Count - 1
        PROVE  buffer[Buffer_Size + i] = buffer[i]
    <3>1. i \in Places /\ Buffer_Size + i \in Places
      BY DEF Places
    <3>2. QED
      BY <3>1 DEF Init
  <2>2. QED
    BY <2>1 DEF TailInv
<1>4. QED
  BY <1>1, <1>2, <1>3 DEF DataInv

(* What the ring holds is what was promised, at every moment.               *)
THEOREM RingFilled == Spec => [](IInv /\ DataInv)
<1>1. Init => IInv /\ DataInv
  BY InitIInv, InitDataInv
<1>2. IInv /\ DataInv /\ [Next]_vars => DataInv'
  <2> SUFFICES ASSUME IInv, DataInv, [Next]_vars PROVE DataInv'
    OBVIOUS
  <2>1. CASE Next
    <3>1. TypeOK /\ OneTurn /\ CallInv /\ CopyInv /\ ChunkInv
      BY DEF IInv
    <3>2. AskedInv /\ TailInv /\ BaseInv
      BY DEF DataInv
    <3>3. AskedInv' /\ TailInv' /\ BaseInv'
      BY <2>1, <3>1, <3>2, NextAsked, NextTail, NextBase
    <3>4. RingInv'
      BY <2>1, <3>1, NextRing
    <3>5. QED
      BY <3>3, <3>4 DEF DataInv
  <2>2. CASE UNCHANGED vars
    BY <2>2 DEF vars, emuVars, semVars, streamVars, copyVars, DataInv, AskedInv,
      RingInv, TailInv, BaseInv, Pending, Settled, Copying, Filled, Reached,
      Holds, Left, Owed, Onward, LoopLength
  <2>3. QED
    BY <2>1, <2>2
<1>3. QED
  BY <1>1, <1>2, Invariance, PTL DEF Spec

(* What get_buffer() shows is what lies ahead, also across the wrap.        *)
LEMMA SeenAhead ==
  ASSUME IInv, DataInv, emu = "run", ~need_sync, caller.which # NoStream,
         NEW n \in Counts, NEW k \in 0 .. n - 1
  PROVE  buffer[read_pos + k] = AheadOf(caller, k)
<1>1. TypeOK /\ CallInv /\ RingInv /\ TailInv /\ Settled
  BY DEF IInv, DataInv, Settled, CallInv
<1>2. PICK j \in 0..3 : \E ahead \in 0..Buffer_Size : Reached(ahead, j) /\ Holds(ahead)
  BY <1>1 DEF RingInv, Filled
<1>3. PICK ahead \in 0..Buffer_Size : Reached(ahead, j) /\ Holds(ahead)
  BY <1>2
<1>4. /\ k \in Nat /\ k < Overbuffer_Count /\ k < Chunk_Size
      /\ read_pos \in Nat /\ read_pos < Buffer_Size /\ Left \in Nat
      /\ Left <= Chunk_Size /\ Owed = 0
  BY <1>1, SettledFacts, ChunkFacts DEF Left, Owed
<1>5. /\ Start(j) \in Nat /\ Start(j) <= read_pos
      /\ read_pos < Start(j) + Chunk_Size
      /\ ahead + Left = Buffer_Size + Start(j) - read_pos
  BY <1>3, <1>4, StartTyped DEF Reached, InChunk
<1>6. k \in 0 .. ahead - 1
  BY <1>4, <1>5, ChunkFacts
<1>7. buffer[Wrapped(read_pos + k)] = AheadOf(caller, k)
  BY <1>3, <1>6 DEF Holds
<1>8. CASE read_pos + k < Buffer_Size
  BY <1>4, <1>7, <1>8 DEF Wrapped
<1>9. CASE read_pos + k >= Buffer_Size
  <2>1. PICK i \in 0 .. Overbuffer_Count - 1 : read_pos + k = Buffer_Size + i
    <3>1. (read_pos + k) - Buffer_Size \in 0 .. Overbuffer_Count - 1
      BY <1>4, <1>9
    <3>2. read_pos + k = Buffer_Size + ((read_pos + k) - Buffer_Size)
      BY <1>4
    <3>3. QED
      BY <3>1, <3>2
  <2>2. Wrapped(read_pos + k) = i
    BY <1>4, <2>1 DEF Wrapped
  <2>3. ~(Copying /\ (need_sync \/ Wrapped(write_pos + count) = Chunk_Size))
    <3> SUFFICES ASSUME Copying, Wrapped(write_pos + count) = Chunk_Size
                 PROVE  FALSE
      OBVIOUS
    <3>1. Left = count
      BY DEF Left
    <3>2. write_pos = Wrapped(read_pos + ahead)
      BY <1>3 DEF Reached
    <3>3. Wrapped(write_pos + count) = Start(j)
      BY <1>4, <1>5, <3>1, <3>2, StartTyped, ChunkFacts DEF Wrapped
    <3>4. QED
      BY <1>4, <1>5, <1>9, <3>3, ChunkFacts
  <2>4. buffer[Buffer_Size + i] = buffer[i]
    BY <1>1, <2>3 DEF TailInv
  <2>5. QED
    BY <1>7, <2>1, <2>2, <2>4
<1>10. QED
  BY <1>4, <1>8, <1>9

(* The reader is the looped stream: whatever streams there are, however     *)
(* long their loops, and wherever chunks, loops and the ring end, the       *)
(* caller sees the bytes of the stream it chose, in order.                  *)
THEOREM ReadsTheStream == Spec => ImplementsStream
<1>1. Init => Promise!Init
  BY DEF Init, Promise!Init, Promise!NoStream, NoStream
<1>2. ASSUME IInv, DataInv, [Next]_vars PROVE [Promise!Next]_Promise!vars
  <2>1. CASE UNCHANGED <<caller, got>>
    BY <2>1 DEF Promise!vars
  <2>2. CASE get_buffer
    <3>1. /\ emu = "run" /\ ~need_sync /\ caller.which # NoStream
          /\ caller' = caller
      BY <2>2 DEF get_buffer
    <3>2. PICK n \in Counts : got' = [k \in 1..n |-> buffer[read_pos + k - 1]]
      BY <2>2 DEF get_buffer
    <3>3. ASSUME NEW k \in 1..n
          PROVE  buffer[read_pos + k - 1] = Promise!Ahead(k - 1)
      <4>1. k - 1 \in 0 .. n - 1 /\ read_pos + k - 1 = read_pos + (k - 1)
        BY <1>2 DEF IInv, TypeOK, Ring
      <4>2. buffer[read_pos + (k - 1)] = AheadOf(caller, k - 1)
        BY <1>2, <3>1, <4>1, SeenAhead
      <4>3. QED
        BY <4>1, <4>2, PromisedAhead
    <3>4. got' = [k \in 1..n |-> Promise!Ahead(k - 1)]
      BY <3>2, <3>3
    <3>5. Promise!get_buffer
      BY <3>1, <3>4 DEF Promise!get_buffer, Promise!NoStream, NoStream
    <3>6. QED
      BY <3>5 DEF Promise!Next
  <2>3. CASE advance
    <3>1. /\ got' = <<>> /\ caller.which # NoStream
      BY <2>3 DEF advance
    <3>2. PICK n \in Advances : caller' = Consumed(caller, n)
      BY <2>3 DEF advance
    <3>3. caller'.which = caller.which
          /\ IF n <= caller.lead
             THEN caller'.lead = caller.lead - n /\ caller'.pos = caller.pos
             ELSE /\ caller'.lead = 0
                  /\ caller'.pos = LoopedPos(caller.which,
                                             caller.pos + (n - caller.lead))
      <4>1. caller \in CallerType
        BY <1>2 DEF IInv, CallInv
      <4>2. CASE n <= caller.lead
        BY <3>2, <4>1, <4>2 DEF Consumed, CallerType
      <4>3. CASE ~(n <= caller.lead)
        BY <3>2, <4>3 DEF Consumed
      <4>4. QED
        BY <4>2, <4>3
    <3>4. Promise!advance
      BY <3>1, <3>3, Zenon
      DEF Promise!advance, Promise!NoStream, NoStream, Promise!LoopedPos,
          LoopedPos
    <3>5. QED
      BY <3>4 DEF Promise!Next
  <2>4. CASE set_active_stream
    <3>1. PICK w \in Streams, skip \in Skips, pzb \in Leads :
            caller' = [which |-> w, lead |-> pzb, pos |-> LoopedPos(w, skip)]
      BY <2>4 DEF set_active_stream
    <3>2. /\ caller'.which = w /\ caller'.lead = pzb
          /\ caller'.pos = LoopedPos(w, skip) /\ got' = <<>>
      BY <2>4, <3>1 DEF set_active_stream
    <3>3. Promise!LoopedPos(w, skip) = LoopedPos(w, skip)
      BY Zenon DEF Promise!LoopedPos, LoopedPos
    <3>4. Promise!set_active_stream
      BY <3>2, <3>3, Zenon DEF Promise!set_active_stream
    <3>5. QED
      BY <3>4 DEF Promise!Next
  <2>5. QED
    BY <1>2, <2>1, <2>2, <2>3, <2>4
    DEF Next, Caller, ReadThread, vars, emuVars, Construct, ConstructFails,
        NeedSync, Sync, BufferNext, CallSetActive, CallCleanup, cleanup,
        Joined, Terminated, HandleExit, HandleNOP, HandleSetActive,
        HandleBufferNext, FillZeros, CopyPiece, FinishCopy, ReadThrows
<1>3. QED
  BY <1>1, <1>2, RingFilled, PTL DEF Spec, ImplementsStream, Promise!Spec
=============================================================================
