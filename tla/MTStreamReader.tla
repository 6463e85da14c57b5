--------------------------- MODULE MTStreamReader ---------------------------
(***************************************************************************)
(* MTStreamReader: a read thread keeps a ring of Buffer_Size bytes filled  *)
(* from a file, a chunk at a time, for a caller that must not wait for the *)
(* disk.  Caller and thread take turns by two semaphores: the caller waits *)
(* for the acknowledgement of the last command before it posts the next.   *)
(* The bytes behind the ring repeat its beginning, so that a short piece   *)
(* can be looked at across the wrap.                                       *)
(*                                                                         *)
(* read_pos and write_pos are kept modulo Buffer_Size, which divides their *)
(* range, and are used in no other way.  A piece copied by the thread is   *)
(* one step: a caller that looks while it is being copied is found out     *)
(* either before or after it, since old and new bytes differ.              *)
(***************************************************************************)
EXTENDS StreamData, Sequences

CONSTANTS Buffer_Size, Overbuffer_Count,
          FailingStreams,  \* streams whose reads may throw
          AffinityFails    \* Thread_SetAffinity() may throw

ASSUME BufferAssumption ==
  /\ Buffer_Size \in Nat /\ Overbuffer_Count \in Nat
  /\ Buffer_Size > 0 /\ Buffer_Size % 4 = 0
  /\ Overbuffer_Count <= Buffer_Size \div 4
  /\ Leads \subseteq 0..Buffer_Size        \* assert(pzb <= sizeof(buffer))
  /\ Counts \subseteq 0..Overbuffer_Count  \* get_buffer()'s own condition
  /\ Advances \subseteq 0 .. Buffer_Size \div 4
  /\ FailingStreams \subseteq Streams /\ AffinityFails \in BOOLEAN

VARIABLES
  emu,          \* the caller: between calls, waiting in one, or gone
  need_sync, read_pos,
  pending,      \* pending_command and its arguments
  command_sem, ack_sem,
  rt,           \* the read thread: waiting, copying, failed, exited
  active, apos, \* the active stream and its pos
  tell,         \* where the stream itself stands
  write_pos, count,
  basep,        \* start of a whole loop already in the buffer
  buffer,
  caller,       \* history: the position the caller has asked for, in the
                \* terms of LoopedStream; the code does not keep it
  got           \* the bytes the caller last looked at
emuVars == <<need_sync, read_pos, caller, got>>
semVars == <<command_sem, ack_sem>>
streamVars == <<active, apos, tell>>
copyVars == <<write_pos, count, basep, buffer>>
vars == <<emu, emuVars, pending, semVars, rt, streamVars, copyVars>>

(* Mutation: two chunks instead of four.                                    *)
Chunk_Size_Half == Buffer_Size \div 2
Chunk_Size == Buffer_Size \div 4
Ring == 0 .. Buffer_Size - 1
Places == 0 .. Buffer_Size + Overbuffer_Count - 1
NoBase == -1
SmallerOf(a, b) == IF a <= b THEN a ELSE b

Command(name, w, skip, pzb) ==
  [command |-> name, which |-> w, skip |-> skip, pzb |-> pzb]
Simple(name) == Command(name, NoStream, 0, 0)
-----------------------------------------------------------------------------
Init ==
  /\ emu = "construct"
  /\ need_sync = FALSE /\ read_pos = 0
  /\ caller = [which |-> NoStream, lead |-> 0, pos |-> 0]
  /\ got = <<>>
  /\ pending = Simple("SetActive")
  /\ command_sem = 0 /\ ack_sem = 0
  /\ rt = "wait"
  /\ active = NoStream /\ apos = 0 /\ tell = 0
  /\ write_pos = 0 /\ count = 0 /\ basep = NoBase
  /\ buffer = [i \in Places |-> Zero]

(* The constructor, once the thread exists: the first command, which makes  *)
(* an acknowledgement available to the first call.                          *)
Construct ==
  /\ emu = "construct"
  /\ emu' = "run"
  /\ pending' = Simple("NOP") /\ command_sem' = command_sem + 1
  /\ UNCHANGED <<emuVars, ack_sem, rt, streamVars, copyVars>>

(* Setting the affinity throws before the first command: cleanup().         *)
ConstructFails ==
  /\ emu = "construct" /\ AffinityFails
  /\ emu' = "exit"
  /\ UNCHANGED <<emuVars, pending, semVars, rt, streamVars, copyVars>>

(* A call that has to wait for the last acknowledgement.                    *)
PostCommand(cmd) ==
  /\ ack_sem > 0 /\ ack_sem' = ack_sem - 1
  /\ pending' = cmd
  /\ command_sem' = command_sem + 1

get_buffer ==
  /\ emu = "run" /\ ~need_sync /\ caller.which # NoStream
  /\ \E n \in Counts : got' = [k \in 1..n |-> buffer[read_pos + k - 1]]
  /\ UNCHANGED <<emu, need_sync, read_pos, caller, pending, semVars, rt,
                 streamVars, copyVars>>

(* get_buffer() after set_active_stream(): wait until the buffer is full.   *)
NeedSync ==
  /\ emu = "run" /\ need_sync
  /\ emu' = "sync"
  /\ UNCHANGED <<emuVars, pending, semVars, rt, streamVars, copyVars>>
(* Mutation: the acknowledgement is not waited for.                         *)
Sync_NoWait ==
  /\ emu = "sync"
  /\ pending' = Simple("NOP") /\ command_sem' = command_sem + 1
  /\ need_sync' = FALSE /\ emu' = "run"
  /\ UNCHANGED <<ack_sem, read_pos, caller, got, rt, streamVars, copyVars>>
Sync ==
  /\ emu = "sync"
  /\ PostCommand(Simple("NOP"))
  /\ need_sync' = FALSE /\ emu' = "run"
  /\ UNCHANGED <<read_pos, caller, got, rt, streamVars, copyVars>>

(* (prev_pos ^ read_pos) & Chunk_Size                                       *)
Bit(p) == (p \div Chunk_Size) % 2
(* Mutation: the next chunk is asked for whenever something is consumed.    *)
ChunkCrossed_Always(p, q) == p # q
ChunkCrossed(p, q) == Bit(p) # Bit(q)

Consumed(c, n) ==
  IF n <= c.lead THEN [c EXCEPT !.lead = @ - n]
  ELSE [which |-> c.which, lead |-> 0,
        pos |-> LoopedPos(c.which, c.pos + (n - c.lead))]
advance ==
  /\ emu = "run" /\ ~need_sync /\ caller.which # NoStream
  /\ \E n \in Advances :
       /\ read_pos' = (read_pos + n) % Buffer_Size
       /\ caller' = Consumed(caller, n)
  /\ got' = <<>>
  /\ emu' = IF ChunkCrossed(read_pos, read_pos') THEN "next" ELSE "run"
  /\ UNCHANGED <<need_sync, pending, semVars, rt, streamVars, copyVars>>
BufferNext ==
  /\ emu = "next"
  /\ PostCommand(Simple("BufferNext"))
  /\ emu' = "run"
  /\ UNCHANGED <<emuVars, rt, streamVars, copyVars>>

CallSetActive ==
  /\ emu = "run"
  /\ emu' = "set"
  /\ UNCHANGED <<emuVars, pending, semVars, rt, streamVars, copyVars>>
set_active_stream ==
  /\ emu = "set"
  /\ \E w \in Streams, skip \in Skips, pzb \in Leads :
       /\ PostCommand(Command("SetActive", w, skip, pzb))
       /\ caller' = [which |-> w, lead |-> pzb, pos |-> LoopedPos(w, skip)]
  /\ read_pos' = 0 /\ write_pos' = 0
  /\ got' = <<>> /\ need_sync' = TRUE /\ emu' = "run"
  /\ UNCHANGED <<rt, streamVars, count, basep, buffer>>

CallCleanup ==
  /\ emu = "run"
  /\ emu' = "exit"
  /\ UNCHANGED <<emuVars, pending, semVars, rt, streamVars, copyVars>>
cleanup ==
  /\ emu = "exit"
  /\ PostCommand(Simple("Exit"))
  /\ emu' = "join"
  /\ UNCHANGED <<emuVars, rt, streamVars, copyVars>>
Joined ==
  /\ emu = "join" /\ rt = "exited"
  /\ emu' = "closed"
  /\ UNCHANGED <<emuVars, pending, semVars, rt, streamVars, copyVars>>
-----------------------------------------------------------------------------
TakeCommand(name) ==
  /\ command_sem > 0 /\ command_sem' = command_sem - 1
  /\ pending.command = name
PostAck == ack_sem' = ack_sem + 1

HandleExit ==
  /\ rt = "wait" /\ TakeCommand("Exit")
  /\ PostAck /\ rt' = "exited"
  /\ UNCHANGED <<emu, emuVars, pending, streamVars, copyVars>>

(* Mutation: nothing done, nothing acknowledged.                            *)
HandleNOP_NoAck ==
  /\ rt = "wait" /\ TakeCommand("NOP")
  /\ UNCHANGED <<emu, emuVars, pending, ack_sem, rt, streamVars, copyVars>>
HandleNOP ==
  /\ rt = "wait" /\ TakeCommand("NOP")
  /\ PostAck
  /\ UNCHANGED <<emu, emuVars, pending, rt, streamVars, copyVars>>

(* Where to start in a stream of which skip bytes are left out.             *)
(* Mutation: the loop position is left out.                                 *)
StartPos_FromZero(s, skip) ==
  IF skip >= Size[s] /\ LoopPos[s] # Size[s]
  THEN (skip - LoopPos[s]) % (Size[s] - LoopPos[s])
  ELSE SmallerOf(skip, Size[s])
StartPos(s, skip) ==
  IF skip >= Size[s] /\ LoopPos[s] # Size[s]
  THEN LoopPos[s] + ((skip - LoopPos[s]) % (Size[s] - LoopPos[s]))
  ELSE SmallerOf(skip, Size[s])

(* The bytes behind the ring are those at its beginning.                    *)
Overbuffered(b) ==
  [i \in Places |-> IF i < Buffer_Size THEN b[i] ELSE b[i - Buffer_Size]]
Zeroed(from, n) ==
  [i \in Places |->
     IF i < Buffer_Size /\ (i - from) % Buffer_Size < n THEN Zero
     ELSE buffer[i]]

HandleSetActive ==
  /\ rt = "wait" /\ TakeCommand("SetActive")
  /\ active' = pending.which
  /\ apos' = StartPos(pending.which, pending.skip) /\ tell' = apos'
  /\ buffer' = Overbuffered(Zeroed(write_pos, pending.pzb))
  /\ write_pos' = (write_pos + pending.pzb) % Buffer_Size
  /\ count' = Buffer_Size - pending.pzb
  /\ basep' = NoBase /\ rt' = "copy"
  /\ UNCHANGED <<emu, emuVars, pending, ack_sem>>

HandleBufferNext ==
  /\ rt = "wait" /\ TakeCommand("BufferNext")
  /\ count' = Chunk_Size
  /\ basep' = NoBase /\ rt' = "copy"
  /\ UNCHANGED <<emu, emuVars, pending, ack_sem, streamVars, write_pos, buffer>>

(* read_into_buffer(): past the end of a stream that does not loop.         *)
(* Mutation: the request is not used up.                                    *)
FillZeros_Again ==
  /\ rt = "copy" /\ count > 0 /\ apos = Size[active]
  /\ buffer' = Overbuffered(Zeroed(write_pos, count))
  /\ write_pos' = (write_pos + count) % Buffer_Size
  /\ UNCHANGED <<emu, emuVars, pending, semVars, rt, streamVars, basep, count>>
FillZeros ==
  /\ rt = "copy" /\ count > 0 /\ apos = Size[active]
  /\ buffer' = Overbuffered(Zeroed(write_pos, count))
  /\ write_pos' = (write_pos + count) % Buffer_Size
  /\ count' = 0
  /\ UNCHANGED <<emu, emuVars, pending, semVars, rt, streamVars, basep>>

(* A piece up to the end of the ring, of the request or of the stream, from *)
(* the file or from the loop that is already in the buffer.                 *)
SubCount == SmallerOf(Buffer_Size - write_pos,
                      SmallerOf(count, Size[active] - apos))
SourceByte(k) ==
  IF basep = NoBase THEN ByteAt(active, tell + k)
  ELSE buffer[basep + (apos - LoopPos[active]) + k]
(* Whether the piece of n bytes just read was the loop, all of it.          *)
(* Mutations: the last piece of the loop is taken for all of it; the file   *)
(* is not moved back to the start of the loop.                              *)
WholeLoop_LastPiece(n) == LoopPos[active] < Size[active]
WholeLoop(n) ==
  /\ LoopPos[active] < Size[active]
  /\ Size[active] - LoopPos[active] = n
AfterEnd_NoSeek(n) ==
  /\ apos' = LoopPos[active]
  /\ IF basep = NoBase /\ WholeLoop(n)
     THEN basep' = write_pos /\ tell' = tell + n
     ELSE /\ basep' = basep
          /\ tell' = IF basep = NoBase THEN tell + n ELSE tell
AfterEnd(n) ==
  /\ apos' = LoopPos[active]
  /\ IF basep = NoBase /\ WholeLoop(n)
     THEN basep' = write_pos /\ tell' = tell + n
     ELSE /\ basep' = basep
          /\ tell' = IF basep = NoBase THEN LoopPos[active] ELSE tell
CopyPiece ==
  /\ rt = "copy" /\ count > 0 /\ apos < Size[active]
  /\ LET n == SubCount
     IN  /\ buffer' = [i \in Places |->
              IF i \in write_pos .. write_pos + n - 1
              THEN SourceByte(i - write_pos) ELSE buffer[i]]
         /\ write_pos' = (write_pos + n) % Buffer_Size
         /\ count' = count - n
         /\ IF apos + n = Size[active]
            THEN AfterEnd(n)
            ELSE /\ apos' = apos + n /\ UNCHANGED basep
                 /\ tell' = IF basep = NoBase THEN tell + n ELSE tell
  /\ UNCHANGED <<emu, emuVars, pending, semVars, rt, active>>

(* Mutation: the bytes behind the ring are forgotten.                       *)
FinishCopy_NoOver ==
  /\ rt = "copy" /\ count = 0
  /\ tell' = IF basep = NoBase THEN tell ELSE apos
  /\ PostAck /\ rt' = "wait"
  /\ UNCHANGED <<emu, emuVars, pending, command_sem, active, apos, write_pos,
                 count, basep, buffer>>
FinishCopy ==
  /\ rt = "copy" /\ count = 0
  /\ tell' = IF basep = NoBase THEN tell ELSE apos
  /\ buffer' = Overbuffered(buffer)
  /\ PostAck /\ rt' = "wait"
  /\ UNCHANGED <<emu, emuVars, pending, command_sem, active, apos, write_pos,
                 count, basep>>

(* A seek or read throws: the command is not acknowledged.  The thread goes *)
(* on to take commands, but there is never another one: every call waits    *)
(* for the acknowledgement first.                                           *)
ReadThrows ==
  /\ rt = "copy" /\ active \in FailingStreams
  /\ rt' = "failed"
  /\ UNCHANGED <<emu, emuVars, pending, semVars, streamVars, copyVars>>
-----------------------------------------------------------------------------
Caller ==
  \/ Construct \/ ConstructFails
  \/ get_buffer \/ NeedSync \/ Sync
  \/ advance \/ BufferNext
  \/ CallSetActive \/ set_active_stream
  \/ CallCleanup \/ cleanup \/ Joined
ReadThread ==
  \/ HandleExit \/ HandleNOP \/ HandleSetActive \/ HandleBufferNext
  \/ FillZeros \/ CopyPiece \/ FinishCopy
  \/ ReadThrows
Terminated == emu = "closed" /\ UNCHANGED vars
Next == Caller \/ ReadThread \/ Terminated
Spec == Init /\ [][Next]_vars

(* A thread that can run runs, and a semaphore that was posted wakes its    *)
(* waiter.  The caller need not begin another call.                         *)
LiveSpec ==
  /\ Spec /\ WF_vars(ReadThread)
  /\ WF_vars(Construct)
  /\ WF_vars(Sync \/ BufferNext \/ set_active_stream \/ cleanup \/ Joined)
-----------------------------------------------------------------------------
Byte == [stream : Streams \cup {NoStream}, at : Nat]
Busy == IF rt = "copy" THEN 1 ELSE 0
Waiting == emu \in {"sync", "next", "set", "exit"}

(* Every position stays inside the buffer or the active stream it indexes,  *)
(* although pieces, chunks and loops end in places that have nothing to do  *)
(* with each other.                                                         *)
TypeOK ==
  /\ emu \in {"construct", "run", "sync", "next", "set", "exit", "join",
              "closed"}
  /\ rt \in {"wait", "copy", "failed", "exited"}
  /\ need_sync \in BOOLEAN /\ read_pos \in Ring /\ write_pos \in Ring
  /\ command_sem \in 0..1 /\ ack_sem \in 0..1
  /\ active \in Streams \cup {NoStream}
  /\ active # NoStream => apos \in 0..Size[active] /\ tell \in 0..Size[active]
  /\ count \in 0..Buffer_Size /\ basep \in Ring \cup {NoBase}
  /\ buffer \in [Places -> Byte]

(* The semaphores pass one token: while the read thread has a command in    *)
(* hand no other is pending and no acknowledgement is left over, so that    *)
(* the caller cannot change pending_* or write_pos under it.                *)
OneTurn == command_sem + ack_sem + Busy <= 1

(* Nothing the read thread has yet to write lies where the caller may look, *)
(* except while the caller still has to wait for a stream it just chose.    *)
(* The header's comment: with chunks of half the buffer it would.           *)
RefillOutOfSight ==
  rt = "copy" /\ ~need_sync =>
    \A k \in 0 .. Overbuffer_Count - 1 :
      (read_pos + k - write_pos) % Buffer_Size >= count

(* What the caller sees through get_buffer() is the looped stream, whatever *)
(* the chunk, the stream's end and the ring's end are when it is read.      *)
Promise == INSTANCE LoopedStream WITH
  which <- caller.which, lead <- caller.lead, pos <- caller.pos
ImplementsStream == Promise!Spec

(* Every call returns, unless a read or the constructor failed before: no   *)
(* acknowledgement is forgotten, whatever the order of the calls.           *)
Failed ==
  \/ rt = "failed"
  \/ AffinityFails /\ emu = "exit" /\ caller.which = NoStream
CallsReturn == Waiting \/ emu = "join" ~> emu \in {"run", "closed"} \/ Failed
=============================================================================
