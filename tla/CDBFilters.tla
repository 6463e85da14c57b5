----------------------------- MODULE CDBFilters -----------------------------
(***************************************************************************)
(* The selectors of the Saturn's CD block, ss/cdb.cpp: which filter the    *)
(* drive is connected to, and where a filter sends the sectors that meet   *)
(* its conditions (TrueConn, a partition) and those that do not            *)
(* (FalseConn, another filter).  Here is only how commands and the file    *)
(* system (FLS) change the connections; CDBBuffers sends sectors through   *)
(* them.                                                                   *)
(***************************************************************************)
EXTENDS Integers

CONSTANT NumSelectors      \* 0x18
ASSUME SelectorsAssumption == NumSelectors \in 1..24

FF == 255                  \* not connected; no buffer
Selectors == 0 .. NumSelectors - 1
Connectors == Selectors \cup {FF}

VARIABLE conn  \* CDDevConn and, of each filter, TrueConn, FalseConn, and
               \* whether its conditions may refuse a sector (Mode # 0)

(* Flags of COMMAND_RESET_SEL that concern the selectors.                   *)
ResetFlags == {"partitions", "conditions", "inputs", "true", "false"}
-----------------------------------------------------------------------------
SWReset_Conn == [CDDevConn |-> FF,
                 TrueConn |-> [f \in Selectors |-> f],
                 FalseConn |-> [f \in Selectors |-> FF],
                 selective |-> [f \in Selectors |-> FALSE]]

NoFalseConnTo(c, f) ==
  [g \in Selectors |-> IF c.FalseConn[g] = f THEN FF ELSE c.FalseConn[g]]

(* A filter has one input: the drive takes it from another filter's output, *)
(* and the other way round; the host takes it from both.                    *)
SetCDDeviceConn(c, f) ==
  [c EXCEPT !.FalseConn = NoFalseConnTo(c, f), !.CDDevConn = f]

Filter_DisconnectInput(c, f) ==
  IF f = FF THEN c
  ELSE [c EXCEPT !.CDDevConn = IF c.CDDevConn = f THEN FF ELSE c.CDDevConn,
                 !.FalseConn = NoFalseConnTo(c, f)]

(* Mutation: the drive keeps its connection to the filter.                  *)
Filter_SetFalseConn_KeepDevice(c, f, to) ==
  [c EXCEPT !.FalseConn = [NoFalseConnTo(c, to) EXCEPT ![f] = to]]
Filter_SetFalseConn(c, f, to) ==
  LET d == Filter_DisconnectInput(c, to)
  IN  [d EXCEPT !.FalseConn = [d.FalseConn EXCEPT ![f] = to]]

Filter_SetTrueConn(c, f, to) ==
  [c EXCEPT !.TrueConn = [c.TrueConn EXCEPT ![f] = to]]
Filter_SetMode(c, f, selects) ==
  [c EXCEPT !.selective = [c.selective EXCEPT ![f] = selects]]

(* What FLS_Run() and COMMAND_READ_FILE begin with: the drive's sectors,    *)
(* all of them or those of the file, go to the partition f.                 *)
Routed(c, f, selects) ==
  LET device == SetCDDeviceConn(c, f)
      straight == Filter_SetTrueConn(device, f, f)
      closed == Filter_SetFalseConn(straight, f, FF)
  IN  Filter_SetMode(closed, f, selects)

(* COMMAND_RESET_SEL, once its time has come.                               *)
ResetSel(c, flags) ==
  [CDDevConn |-> IF "inputs" \in flags THEN FF ELSE c.CDDevConn,
   TrueConn |-> IF "true" \in flags THEN [f \in Selectors |-> f]
                ELSE c.TrueConn,
   FalseConn |-> IF flags \cap {"inputs", "false"} # {}
                 THEN [f \in Selectors |-> FF] ELSE c.FalseConn,
   selective |-> IF "conditions" \in flags
                 THEN [f \in Selectors |-> FALSE] ELSE c.selective]
-----------------------------------------------------------------------------
ConnInit == conn = SWReset_Conn

SetDevice == \E f \in Connectors : conn' = SetCDDeviceConn(conn, f)
SetFalse == \E f \in Selectors, to \in Connectors :
              conn' = Filter_SetFalseConn(conn, f, to)
SetTrue == \E f \in Selectors, to \in Connectors :
             conn' = Filter_SetTrueConn(conn, f, to)
SetMode == \E f \in Selectors, b \in BOOLEAN :
             conn' = Filter_SetMode(conn, f, b)
TakeInput == \E f \in Selectors : conn' = Filter_DisconnectInput(conn, f)
Route == \E f \in Selectors, b \in BOOLEAN : conn' = Routed(conn, f, b)
Reset == \E flags \in SUBSET ResetFlags : conn' = ResetSel(conn, flags)
SWReset == conn' = SWReset_Conn

ConnNext == SetDevice \/ SetFalse \/ SetTrue \/ SetMode \/ TakeInput \/ Route
            \/ Reset \/ SWReset
ConnSpec == ConnInit /\ [][ConnNext]_conn
-----------------------------------------------------------------------------
ConnTypeOK ==
  conn \in [CDDevConn : Connectors, TrueConn : [Selectors -> Connectors],
            FalseConn : [Selectors -> Connectors],
            selective : [Selectors -> BOOLEAN]]

(* A filter's input comes from one place.  So a sector that starts at the   *)
(* drive's filter, or at one whose input the host has just taken, meets no  *)
(* filter twice: the bound on FilterBuf()'s loop is never what ends it.     *)
OneSource ==
  /\ \A f, g \in Selectors :
       conn.FalseConn[f] = conn.FalseConn[g] /\ conn.FalseConn[f] # FF => f = g
  /\ conn.CDDevConn # FF
     => \A f \in Selectors : conn.FalseConn[f] # conn.CDDevConn
=============================================================================
