------------------------------- MODULE Cheats -------------------------------
(***************************************************************************)
(* mempatcher.cpp: the list of cheats and the file they are kept in.  The  *)
(* list is a set here.  What a cheat does to the emulated machine is left  *)
(* out.  A file operation may fail: writing leaves the file as it was (it  *)
(* goes to a temporary file, renamed at the end), reading stops half way.  *)
(***************************************************************************)
CONSTANT AllCheats

VARIABLES
  cheats, savecheats,
  file,     \* the game's section of the cheat file
  mine,     \* history: the cheats as the user left them outside network play
  lost      \* history: the file could not be read or written, or logging
            \* in to a server failed with cheats unsaved
listVars == <<cheats, savecheats>>
cheatHist == <<mine, lost>>
cheatVars == <<listVars, file, cheatHist>>

CheatsInit ==
  /\ file \in SUBSET AllCheats /\ cheats = file /\ mine = file
  /\ savecheats = FALSE /\ lost = FALSE

(* MDFNI_AddCheat() and MDFNI_DelCheat(); a cheat that is edited or toggled *)
(* is another one.  What is done during network play is not to be kept.     *)
Edited(set, during) ==
  /\ cheats' = set /\ savecheats' = TRUE
  /\ mine' = (IF during THEN mine ELSE set)
  /\ UNCHANGED <<file, lost>>
AddCheat(c, during) == Edited(cheats \cup {c}, during)
DelCheat(c, during) == c \in cheats /\ Edited(cheats \ {c}, during)

(* MDFN_FlushGameCheats(0): what could not be written is dropped all the    *)
(* same, and savecheats stays set.                                          *)
(* Mutation: the list is left to its fate.                                  *)
FlushGameCheats_NoSave == cheats' = {} /\ UNCHANGED <<savecheats, file, cheatHist>>
FlushGameCheats ==
  /\ cheats' = {} /\ UNCHANGED mine
  /\ \/ savecheats /\ file' = cheats /\ savecheats' = FALSE /\ UNCHANGED lost
     \/ savecheats /\ lost' = TRUE /\ UNCHANGED <<savecheats, file>>
     \/ ~savecheats /\ UNCHANGED <<savecheats, file, lost>>

(* MDFN_LoadGameCheats(), which appends, to the list dropped before.        *)
Loaded(unsaved) ==
  \/ cheats' = file /\ lost' = (lost \/ unsaved)
  \/ cheats' \in SUBSET file /\ lost' = TRUE
LoadGameCheats ==
  Loaded(FALSE) /\ savecheats' = FALSE /\ UNCHANGED <<file, mine>>

(* MDFNI_NetplayDisconnect(): FlushGameCheats(1), then LoadGameCheats(0).   *)
(* Mutation: the list is saved before it is dropped.                        *)
Reload_Saved(login) ==
  /\ file' = cheats /\ cheats' = cheats /\ savecheats' = FALSE
  /\ lost' = (lost \/ (login /\ savecheats)) /\ UNCHANGED mine
Reload(login) ==
  /\ Loaded(login /\ savecheats) /\ savecheats' = FALSE
  /\ UNCHANGED <<file, mine>>
=============================================================================
