---------------------------- MODULE SectorWidget ----------------------------
(***************************************************************************)
(* The tracking sector, an arc of bearings: the compass widget that edits  *)
(* it in a page (dashboard/public/app.js), the tool that sets it           *)
(* (sector-tools.ts), the store that keeps it over restarts                *)
(* (sector-store.ts) and the test that applies it (track/sector.ts).       *)
(*                                                                         *)
(* A bearing is a number of steps from north, 0 .. Turn, where Turn stands *)
(* for 360 degrees and is not yet normalised to 0.                         *)
(***************************************************************************)
EXTENDS Naturals

CONSTANTS
  Widgets,  \* the sector widget of each browser page
  Turn,     \* steps in a full turn
  Drops,    \* bearings a handle may be dragged to
  Files,    \* sectors saved by an earlier run
  Edits     \* bound on the POSTs

Sectors == [enabled : BOOLEAN, from : 0 .. Turn, to : 0 .. Turn]

(* Dragging never yields a raw full turn: bearingFromPoint normalises.     *)
ASSUME SectorAssumption ==
  /\ {Turn, Edits} \subseteq Nat /\ Turn > 2
  /\ Drops \subseteq 0 .. Turn - 1
  /\ Files \subseteq Sectors

VARIABLES
  local,   \* per page, sectorLocal
  asked,   \* pages whose initSector has not been answered
  held,    \* pages one of whose handles is being dragged
  timer,   \* pages with a sectorPostTimer
  halted,  \* pages that are E-STOPped
  posts,   \* the sectors on their way to the daemon
  edits,   \* POSTs so far
  sector,  \* SectorStore.sector
  file,    \* what the sector file holds
  tried    \* history: what a restart may load: the last sector whose tool
           \* answered, and those of calls since then that did not

sectorPageVars == <<local, asked, held, timer, halted, posts, edits>>
storeVars == <<sector, file, tried>>
sectorVars == <<sectorPageVars, storeVars>>

DISABLED_SECTOR == [enabled |-> FALSE, from |-> 0, to |-> Turn]
Torn == [DISABLED_SECTOR EXCEPT !.to = Turn + 1]

SectorTypeOK ==
  /\ local \in [Widgets -> Sectors]
  /\ {asked, held, timer, halted} \subseteq SUBSET Widgets
  /\ posts \subseteq Sectors
  /\ edits \in 0 .. Edits
  /\ sector \in Sectors
  /\ file \in Sectors \cup {Torn}
  /\ tried \subseteq Sectors

Norm(b) == b % Turn
FullTurn(s) == {s.from, s.to} = {0, Turn}

(* Mutant: a raw bearing of a full turn is compared as it stands.          *)
InArcRaw(az, s) ==
  \/ ~ s.enabled
  \/ FullTurn(s)
  \/ IF s.from <= s.to THEN az \in s.from .. s.to ELSE az >= s.from \/ az <= s.to

InArc(az, s) ==
  \/ ~ s.enabled
  \/ FullTurn(s)
  \/ IF Norm(s.from) <= Norm(s.to)
       THEN az \in Norm(s.from) .. Norm(s.to)
       ELSE az >= Norm(s.from) \/ az <= Norm(s.to)

(* The spans the wedge is drawn from.                                      *)
sectorArcSpans(s) ==
  IF Norm(s.from) <= Norm(s.to)
    THEN {<<Norm(s.from), Norm(s.to)>>}
    ELSE {<<Norm(s.from), Turn>>, <<0, Norm(s.to)>>}

(* The disabled default would put both handles at north.                   *)
SeedNonDegenerate(s) ==
  IF s = DISABLED_SECTOR THEN [s EXCEPT !.from = 1, !.to = Turn - 1] ELSE s

(* A missing or corrupt file is a disabled sector.                         *)
Load(f) == IF f = Torn THEN DISABLED_SECTOR ELSE f

SectorInit ==
  /\ file \in Files
  /\ sector = Load(file)
  /\ tried = {sector}
  /\ local = [p \in Widgets |-> SeedNonDegenerate(DISABLED_SECTOR)]
  /\ asked = Widgets
  /\ held = {}
  /\ timer = {}
  /\ halted = {}
  /\ posts = {}
  /\ edits = 0
-----------------------------------------------------------------------------
(* initSector: the answer replaces whatever has been drawn meanwhile; a    *)
(* failure leaves it.                                                      *)
SectorLoaded(p) ==
  /\ p \in asked
  /\ asked' = asked \ {p}
  /\ \/ local' = [local EXCEPT ![p] = SeedNonDegenerate(sector)]
     \/ UNCHANGED local
  /\ UNCHANGED <<held, timer, halted, posts, edits, storeVars>>

LatchChanges(p) ==
  /\ halted' = IF p \in halted THEN halted \ {p} ELSE halted \cup {p}
  /\ UNCHANGED <<local, asked, held, timer, posts, edits, storeVars>>

PostDebounced(p) == timer' = IF p \in halted THEN timer ELSE timer \cup {p}

PointerDown(p) ==
  /\ p \notin halted \cup held
  /\ held' = held \cup {p}
  /\ UNCHANGED <<local, asked, timer, halted, posts, edits, storeVars>>

PointerMove(p) ==
  /\ p \in held
  /\ \E b \in Drops, end \in {"from", "to"} :
       local' = [local EXCEPT ![p][end] = b]
  /\ UNCHANGED <<asked, held, timer, halted, posts, edits, storeVars>>

(* pointerup or pointercancel.                                             *)
PointerUp(p) ==
  /\ p \in held
  /\ held' = held \ {p}
  /\ PostDebounced(p)
  /\ UNCHANGED <<local, asked, halted, posts, edits, storeVars>>

SectorEnable(p) ==
  /\ p \notin halted
  /\ local' = [local EXCEPT ![p].enabled = ~ @]
  /\ PostDebounced(p)
  /\ UNCHANGED <<asked, held, halted, posts, edits, storeVars>>

(* The POST carries what the page has by now, latched or not.              *)
TimerFires(p) ==
  /\ p \in timer
  /\ edits < Edits
  /\ edits' = edits + 1
  /\ timer' = timer \ {p}
  /\ posts' = posts \cup {local[p]}
  /\ UNCHANGED <<local, asked, held, halted, storeVars>>

PostFails ==
  /\ \E s \in posts : posts' = posts \ {s}
  /\ UNCHANGED <<local, asked, held, timer, halted, edits, storeVars>>
-----------------------------------------------------------------------------
(* set_track_sector: memory first, then a temporary file renamed.          *)
SetSector ==
  \E s \in posts :
    /\ posts' = posts \ {s}
    /\ sector' = s
    /\ file' = s
    /\ tried' = {s}
    /\ UNCHANGED <<local, asked, held, timer, halted, edits>>

(* A write or the rename throws: the sector is in force and not saved.     *)
SetSectorThrows ==
  \E s \in posts :
    /\ posts' = posts \ {s}
    /\ sector' = s
    /\ tried' = tried \cup {s}
    /\ UNCHANGED <<local, asked, held, timer, halted, edits, file>>

(* Mutant: the file is written in place.                                   *)
FileAfterCrashInPlace(s) == {file, s, Torn}

(* Before the rename, or after it; the temporary file may be torn.         *)
FileAfterCrash(s) == {file, s}

(* The daemon dies while it sets, and is started again.                    *)
SetSectorDies ==
  \E s \in posts :
    /\ posts' = posts \ {s}
    /\ file' \in FileAfterCrash(s)
    /\ sector' = Load(file')
    /\ tried' = tried \cup {s}
    /\ UNCHANGED <<local, asked, held, timer, halted, edits>>

DaemonReloads ==
  /\ sector' = Load(file)
  /\ UNCHANGED <<sectorPageVars, file, tried>>

SectorNext ==
  \/ \E p \in Widgets :
       \/ SectorLoaded(p)
       \/ LatchChanges(p)
       \/ PointerDown(p)
       \/ PointerMove(p)
       \/ PointerUp(p)
       \/ SectorEnable(p)
       \/ TimerFires(p)
  \/ PostFails
  \/ SetSector
  \/ SetSectorThrows
  \/ SetSectorDies
  \/ DaemonReloads

SectorSpec == SectorInit /\ [][SectorNext]_sectorVars
-----------------------------------------------------------------------------
(* sector-store.ts:16-33: whenever the daemon dies, it comes back with the *)
(* last sector it has acknowledged or with one it was asked for since,     *)
(* never without the restriction nobody lifted.                            *)
RestartKeepsSector == {sector, Load(file)} \subseteq tried

(* app.js:584-595: the wedge a page draws is the arc the daemon would      *)
(* admit, whatever was loaded, dragged and wrapped through north; but for  *)
(* a full turn, which admits everything and is drawn as a line.            *)
DrawnIsAdmitted ==
  \A p \in Widgets : \A az \in 0 .. Turn - 1 :
    local[p].enabled /\ ~ FullTurn(local[p])
      => (InArc(az, local[p]) <=> \E span \in sectorArcSpans(local[p]) :
                                    az \in span[1] .. span[2])
=============================================================================
