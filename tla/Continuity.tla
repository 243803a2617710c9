----------------------------- MODULE Continuity -----------------------------
(***************************************************************************)
(* What is kept from one turn to the next: the memory files (MemoryFiles), *)
(* memory cards (MemoryCards), and the native sessions of coding agents    *)
(* (CliSession).  They do not share state, so a behaviour is about one of  *)
(* them: the variables of the others rest.  A constant or a variable that  *)
(* two components name alike has a name of its own here.                   *)
(***************************************************************************)
EXTENDS MemoryFiles

\* Of MemoryCards and of CliSession, as they describe them.
CONSTANTS
    Request, Text,
    CliRun, Other, Binding, MaxTurns, MaxAttempts

\* A request names itself when it holds the write lock, and a card has a text.
ASSUME CardsAssumption == "none" \notin Request \cup Text

\* A session is named after the run that created it; the messages of other
\* backends are not those of the CLI's runs.
ASSUME SessionsAssumption ==
    "none" \notin CliRun /\ CliRun \cap Other = {} /\ MaxTurns \in Nat

VARIABLES
    part,       \* the component this behaviour is about
    card, origin, vectors, draft, writer, req,
    entry, attempted, lease, job, messages, known, live, attempts, spawned

Store == INSTANCE MemoryCards
Cli   == INSTANCE CliSession WITH Run <- CliRun, history <- messages

cardsVars    == <<card, origin, vectors, draft, writer, req>>
sessionsVars == <<entry, attempted, lease, job, messages, known, live, attempts, spawned>>

-----------------------------------------------------------------------------
(* One component is at work in a behaviour.                                *)

FilesRest ==
    /\ turn = 0 /\ queue = 0 /\ awaited = 0 /\ lock = 0 /\ buffer = 0 /\ count = 0
    /\ window = 0 /\ todo = 0 /\ made = 0 /\ notes = 0 /\ recent = 0 /\ history = 0
    /\ pending = 0 /\ cards = 0 /\ editor = 0 /\ failed = 0
CardsRest ==
    /\ card = 0 /\ origin = 0 /\ vectors = 0 /\ draft = 0 /\ writer = 0 /\ req = 0
SessionsRest ==
    /\ entry = 0 /\ attempted = 0 /\ lease = 0 /\ job = 0 /\ messages = 0 /\ known = 0
    /\ live = 0 /\ attempts = 0 /\ spawned = 0

InitAll ==
    /\ part \in {"files", "cards", "sessions"}
    /\ IF part = "files" THEN Init ELSE FilesRest
    /\ IF part = "cards" THEN Store!Init ELSE CardsRest
    /\ IF part = "sessions" THEN Cli!Init ELSE SessionsRest

FilesStep    == part = "files" /\ Next /\ UNCHANGED <<part, cardsVars, sessionsVars>>
CardsStep    == part = "cards" /\ Store!Next /\ UNCHANGED <<part, vars, sessionsVars>>
SessionsStep == part = "sessions" /\ Cli!Next /\ UNCHANGED <<part, vars, cardsVars>>

NextAll == FilesStep \/ CardsStep \/ SessionsStep

allVars == <<part, vars, cardsVars, sessionsVars>>

SpecAll == InitAll /\ [][NextAll]_allVars

-----------------------------------------------------------------------------
(* A card that was saved by hand or by an approved tool is found by its    *)
(* current text and by no other (MemoryService.update, _upsert_embedding). *)
(* It does not hold: see the run recall_stale.                             *)
RecallCurrent == part = "cards" => Store!RecallCurrent

(* Such a card never loses its vector, never gets a second one, leaves     *)
(* none behind, and is not summed up as it was before                      *)
(* (MemoryService.create, update, delete).                                 *)
IndexedTogether == part = "cards" => Store!IndexedTogether

(* A native session is never told a turn twice, and nothing that was not   *)
(* finished; what a dispatch leaves out was told to the session it         *)
(* resumes; no session is resumed under a CLI that may still work in it,   *)
(* and a task is handed to a CLI once (cli_session_store's locks, receipts *)
(* and fingerprints).                                                      *)
SessionsHonest ==
    part = "sessions" =>
        /\ Cli!ToldOnce /\ Cli!OnlyFinishedTold /\ Cli!LeftOutIsKnown
        /\ Cli!QuietResume /\ Cli!HandedOnce

(* No turn is consolidated twice, and none is forgotten, by overlapping    *)
(* consolidations and restarts; what a failing disk costs is bounded (the  *)
(* workspace lock and the buffers of MemoryConsolidationService).          *)
TurnsWeighed == part = "files" => EachTurnWeighedOnce

(* What a person or a consolidation wrote into a memory file is removed    *)
(* only by a person who had it on the screen: neither the merges in the    *)
(* background nor a save from an outdated page undoes it unseen (the       *)
(* revision an editor sends, and the merges of the store).                 *)
NotesKept ==
    [][part = "files" =>
        \A k \in Kinds : \A n \in notes[k] \ notes'[k] :
            \E e \in Editor : /\ editor[e].doc = k
                              /\ editor'[e].doc = None
                              /\ n \in editor[e].seen.notes]_allVars
=============================================================================
