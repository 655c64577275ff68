------------------------------ MODULE Knowledge ------------------------------
(***************************************************************************)
(* A project's knowledge base (knowledge.rs, store/knowledge.rs, know_* in *)
(* api.rs): note files, the SQLite index of them and index.md with its     *)
(* Catalog and the human's Digest, under `dflow know add` of agents at a   *)
(* time, a human with an editor, and a daemon that may die and start.      *)
(*                                                                         *)
(* A file is written by truncating and then filling it (fs::write); a      *)
(* directory scan is one step.  What a note says is a number, what a scan  *)
(* finds in a note cut off is nothing but its id.                          *)
(***************************************************************************)
EXTENDS Integers, FiniteSets

CONSTANTS
    Adders,       \* connections of one task token, one `know add` at a time each
    NoteIds,      \* type directory and kebab-case title
    NoteBudget,   \* budget_notes of the token
    MaxAdds,      \* bound: calls
    MaxSaves,     \* bound: what the human saves, notes or Digest
    MaxDeaths     \* bound: times the daemon dies

ASSUME KnowledgeAssumption ==
    /\ IsFiniteSet(Adders) /\ IsFiniteSet(NoteIds)
    /\ {NoteBudget, MaxAdds, MaxSaves, MaxDeaths} \subseteq Nat

NoSuchNote == 0
CutOff == -1

VARIABLES
    notes,       \* the note files
    indexed,     \* knowledge_notes
    page,        \* index.md
    adds,        \* every adder's call
    noted,       \* notes_used of the token
    counts,      \* calls, saves and deaths so far
    digest,      \* the Digest the human saved, or the last call that began alone found
    apart        \* since then calls overlapped, one was cut off by the daemon's death,
                 \* or the human saved a note, or the Digest during a call

knowVars == << notes, indexed, page, adds, noted, counts, digest, apart >>

NoNotes  == [n \in NoteIds |-> NoSuchNote]
NoDigest == 0
EmptyPage == [digest |-> NoDigest, catalog |-> NoNotes]
NoAdd == [at |-> "idle", id |-> "none", says |-> 0, scan |-> NoNotes, read |-> NoDigest]

KnowInit ==
    /\ notes = NoNotes /\ indexed = NoNotes
    /\ page = [EmptyPage EXCEPT !.digest = 1] /\ digest = 1
    /\ adds = [a \in Adders |-> NoAdd]
    /\ noted = 0 /\ counts = [adds |-> 0, saves |-> 0, deaths |-> 0] /\ apart = FALSE

Busy == {a \in Adders : adds[a].at # "idle"}
Adding(a, step) == adds[a].at = step
Proceed(a, step) == adds' = [adds EXCEPT ![a].at = step]

-----------------------------------------------------------------------------
(* know_add.                                                               *)

\* note_budget_ok, long before the note is recorded.
NotesLeft == noted < NoteBudget

AskAdd(a, n) ==
    /\ Adding(a, "idle") /\ counts.adds < MaxAdds
    /\ NotesLeft
    /\ adds' = [adds EXCEPT ![a] = [NoAdd EXCEPT !.at = "open", !.id = n, !.says = counts.adds + 1]]
    /\ counts' = [counts EXCEPT !.adds = @ + 1]
    /\ apart' = (Busy # {})
    /\ digest' = IF Busy = {} THEN page.digest ELSE digest
    /\ UNCHANGED << notes, indexed, page, noted >>

\* write_note: an existing id is replaced.
OpenNote(a) ==
    /\ Adding(a, "open") /\ Proceed(a, "fill")
    /\ notes' = [notes EXCEPT ![adds[a].id] = CutOff]
    /\ UNCHANGED << indexed, page, noted, counts, digest, apart >>

FillNote(a) ==
    /\ Adding(a, "fill") /\ Proceed(a, "scan")
    /\ notes' = [notes EXCEPT ![adds[a].id] = adds[a].says]
    /\ UNCHANGED << indexed, page, noted, counts, digest, apart >>

ScanNotes(a) ==
    /\ Adding(a, "scan")
    /\ adds' = [adds EXCEPT ![a].at = "rebuild", ![a].scan = notes]
    /\ UNCHANGED << notes, indexed, page, noted, counts, digest, apart >>

\* A slip: rows are added and changed, and none deleted.
RebuildKeeps(a) ==
    /\ Adding(a, "rebuild") /\ Proceed(a, "read")
    /\ indexed' = [n \in NoteIds |-> IF adds[a].scan[n] = NoSuchNote THEN indexed[n] ELSE adds[a].scan[n]]
    /\ UNCHANGED << notes, page, noted, counts, digest, apart >>

\* rebuild_knowledge_index: the project's rows are replaced in one transaction.
Rebuild(a) ==
    /\ Adding(a, "rebuild") /\ Proceed(a, "read")
    /\ indexed' = adds[a].scan
    /\ UNCHANGED << notes, page, noted, counts, digest, apart >>

\* regenerate_catalog keeps the Digest it reads.
ReadPage(a) ==
    /\ Adding(a, "read")
    /\ adds' = [adds EXCEPT ![a].at = "truncate", ![a].read = page.digest]
    /\ UNCHANGED << notes, indexed, page, noted, counts, digest, apart >>

TruncatePage(a) ==
    /\ Adding(a, "truncate") /\ Proceed(a, "write")
    /\ page' = EmptyPage
    /\ UNCHANGED << notes, indexed, noted, counts, digest, apart >>

WritePage(a) ==
    /\ Adding(a, "write") /\ Proceed(a, "record")
    /\ page' = [digest |-> adds[a].read, catalog |-> adds[a].scan]
    /\ UNCHANGED << notes, indexed, noted, counts, digest, apart >>

\* The event on the card; record_note.
RecordNote(a) ==
    /\ Adding(a, "record")
    /\ adds' = [adds EXCEPT ![a] = NoAdd] /\ noted' = noted + 1
    /\ UNCHANGED << notes, indexed, page, counts, digest, apart >>

-----------------------------------------------------------------------------
(* The human, who edits the files as files; the daemon's end and start.    *)

\* A note is changed, made or deleted; the index learns of it with the next
\* call or start.
SaveNote(n) ==
    /\ counts.saves < MaxSaves
    /\ counts' = [counts EXCEPT !.saves = @ + 1]
    /\ \E says \in {NoSuchNote, MaxAdds + counts.saves + 1} :
         /\ says # notes[n]
         /\ notes' = [notes EXCEPT ![n] = says]
    /\ apart' = TRUE
    /\ UNCHANGED << indexed, page, adds, noted, digest >>

SaveDigest ==
    /\ counts.saves < MaxSaves
    /\ counts' = [counts EXCEPT !.saves = @ + 1]
    /\ digest' = counts.saves + 2
    /\ page' = [page EXCEPT !.digest = digest']
    /\ apart' = (apart \/ Busy # {})
    /\ UNCHANGED << notes, indexed, adds, noted >>

\* Calls end where they are, and the token with them; a start rebuilds the index
\* of every project and leaves index.md alone.
DieAndStart ==
    /\ counts.deaths < MaxDeaths
    /\ counts' = [counts EXCEPT !.deaths = @ + 1]
    /\ adds' = [a \in Adders |-> NoAdd] /\ noted' = 0
    /\ indexed' = notes
    /\ apart' = (apart \/ Busy # {})
    /\ UNCHANGED << notes, page, digest >>

AddSteps(a) == \/ OpenNote(a) \/ FillNote(a) \/ ScanNotes(a) \/ Rebuild(a)
               \/ ReadPage(a) \/ TruncatePage(a) \/ WritePage(a) \/ RecordNote(a)

KnowNext ==
    \/ \E a \in Adders : AddSteps(a) \/ \E n \in NoteIds : AskAdd(a, n)
    \/ \E n \in NoteIds : SaveNote(n)
    \/ SaveDigest \/ DieAndStart

KnowSpec == KnowInit /\ [][KnowNext]_knowVars

-----------------------------------------------------------------------------
(* Properties.                                                             *)

\* The types of the variables.
KnowTypeOK ==
    LET Says == CutOff .. MaxAdds + MaxSaves
    IN  /\ {notes, indexed, page.catalog} \subseteq [NoteIds -> Says]
        /\ page.digest \in 0 .. MaxSaves + 1 /\ digest \in 0 .. MaxSaves + 1 /\ apart \in BOOLEAN
        /\ \A a \in Adders :
             /\ adds[a].at \in {"idle", "open", "fill", "scan", "rebuild", "read", "truncate", "write", "record"}
             /\ Adding(a, "idle") <=> adds[a] = NoAdd
        /\ noted \in 0 .. MaxAdds

\* "a fast index rebuilt from these files, never a second source of truth": an
\* add that runs alone leaves the index and the Catalog in agreement with the
\* note files, whatever crossed writes, a crash or an editor had left before it,
\* and the Digest as it found it.
AloneAllAgree ==
    Busy = {} /\ ~apart => indexed = notes /\ page.catalog = notes /\ page.digest = digest

\* "all daemon writes serialize through the single writer task, so concurrent
\* `know add` from parallel sessions cannot corrupt files": when no call runs,
\* the Digest is the human's.
DigestIsKept == Busy = {} => page.digest = digest
===============================================================================
