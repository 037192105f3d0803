--------------------------- MODULE SnapshotArchive ---------------------------
(***************************************************************************)
(* GET /snapshots and GET /snapshots/{id} read the files that worker       *)
(* threads write at the same time.  Both handlers are synchronous inside   *)
(* the event loop: while one reads, no other handler runs, but the threads *)
(* do.                                                                     *)
(***************************************************************************)
EXTENDS AnalysisSession

VARIABLES
  job,     \* "idle", "listing", or "loading" after path.exists() was true
  subject, \* the analysis being loaded (any, when none is)
  todo,    \* files of the glob that list_snapshots has still to parse
  rows,    \* rows collected so far
  listed,  \* answer to the last request if a list: "rows" or "error" (500)
  loaded,  \* the same for a load: "report", "missing" (404) or "error"
  due      \* history: results the request has to find

readerVars == <<job, subject, todo, rows, listed, loaded, due>>
archiveVars == <<vars, readerVars>>

Files == {a \in Analyses : snapshot[a] # "absent"}

\* Results that a client was told are complete and whose run is over.
Settled == {a \in Analyses : pc[a] \in Finished /\ status[a] = "COMPLETED"}

ArchiveInit ==
  /\ job = "idle"
  /\ subject \in Analyses
  /\ todo = {}
  /\ rows = {}
  /\ listed = "none"
  /\ loaded = "none"
  /\ due = {}

\* list_snapshots: the directory is read once, then every file in turn.
StartList ==
  /\ job = "idle" /\ LoopFree
  /\ job' = "listing"
  /\ todo' = Files
  /\ rows' = {}
  /\ due' = Settled
  /\ listed' = "none" /\ loaded' = "none"
  /\ UNCHANGED <<vars, subject>>

\* Seeded fault: the first file that cannot be parsed ends the list early.
ParseNextOrStop ==
  /\ job = "listing"
  /\ \E a \in todo :
       IF snapshot[a] = "whole"
       THEN /\ todo' = todo \ {a}
            /\ rows' = rows \cup {a}
            /\ UNCHANGED <<job, listed>>
       ELSE /\ job' = "idle"
            /\ listed' = "rows"
            /\ todo' = {}
            /\ UNCHANGED rows
  /\ UNCHANGED <<vars, subject, loaded, due>>

\* json.loads of one file.  A torn one raises out of the whole list.
ParseNext ==
  /\ job = "listing"
  /\ \E a \in todo :
       IF snapshot[a] = "whole"
       THEN /\ todo' = todo \ {a}
            /\ rows' = rows \cup {a}
            /\ UNCHANGED <<job, listed>>
       ELSE /\ job' = "idle"
            /\ listed' = "error"
            /\ todo' = {}
            /\ UNCHANGED rows
  /\ UNCHANGED <<vars, subject, loaded, due>>

FinishList ==
  /\ job = "listing" /\ todo = {}
  /\ job' = "idle"
  /\ listed' = "rows"
  /\ UNCHANGED <<vars, subject, todo, rows, loaded, due>>

\* load_snapshot: exists(), then read and parse.
StartLoad(a) ==
  /\ job = "idle" /\ LoopFree
  /\ subject' = a
  /\ due' = Settled
  /\ IF a \in Files
     THEN job' = "loading" /\ loaded' = "none"
     ELSE loaded' = "missing" /\ UNCHANGED job
  /\ listed' = "none"
  /\ UNCHANGED <<vars, todo, rows>>

FinishLoad ==
  /\ job = "loading"
  /\ job' = "idle"
  /\ loaded' = IF snapshot[subject] = "whole" THEN "report" ELSE "error"
  /\ UNCHANGED <<vars, subject, todo, rows, listed, due>>

Reader ==
  \/ StartList \/ ParseNext \/ FinishList
  \/ (\E a \in Analyses : StartLoad(a)) \/ FinishLoad

\* A restart also ends the request that is being served.
RestartArchive ==
  /\ Restart
  /\ job' = "idle" /\ todo' = {} /\ listed' = "none" /\ loaded' = "none"
  /\ UNCHANGED <<subject, rows, due>>

ArchiveNext ==
  \/ RestartArchive
  \/ Reader
  \/ \E a \in Analyses :
       /\ Thread(a) \/ (job = "idle" /\ Handler(a))
       /\ UNCHANGED readerVars

ArchiveSpec == Init /\ ArchiveInit /\ [][ArchiveNext]_archiveVars

----------------------------------------------------------------------------
(* Properties                                                              *)

(* A list that is answered misses no result that was settled when the      *)
(* request came, and shows only results that can be loaded, whatever the   *)
(* threads wrote meanwhile.                                                *)
ListIsComplete ==
  listed = "rows" =>
    /\ due \subseteq rows
    /\ \A a \in rows : snapshot[a] = "whole"

(* A settled result can be loaded by its id at every moment, whatever      *)
(* happens to the files of other analyses.                                 *)
SettledLoads == subject \in due => loaded \notin {"missing", "error"}

(* A settled result stays in reach of the list (session_store.py:3-4,      *)
(* routes.py:120): a list fails at most while some run is under way.        *)
SettledStaysListed ==
  [][listed' = "error" /\ due # {}
       => \E a \in Analyses : pc[a] \in InThread]_listed

----------------------------------------------------------------------------
(* A file that is whole stays whole, and what a request has to find is in  *)
(* whole files: that makes the two invariants inductive, with IInv.        *)
ArchiveInv ==
  /\ \A a \in rows \cup due : a \in Analyses /\ snapshot[a] = "whole"
  /\ todo \subseteq Analyses
  /\ job \in {"idle", "listing", "loading"}
  /\ job = "listing" => due \subseteq rows \cup todo
  /\ job = "loading" => loaded = "none"
  /\ job # "idle" => listed = "none"
  /\ ListIsComplete
  /\ SettledLoads
=============================================================================
