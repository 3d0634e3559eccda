----------------------------- MODULE PagerCrash -----------------------------
(***************************************************************************)
(* The pager of module Pager in a process that may die: between any two    *)
(* calls, and inside flush_all with part of the dirty frames written and   *)
(* page 0 not.  Frames and the in-memory header are lost, the file is what *)
(* the write-backs so far have made it.  The program keeps no log; a file  *)
(* torn by a crash is followed only as far as opening it again.            *)
(***************************************************************************)
EXTENDS Pager

VARIABLE torn     \* history: a crash has thrown away unflushed work

crashVars == <<vars, torn>>

CrashInit == Init /\ torn = FALSE

FlushOrClose == Flush \/ Close

Run == ~torn /\ Next /\ UNCHANGED torn

(* A torn file is opened like any other. *)
OpenTorn == torn /\ (Open \/ OpenWalk) /\ UNCHANGED torn

(* The file alone holds all that the process knew. *)
Lossless(pg) ==
  /\ pg.header = pg.disk_header
  /\ \A p \in PageIds : View(pg, p) = pg.disk[p]

CrashLeaving(pg) ==
  /\ phase # "down" /\ ~torn
  /\ pager' = Forget(pg)
  /\ phase' = "down" /\ walk' = NULL
  /\ held' = [p \in PageIds |-> 0] /\ edited' = {}
  /\ torn' = ~Lossless(pg)
  /\ UNCHANGED owned

Crash == CrashLeaving(pager)

CrashInFlush ==
  /\ phase = "open" /\ HeldPages = {}
  /\ \E k \in Frames : CrashLeaving(WriteFrames(pager, {i \in Dirty(pager) : i <= k}))

CrashNext == Run \/ OpenTorn \/ Crash \/ CrashInFlush

CrashSpec == CrashInit /\ [][CrashNext]_crashVars

-----------------------------------------------------------------------------
(* Properties *)

(* Whatever step writes a page into the file, be it a get_page that evicts *)
(* or a mark_dirty that passes the watermark while other pages are being   *)
(* edited, it writes what the callers saw in that page before the step:    *)
(* never an edit in progress, never another page's content.  The pages a   *)
(* crash inside flush_all has written hold just that, too.  The one page   *)
(* that is filled and written in the same step is the new heap page, when  *)
(* heap_insert goes on to the tail.                                        *)
WritesWholePages ==
  [][\A p \in PageIds :
       pager'.disk[p] # pager.disk[p] =>
         /\ p \notin edited
         /\ \/ pager'.disk[p] = View(pager, p)
            \/ /\ AppendHeapPage /\ p = AllocatedId(pager)
               /\ pager'.disk[p] = EmptyHeapPage]_crashVars

(* After flush_all the file alone is enough: a crash right after it costs  *)
(* nothing, neither a page nor the header.                                 *)
FlushedSurvives ==
  [][~torn /\ FlushOrClose =>
       /\ pager'.disk_header = pager.header
       /\ \A p \in PageIds : pager'.disk[p] = View(pager, p)]_crashVars

(* As long as no crash has torn the file, the free list is sound and the   *)
(* true tail of the heap chain is cached, through closing, dying with      *)
(* nothing unflushed, and reopening.                                       *)
UntornIsSound == ~torn => FreeListSound /\ TailIsCached
=============================================================================
