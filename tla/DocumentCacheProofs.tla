------------------------- MODULE DocumentCacheProofs -------------------------
(***************************************************************************)
(* What holds of the cache of converted books for any documents, any       *)
(* number of sessions and of changes of the pictures: the mark beside a    *)
(* text, the text under a reader, and what becomes of one found bad.       *)
(*                                                                         *)
(* The first two are claims about a cache on the card.  With the cache on  *)
(* the flash they are false (the run documentcache_flash): there a         *)
(* document whose session has ended may delete a text that is kept.        *)
(***************************************************************************)
EXTENDS DocumentCache, TLAPS

\* What a reader of the mark, and of the text, gets to read.
Mark == Meta!Effective(meta)
Text == Bin!Effective(bin)

\* A replacement has taken effect.
Taken(op) == op.pc = "sweep" \/ op.ok

\* A replacement under way: where its copy is, and what has been set aside.
Replacing(f, op, content) ==
  /\ op.pc \in {"commit", "setAside", "publish"} => f.tmp = op.content
  /\ op.pc \in {"setAside", "publish"} => Card
  /\ op.pc = "setAside" => f.old = None
  /\ op.pc = "sweep" => f.path = op.content
  /\ op.ok => op.pc = "end"
  /\ op.pc # "idle" => op.content \in content
FilesInv ==
  /\ Replacing(meta, metaOp, 0 .. MaxDep)
  /\ Replacing(bin, binOp, Versions)
  /\ metaOp.ok => Mark = metaOp.content
  /\ binOp.ok => Text = binOp.content

\* Whose the storage lock is, and which file he writes.
Keeping == {"prepare", "binary", "complete"}
Writing == Keeping \cup {"invalidate", "touch"}
Sweeping == {"meta.old", "meta.tmp", "meta", "bin", "bin.old", "bin.tmp"}
LockInv ==
  /\ metaOp.pc # "idle" <=> job.pc \in Writing \ {"binary"}
  /\ binOp.pc # "idle" <=> job.pc = "binary"
  /\ job.pc \in Writing => job.doc \in Docs /\ worker = job.doc /\ doc[job.doc].open
  /\ job.pc \in Keeping => /\ \A p \in Docs \ {job.doc} : ~valid(p)
                           /\ doc[job.doc].snap # 0

\* What has been written of the two files when the lock is held.
OrderInv ==
  /\ job.pc \in {"prepare", "invalidate"} => metaOp.content = Incomplete
  /\ job.pc = "binary" => Mark = Incomplete /\ binOp.content = doc[job.doc].snap
  /\ job.pc = "complete" => /\ metaOp.content = doc[job.doc].snap
                            /\ Text = doc[job.doc].snap
                            /\ ~Taken(metaOp) => Mark = Incomplete
  /\ job.pc = "touch" => Mark = metaOp.content
  /\ job.pc \in {"meta.tmp", "meta"} => meta.old = None
  /\ job.pc \in {"bin", "bin.old", "bin.tmp"} => Mark = None
  /\ job.pc \in Sweeping => \A d \in Docs : ~valid(d)
  /\ job.pc = "invalidate" => \A d \in Docs : valid(d) => doc[d].identity = 0

\* The documents: of this session or an earlier one; what is kept is claimed, what
\* is converted is claimed and not kept yet, and the worker's document stays open.
DocsInv ==
  \A d \in Docs :
    /\ doc[d].open => doc[d].gen <= session
    /\ doc[d].persistent => doc[d].claimed /\ doc[d].open
    /\ doc[d].snap # 0 => doc[d].claimed /\ ~doc[d].persistent /\ worker = d
    /\ worker = d => doc[d].open

\* A text of which a mark says that it is complete is not one to be deleted, and one that is read
\* is marked.
KeptInv ==
  /\ CompleteMeansKept
  /\ \A d \in Docs : valid(d) /\ doc[d].cache = "bin" /\ ~doc[d].persistent /\ job.pc # "complete" =>
       Mark \notin Versions
  /\ \A d \in Docs : valid(d) /\ doc[d].persistent /\ doc[d].identity # 0 =>
       Mark = doc[d].identity

\* A text found bad is not offered: its mark is being taken away, or is gone, or nothing is
\* offered; and a mark that is gone does not come back before the text was made again.
CondemnedInv ==
  /\ condemned = "condemned" /\ ~reuse_disabled => Mark \notin Versions \/ job.pc = "invalidate"
  /\ condemned = "marked" => Mark \notin Versions
  /\ job.pc = "invalidate" => condemned # "no"
  /\ job.pc = "complete" => condemned = "no"

BaseInv == TypeOK /\ FilesInv /\ LockInv /\ OrderInv /\ DocsInv

IInv == BaseInv /\ CondemnedInv /\ (Card => KeptInv)

-----------------------------------------------------------------------------
(* The replacement of one file. *)

\* A file is one content, and recovering it changes where that stands only.
LEMMA MetaRecovered ==
  ASSUME NEW f \in Meta!Files
  PROVE  /\ Meta!Recovered(f) \in Meta!Files /\ Meta!Recovered(f).tmp = f.tmp
         /\ Meta!Effective(Meta!Recovered(f)) = Meta!Effective(f)
         /\ Meta!Recovered(f).path = Meta!Effective(f)
         /\ Card /\ Meta!Recovered(f).path = None => Meta!Recovered(f).old = None
BY DEF Meta!Files, Meta!Recovered, Meta!Effective

\* What a reader of the metadata finds: the file, else on the card the old one.
LEMMA MetaEffective ==
  ASSUME NEW f \in Meta!Files
  PROVE  /\ f.path # None => Meta!Effective(f) = f.path
         /\ f.path = None /\ Card => Meta!Effective(f) = f.old
         /\ f.path = None /\ ~Card => Meta!Effective(f) = None
         /\ Meta!Effective(f) \in (0 .. MaxDep) \cup {None}
BY DEF Meta!Files, Meta!Recovered, Meta!Effective

\* A step of a replacement: the content a reader gets changes at one point, to the new one.
LEMMA MetaMoves ==
  ASSUME meta \in Meta!Files, metaOp \in Meta!Ops, Replacing(meta, metaOp, 0 .. MaxDep),
         metaOp.ok => Mark = metaOp.content, Meta!Step
  PROVE  /\ meta' \in Meta!Files /\ metaOp' \in Meta!Ops /\ Replacing(meta, metaOp, 0 .. MaxDep)'
         /\ (metaOp.ok => Mark = metaOp.content)' /\ metaOp'.content = metaOp.content
         /\ metaOp.pc \notin {"idle", "end"} /\ metaOp'.pc # "idle"
         /\ Taken(metaOp) => Taken(metaOp)'
         /\ metaOp.pc = "sweep" <=> metaOp'.ok
         /\ (Taken(metaOp) <=> Taken(metaOp)') => Mark' = Mark
         /\ ~Taken(metaOp) /\ Taken(metaOp)' => metaOp'.pc = "sweep" /\ Mark' = metaOp.content
<1> USE CacheAssumption DEF CacheAssumption
<1>0. None \notin 0 .. MaxDep BY DEF Versions
<1> DEFINE r == Meta!Recovered(meta)
<1>1. /\ r \in Meta!Files /\ r.tmp = meta.tmp /\ Meta!Effective(r) = Mark
      /\ Card /\ r.path = None => r.old = None
  BY MetaRecovered DEF Mark
<1>2. /\ metaOp.ok = FALSE \/ metaOp.ok = TRUE
      /\ metaOp.content \in (0 .. MaxDep) \cup {None} /\ metaOp.pc \in Meta!Steps
  BY DEF Meta!Ops
<1> HIDE DEF r
<1>3. CASE Meta!replace_begin
  <2>1. metaOp.pc = "begin" /\ metaOp.ok = FALSE /\ metaOp.content \in 0 .. MaxDep BY <1>2, <1>3 DEF Meta!replace_begin, Replacing
  <2>2. CASE meta' = [r EXCEPT !.tmp = Torn] /\ Meta!Goto("write")
    <3>1. metaOp' = [pc |-> "write", content |-> metaOp.content, ok |-> FALSE] BY <2>1, <2>2 DEF Meta!Goto, Meta!Ops
    <3>2. meta' = [path |-> r.path, old |-> r.old, tmp |-> Torn] BY <1>1, <2>2 DEF Meta!Files
    <3>3. meta' \in Meta!Files /\ metaOp' \in Meta!Ops BY <1>1, <1>2, <3>1, <3>2 DEF Meta!Files, Meta!Ops, Meta!Steps
    <3>4. Mark' = Mark BY <1>1, <3>2, <3>3, MetaEffective DEF Mark
    <3> QED BY <2>1, <3>1, <3>2, <3>3, <3>4 DEF Replacing, Taken
  <2>3. CASE meta' \in {meta, r} /\ Meta!Finish(FALSE)
    <3>1. metaOp' = [pc |-> "end", content |-> metaOp.content, ok |-> FALSE] BY <2>1, <2>3 DEF Meta!Finish, Meta!Ops
    <3>3. meta' \in Meta!Files /\ metaOp' \in Meta!Ops BY <1>1, <1>2, <2>3, <3>1 DEF Meta!Ops, Meta!Steps
    <3>4. Mark' = Mark BY <1>1, <2>3 DEF Mark
    <3> QED BY <2>1, <3>1, <3>3, <3>4 DEF Replacing, Taken
  <2> QED BY <1>3, <2>2, <2>3 DEF Meta!replace_begin, r
<1>4. CASE Meta!Write
  <2>1. metaOp.pc = "write" /\ metaOp.ok = FALSE /\ metaOp.content \in 0 .. MaxDep BY <1>2, <1>4 DEF Meta!Write, Replacing
  <2>2. CASE meta' = [meta EXCEPT !.tmp = metaOp.content] /\ Meta!Goto("commit")
    <3>1. metaOp' = [pc |-> "commit", content |-> metaOp.content, ok |-> FALSE] BY <2>1, <2>2 DEF Meta!Goto, Meta!Ops
    <3>2. meta' = [path |-> meta.path, old |-> meta.old, tmp |-> metaOp.content] BY <2>2 DEF Meta!Files
    <3>3. meta' \in Meta!Files /\ metaOp' \in Meta!Ops BY <1>2, <3>1, <3>2 DEF Meta!Files, Meta!Ops, Meta!Steps
    <3>4. Mark' = Mark BY <3>2, <3>3, MetaEffective DEF Mark
    <3> QED BY <2>1, <3>1, <3>2, <3>3, <3>4 DEF Replacing, Taken
  <2>3. CASE Meta!Goto("discard") /\ UNCHANGED meta
    <3>1. metaOp' = [pc |-> "discard", content |-> metaOp.content, ok |-> FALSE] BY <2>1, <2>3 DEF Meta!Goto, Meta!Ops
    <3>3. meta' \in Meta!Files /\ metaOp' \in Meta!Ops BY <1>2, <2>3, <3>1 DEF Meta!Ops, Meta!Steps
    <3>4. Mark' = Mark BY <2>3 DEF Mark
    <3> QED BY <2>1, <3>1, <3>3, <3>4 DEF Replacing, Taken
  <2> QED BY <1>4, <2>2, <2>3 DEF Meta!Write
<1>5. CASE Meta!CommitBegin
  <2>1. metaOp.pc = "commit" /\ metaOp.ok = FALSE /\ metaOp.content \in 0 .. MaxDep /\ meta.tmp = metaOp.content /\ Card
    BY <1>2, <1>5 DEF Meta!CommitBegin, Replacing
  <2>2. CASE meta' = [r EXCEPT !.old = None] /\ Meta!Goto("setAside")
    <3>1. metaOp' = [pc |-> "setAside", content |-> metaOp.content, ok |-> FALSE] BY <2>1, <2>2 DEF Meta!Goto, Meta!Ops
    <3>2. meta' = [path |-> r.path, old |-> None, tmp |-> metaOp.content] BY <1>1, <2>1, <2>2 DEF Meta!Files
    <3>3. meta' \in Meta!Files /\ metaOp' \in Meta!Ops BY <1>1, <1>2, <3>1, <3>2 DEF Meta!Files, Meta!Ops, Meta!Steps
    <3>4. Mark' = Mark BY <1>1, <2>1, <3>2, <3>3, MetaEffective DEF Mark
    <3> QED BY <2>1, <3>1, <3>2, <3>3, <3>4 DEF Replacing, Taken
  <2>3. CASE meta' \in {meta, r} /\ Meta!Goto("undo")
    <3>1. metaOp' = [pc |-> "undo", content |-> metaOp.content, ok |-> FALSE] BY <2>1, <2>3 DEF Meta!Goto, Meta!Ops
    <3>3. meta' \in Meta!Files /\ metaOp' \in Meta!Ops BY <1>1, <1>2, <2>3, <3>1 DEF Meta!Ops, Meta!Steps
    <3>4. Mark' = Mark BY <1>1, <2>3 DEF Mark
    <3> QED BY <2>1, <3>1, <3>3, <3>4 DEF Replacing, Taken
  <2> QED BY <1>5, <2>2, <2>3 DEF Meta!CommitBegin, r
<1>6. CASE Meta!SetAside
  <2>1. metaOp.pc = "setAside" /\ metaOp.ok = FALSE /\ metaOp.content \in 0 .. MaxDep /\ meta.tmp = metaOp.content
        /\ meta.old = None /\ Card
    BY <1>2, <1>6 DEF Meta!SetAside, Replacing
  <2>2. CASE meta' = [meta EXCEPT !.old = meta.path, !.path = None] /\ Meta!Goto("publish")
    <3>1. metaOp' = [pc |-> "publish", content |-> metaOp.content, ok |-> FALSE] BY <2>1, <2>2 DEF Meta!Goto, Meta!Ops
    <3>2. meta' = [path |-> None, old |-> meta.path, tmp |-> metaOp.content] BY <2>1, <2>2 DEF Meta!Files
    <3>3. meta' \in Meta!Files /\ metaOp' \in Meta!Ops BY <1>2, <3>1, <3>2 DEF Meta!Files, Meta!Ops, Meta!Steps
    <3>4. Mark' = Mark BY <2>1, <3>2, <3>3, MetaEffective DEF Mark
    <3> QED BY <2>1, <3>1, <3>2, <3>3, <3>4 DEF Replacing, Taken
  <2>3. CASE Meta!Goto("undo") /\ UNCHANGED meta
    <3>1. metaOp' = [pc |-> "undo", content |-> metaOp.content, ok |-> FALSE] BY <2>1, <2>3 DEF Meta!Goto, Meta!Ops
    <3>3. meta' \in Meta!Files /\ metaOp' \in Meta!Ops BY <1>2, <2>3, <3>1 DEF Meta!Ops, Meta!Steps
    <3>4. Mark' = Mark BY <2>3 DEF Mark
    <3> QED BY <2>1, <3>1, <3>3, <3>4 DEF Replacing, Taken
  <2> QED BY <1>6, <2>2, <2>3 DEF Meta!SetAside
<1>7. CASE Meta!Publish
  <2>1. metaOp.pc \in {"commit", "publish"} /\ metaOp.ok = FALSE /\ metaOp.content \in 0 .. MaxDep /\ meta.tmp = metaOp.content
    BY <1>2, <1>7 DEF Meta!Publish, Replacing
  <2>2. CASE meta' = [meta EXCEPT !.path = meta.tmp, !.tmp = None] /\ Meta!Goto("sweep")
    <3>1. metaOp' = [pc |-> "sweep", content |-> metaOp.content, ok |-> FALSE] BY <2>1, <2>2 DEF Meta!Goto, Meta!Ops
    <3>2. meta' = [path |-> metaOp.content, old |-> meta.old, tmp |-> None] BY <2>1, <2>2 DEF Meta!Files
    <3>3. meta' \in Meta!Files /\ metaOp' \in Meta!Ops BY <1>2, <2>1, <3>1, <3>2 DEF Meta!Files, Meta!Ops, Meta!Steps
    <3>4. Mark' = metaOp.content BY <1>0, <2>1, <3>2, <3>3, MetaEffective DEF Mark
    <3> QED BY <2>1, <3>1, <3>2, <3>3, <3>4 DEF Replacing, Taken
  <2>3. CASE Meta!Goto("undo") /\ UNCHANGED meta
    <3>1. metaOp' = [pc |-> "undo", content |-> metaOp.content, ok |-> FALSE] BY <2>1, <2>3 DEF Meta!Goto, Meta!Ops
    <3>3. meta' \in Meta!Files /\ metaOp' \in Meta!Ops BY <1>2, <2>3, <3>1 DEF Meta!Ops, Meta!Steps
    <3>4. Mark' = Mark BY <2>3 DEF Mark
    <3> QED BY <2>1, <3>1, <3>3, <3>4 DEF Replacing, Taken
  <2> QED BY <1>7, <2>2, <2>3 DEF Meta!Publish
<1>8. CASE Meta!Sweep
  <2>1. metaOp.pc = "sweep" /\ metaOp.ok = FALSE /\ metaOp.content \in 0 .. MaxDep /\ meta.path = metaOp.content
    BY <1>2, <1>8 DEF Meta!Sweep, Replacing
  <2>2. metaOp' = [pc |-> "end", content |-> metaOp.content, ok |-> TRUE] BY <1>8, <2>1 DEF Meta!Sweep, Meta!Finish, Meta!Ops
  <2>3. meta' = meta \/ meta' = [path |-> meta.path, old |-> None, tmp |-> meta.tmp] BY <1>8 DEF Meta!Sweep, Meta!Files
  <2>4. meta' \in Meta!Files /\ metaOp' \in Meta!Ops BY <1>2, <2>2, <2>3 DEF Meta!Files, Meta!Ops, Meta!Steps
  <2>5. Mark = metaOp.content /\ Mark' = metaOp.content BY <1>0, <2>1, <2>3, <2>4, MetaEffective DEF Mark
  <2> QED BY <2>1, <2>2, <2>4, <2>5 DEF Replacing, Taken
<1>9. CASE Meta!Undo
  <2>1. metaOp.pc = "undo" /\ metaOp.ok = FALSE /\ metaOp.content \in 0 .. MaxDep BY <1>2, <1>9 DEF Meta!Undo, Replacing
  <2>2. metaOp' = [pc |-> "discard", content |-> metaOp.content, ok |-> FALSE] BY <1>9, <2>1 DEF Meta!Undo, Meta!Goto, Meta!Ops
  <2>3. meta' \in {meta, r} BY <1>9 DEF Meta!Undo, r
  <2>4. meta' \in Meta!Files /\ metaOp' \in Meta!Ops BY <1>1, <1>2, <2>2, <2>3 DEF Meta!Ops, Meta!Steps
  <2>5. Mark' = Mark BY <1>1, <2>3 DEF Mark
  <2> QED BY <2>1, <2>2, <2>4, <2>5 DEF Replacing, Taken
<1>10. CASE Meta!Discard
  <2>1. metaOp.pc = "discard" /\ metaOp.ok = FALSE /\ metaOp.content \in 0 .. MaxDep BY <1>2, <1>10 DEF Meta!Discard, Replacing
  <2>2. metaOp' = [pc |-> "end", content |-> metaOp.content, ok |-> FALSE] BY <1>10, <2>1 DEF Meta!Discard, Meta!Finish, Meta!Ops
  <2>3. meta' = [path |-> meta.path, old |-> meta.old, tmp |-> None] BY <1>10 DEF Meta!Discard, Meta!Files
  <2>4. meta' \in Meta!Files /\ metaOp' \in Meta!Ops BY <1>2, <2>2, <2>3 DEF Meta!Files, Meta!Ops, Meta!Steps
  <2>5. Mark' = Mark BY <2>3, <2>4, MetaEffective DEF Mark
  <2> QED BY <2>1, <2>2, <2>4, <2>5 DEF Replacing, Taken
<1> QED BY <1>3, <1>4, <1>5, <1>6, <1>7, <1>8, <1>9, <1>10 DEF Meta!Step, Meta!storage_file_commit

\* A file is one content, and recovering it changes where that stands only.
LEMMA BinRecovered ==
  ASSUME NEW f \in Bin!Files
  PROVE  /\ Bin!Recovered(f) \in Bin!Files /\ Bin!Recovered(f).tmp = f.tmp
         /\ Bin!Effective(Bin!Recovered(f)) = Bin!Effective(f)
         /\ Bin!Recovered(f).path = Bin!Effective(f)
         /\ Card /\ Bin!Recovered(f).path = None => Bin!Recovered(f).old = None
BY DEF Bin!Files, Bin!Recovered, Bin!Effective

\* What a reader of the text finds: the file, else on the card the old one.
LEMMA BinEffective ==
  ASSUME NEW f \in Bin!Files
  PROVE  /\ f.path # None => Bin!Effective(f) = f.path
         /\ f.path = None /\ Card => Bin!Effective(f) = f.old
         /\ f.path = None /\ ~Card => Bin!Effective(f) = None
         /\ Bin!Effective(f) \in (Versions \cup {Bad}) \cup {None}
BY DEF Bin!Files, Bin!Recovered, Bin!Effective

\* A step of a replacement: the content a reader gets changes at one point, to the new one.
LEMMA BinMoves ==
  ASSUME bin \in Bin!Files, binOp \in Bin!Ops, Replacing(bin, binOp, Versions),
         binOp.ok => Text = binOp.content, Bin!Step
  PROVE  /\ bin' \in Bin!Files /\ binOp' \in Bin!Ops /\ Replacing(bin, binOp, Versions)'
         /\ (binOp.ok => Text = binOp.content)' /\ binOp'.content = binOp.content
         /\ binOp.pc \notin {"idle", "end"} /\ binOp'.pc # "idle"
         /\ Taken(binOp) => Taken(binOp)'
         /\ binOp.pc = "sweep" <=> binOp'.ok
         /\ (Taken(binOp) <=> Taken(binOp)') => Text' = Text
         /\ ~Taken(binOp) /\ Taken(binOp)' => binOp'.pc = "sweep" /\ Text' = binOp.content
<1> USE CacheAssumption DEF CacheAssumption
<1>0. None \notin Versions BY DEF Versions
<1> DEFINE r == Bin!Recovered(bin)
<1>1. /\ r \in Bin!Files /\ r.tmp = bin.tmp /\ Bin!Effective(r) = Text
      /\ Card /\ r.path = None => r.old = None
  BY BinRecovered DEF Text
<1>2. /\ binOp.ok = FALSE \/ binOp.ok = TRUE
      /\ binOp.content \in (Versions \cup {Bad}) \cup {None} /\ binOp.pc \in Bin!Steps
  BY DEF Bin!Ops
<1> HIDE DEF r
<1>3. CASE Bin!replace_begin
  <2>1. binOp.pc = "begin" /\ binOp.ok = FALSE /\ binOp.content \in Versions BY <1>2, <1>3 DEF Bin!replace_begin, Replacing
  <2>2. CASE bin' = [r EXCEPT !.tmp = Torn] /\ Bin!Goto("write")
    <3>1. binOp' = [pc |-> "write", content |-> binOp.content, ok |-> FALSE] BY <2>1, <2>2 DEF Bin!Goto, Bin!Ops
    <3>2. bin' = [path |-> r.path, old |-> r.old, tmp |-> Torn] BY <1>1, <2>2 DEF Bin!Files
    <3>3. bin' \in Bin!Files /\ binOp' \in Bin!Ops BY <1>1, <1>2, <3>1, <3>2 DEF Bin!Files, Bin!Ops, Bin!Steps
    <3>4. Text' = Text BY <1>1, <3>2, <3>3, BinEffective DEF Text
    <3> QED BY <2>1, <3>1, <3>2, <3>3, <3>4 DEF Replacing, Taken
  <2>3. CASE bin' \in {bin, r} /\ Bin!Finish(FALSE)
    <3>1. binOp' = [pc |-> "end", content |-> binOp.content, ok |-> FALSE] BY <2>1, <2>3 DEF Bin!Finish, Bin!Ops
    <3>3. bin' \in Bin!Files /\ binOp' \in Bin!Ops BY <1>1, <1>2, <2>3, <3>1 DEF Bin!Ops, Bin!Steps
    <3>4. Text' = Text BY <1>1, <2>3 DEF Text
    <3> QED BY <2>1, <3>1, <3>3, <3>4 DEF Replacing, Taken
  <2> QED BY <1>3, <2>2, <2>3 DEF Bin!replace_begin, r
<1>4. CASE Bin!Write
  <2>1. binOp.pc = "write" /\ binOp.ok = FALSE /\ binOp.content \in Versions BY <1>2, <1>4 DEF Bin!Write, Replacing
  <2>2. CASE bin' = [bin EXCEPT !.tmp = binOp.content] /\ Bin!Goto("commit")
    <3>1. binOp' = [pc |-> "commit", content |-> binOp.content, ok |-> FALSE] BY <2>1, <2>2 DEF Bin!Goto, Bin!Ops
    <3>2. bin' = [path |-> bin.path, old |-> bin.old, tmp |-> binOp.content] BY <2>2 DEF Bin!Files
    <3>3. bin' \in Bin!Files /\ binOp' \in Bin!Ops BY <1>2, <3>1, <3>2 DEF Bin!Files, Bin!Ops, Bin!Steps
    <3>4. Text' = Text BY <3>2, <3>3, BinEffective DEF Text
    <3> QED BY <2>1, <3>1, <3>2, <3>3, <3>4 DEF Replacing, Taken
  <2>3. CASE Bin!Goto("discard") /\ UNCHANGED bin
    <3>1. binOp' = [pc |-> "discard", content |-> binOp.content, ok |-> FALSE] BY <2>1, <2>3 DEF Bin!Goto, Bin!Ops
    <3>3. bin' \in Bin!Files /\ binOp' \in Bin!Ops BY <1>2, <2>3, <3>1 DEF Bin!Ops, Bin!Steps
    <3>4. Text' = Text BY <2>3 DEF Text
    <3> QED BY <2>1, <3>1, <3>3, <3>4 DEF Replacing, Taken
  <2> QED BY <1>4, <2>2, <2>3 DEF Bin!Write
<1>5. CASE Bin!CommitBegin
  <2>1. binOp.pc = "commit" /\ binOp.ok = FALSE /\ binOp.content \in Versions /\ bin.tmp = binOp.content /\ Card
    BY <1>2, <1>5 DEF Bin!CommitBegin, Replacing
  <2>2. CASE bin' = [r EXCEPT !.old = None] /\ Bin!Goto("setAside")
    <3>1. binOp' = [pc |-> "setAside", content |-> binOp.content, ok |-> FALSE] BY <2>1, <2>2 DEF Bin!Goto, Bin!Ops
    <3>2. bin' = [path |-> r.path, old |-> None, tmp |-> binOp.content] BY <1>1, <2>1, <2>2 DEF Bin!Files
    <3>3. bin' \in Bin!Files /\ binOp' \in Bin!Ops BY <1>1, <1>2, <3>1, <3>2 DEF Bin!Files, Bin!Ops, Bin!Steps
    <3>4. Text' = Text BY <1>1, <2>1, <3>2, <3>3, BinEffective DEF Text
    <3> QED BY <2>1, <3>1, <3>2, <3>3, <3>4 DEF Replacing, Taken
  <2>3. CASE bin' \in {bin, r} /\ Bin!Goto("undo")
    <3>1. binOp' = [pc |-> "undo", content |-> binOp.content, ok |-> FALSE] BY <2>1, <2>3 DEF Bin!Goto, Bin!Ops
    <3>3. bin' \in Bin!Files /\ binOp' \in Bin!Ops BY <1>1, <1>2, <2>3, <3>1 DEF Bin!Ops, Bin!Steps
    <3>4. Text' = Text BY <1>1, <2>3 DEF Text
    <3> QED BY <2>1, <3>1, <3>3, <3>4 DEF Replacing, Taken
  <2> QED BY <1>5, <2>2, <2>3 DEF Bin!CommitBegin, r
<1>6. CASE Bin!SetAside
  <2>1. binOp.pc = "setAside" /\ binOp.ok = FALSE /\ binOp.content \in Versions /\ bin.tmp = binOp.content
        /\ bin.old = None /\ Card
    BY <1>2, <1>6 DEF Bin!SetAside, Replacing
  <2>2. CASE bin' = [bin EXCEPT !.old = bin.path, !.path = None] /\ Bin!Goto("publish")
    <3>1. binOp' = [pc |-> "publish", content |-> binOp.content, ok |-> FALSE] BY <2>1, <2>2 DEF Bin!Goto, Bin!Ops
    <3>2. bin' = [path |-> None, old |-> bin.path, tmp |-> binOp.content] BY <2>1, <2>2 DEF Bin!Files
    <3>3. bin' \in Bin!Files /\ binOp' \in Bin!Ops BY <1>2, <3>1, <3>2 DEF Bin!Files, Bin!Ops, Bin!Steps
    <3>4. Text' = Text BY <2>1, <3>2, <3>3, BinEffective DEF Text
    <3> QED BY <2>1, <3>1, <3>2, <3>3, <3>4 DEF Replacing, Taken
  <2>3. CASE Bin!Goto("undo") /\ UNCHANGED bin
    <3>1. binOp' = [pc |-> "undo", content |-> binOp.content, ok |-> FALSE] BY <2>1, <2>3 DEF Bin!Goto, Bin!Ops
    <3>3. bin' \in Bin!Files /\ binOp' \in Bin!Ops BY <1>2, <2>3, <3>1 DEF Bin!Ops, Bin!Steps
    <3>4. Text' = Text BY <2>3 DEF Text
    <3> QED BY <2>1, <3>1, <3>3, <3>4 DEF Replacing, Taken
  <2> QED BY <1>6, <2>2, <2>3 DEF Bin!SetAside
<1>7. CASE Bin!Publish
  <2>1. binOp.pc \in {"commit", "publish"} /\ binOp.ok = FALSE /\ binOp.content \in Versions /\ bin.tmp = binOp.content
    BY <1>2, <1>7 DEF Bin!Publish, Replacing
  <2>2. CASE bin' = [bin EXCEPT !.path = bin.tmp, !.tmp = None] /\ Bin!Goto("sweep")
    <3>1. binOp' = [pc |-> "sweep", content |-> binOp.content, ok |-> FALSE] BY <2>1, <2>2 DEF Bin!Goto, Bin!Ops
    <3>2. bin' = [path |-> binOp.content, old |-> bin.old, tmp |-> None] BY <2>1, <2>2 DEF Bin!Files
    <3>3. bin' \in Bin!Files /\ binOp' \in Bin!Ops BY <1>2, <2>1, <3>1, <3>2 DEF Bin!Files, Bin!Ops, Bin!Steps
    <3>4. Text' = binOp.content BY <1>0, <2>1, <3>2, <3>3, BinEffective DEF Text
    <3> QED BY <2>1, <3>1, <3>2, <3>3, <3>4 DEF Replacing, Taken
  <2>3. CASE Bin!Goto("undo") /\ UNCHANGED bin
    <3>1. binOp' = [pc |-> "undo", content |-> binOp.content, ok |-> FALSE] BY <2>1, <2>3 DEF Bin!Goto, Bin!Ops
    <3>3. bin' \in Bin!Files /\ binOp' \in Bin!Ops BY <1>2, <2>3, <3>1 DEF Bin!Ops, Bin!Steps
    <3>4. Text' = Text BY <2>3 DEF Text
    <3> QED BY <2>1, <3>1, <3>3, <3>4 DEF Replacing, Taken
  <2> QED BY <1>7, <2>2, <2>3 DEF Bin!Publish
<1>8. CASE Bin!Sweep
  <2>1. binOp.pc = "sweep" /\ binOp.ok = FALSE /\ binOp.content \in Versions /\ bin.path = binOp.content
    BY <1>2, <1>8 DEF Bin!Sweep, Replacing
  <2>2. binOp' = [pc |-> "end", content |-> binOp.content, ok |-> TRUE] BY <1>8, <2>1 DEF Bin!Sweep, Bin!Finish, Bin!Ops
  <2>3. bin' = bin \/ bin' = [path |-> bin.path, old |-> None, tmp |-> bin.tmp] BY <1>8 DEF Bin!Sweep, Bin!Files
  <2>4. bin' \in Bin!Files /\ binOp' \in Bin!Ops BY <1>2, <2>2, <2>3 DEF Bin!Files, Bin!Ops, Bin!Steps
  <2>5. Text = binOp.content /\ Text' = binOp.content BY <1>0, <2>1, <2>3, <2>4, BinEffective DEF Text
  <2> QED BY <2>1, <2>2, <2>4, <2>5 DEF Replacing, Taken
<1>9. CASE Bin!Undo
  <2>1. binOp.pc = "undo" /\ binOp.ok = FALSE /\ binOp.content \in Versions BY <1>2, <1>9 DEF Bin!Undo, Replacing
  <2>2. binOp' = [pc |-> "discard", content |-> binOp.content, ok |-> FALSE] BY <1>9, <2>1 DEF Bin!Undo, Bin!Goto, Bin!Ops
  <2>3. bin' \in {bin, r} BY <1>9 DEF Bin!Undo, r
  <2>4. bin' \in Bin!Files /\ binOp' \in Bin!Ops BY <1>1, <1>2, <2>2, <2>3 DEF Bin!Ops, Bin!Steps
  <2>5. Text' = Text BY <1>1, <2>3 DEF Text
  <2> QED BY <2>1, <2>2, <2>4, <2>5 DEF Replacing, Taken
<1>10. CASE Bin!Discard
  <2>1. binOp.pc = "discard" /\ binOp.ok = FALSE /\ binOp.content \in Versions BY <1>2, <1>10 DEF Bin!Discard, Replacing
  <2>2. binOp' = [pc |-> "end", content |-> binOp.content, ok |-> FALSE] BY <1>10, <2>1 DEF Bin!Discard, Bin!Finish, Bin!Ops
  <2>3. bin' = [path |-> bin.path, old |-> bin.old, tmp |-> None] BY <1>10 DEF Bin!Discard, Bin!Files
  <2>4. bin' \in Bin!Files /\ binOp' \in Bin!Ops BY <1>2, <2>2, <2>3 DEF Bin!Files, Bin!Ops, Bin!Steps
  <2>5. Text' = Text BY <2>3, <2>4, BinEffective DEF Text
  <2> QED BY <2>1, <2>2, <2>4, <2>5 DEF Replacing, Taken
<1> QED BY <1>3, <1>4, <1>5, <1>6, <1>7, <1>8, <1>9, <1>10 DEF Bin!Step, Bin!storage_file_commit

-----------------------------------------------------------------------------
(* The documents and the lock. *)

\* The steps of a sweep by their names.
LEMMA Names ==
  /\ Suffixes[1] = "meta.old" /\ Suffixes[2] = "meta.tmp" /\ Suffixes[3] = "meta"
  /\ Suffixes[4] = "bin" /\ Suffixes[5] = "bin.old" /\ Suffixes[6] = "bin.tmp"
BY DEF Suffixes

\* Where a job may be.
LEMMA Steps ==
  JobSteps = {"free", "prepare", "binary", "complete", "invalidate", "touch"} \cup Sweeping
<1>1. {Suffixes[i] : i \in 1 .. 6} = Sweeping
  <2>1. ASSUME NEW i \in 1 .. 6 PROVE Suffixes[i] \in Sweeping
    <3>1. i = 1 \/ i = 2 \/ i = 3 \/ i = 4 \/ i = 5 \/ i = 6 OBVIOUS
    <3> QED BY <3>1, Names DEF Sweeping
  <2>2. ASSUME NEW s \in Sweeping PROVE \E i \in 1 .. 6 : s = Suffixes[i]
    BY Names DEF Sweeping
  <2> QED BY <2>1, <2>2
<1> QED BY <1>1 DEF JobSteps

\* A change of one document leaves the others alone.
LEMMA SetDoc ==
  ASSUME doc \in [Docs -> DocRecords], NEW d \in Docs, NEW r \in DocRecords, Set(d, r)
  PROVE  /\ doc' \in [Docs -> DocRecords] /\ doc'[d] = r
         /\ \A p \in Docs : p # d => doc'[p] = doc[p]
BY DEF Set

\* The fields of a document.
LEMMA Fields ==
  ASSUME NEW r \in DocRecords
  PROVE  /\ r.gen \in 0 .. MaxSession /\ r.identity \in 0 .. MaxDep /\ r.snap \in 0 .. MaxDep
         /\ r.cache \in {"none", "tmp", "bin"}
BY DEF DocRecords

\* A document that is not open.
LEMMA ClosedIs ==
  /\ Closed \in DocRecords /\ Closed.open = FALSE /\ Closed.gen = 0 /\ Closed.persistent = FALSE
  /\ Closed.identity = 0 /\ Closed.snap = 0 /\ Closed.cache = "none"
BY CacheAssumption DEF CacheAssumption, Closed, DocRecords

\* A job that begins is of its document.
LEMMA Holder ==
  ASSUME NEW pc \in JobSteps, NEW d \in Docs \cup {NoDoc}, Enter(pc, d)
  PROVE  job' \in [pc : JobSteps, doc : Docs \cup {NoDoc}] /\ job'.pc = pc /\ job'.doc = d
BY DEF Enter

\* A job that ends leaves the lock.
LEMMA NoHolder ==
  ASSUME job' = Free
  PROVE  job' \in [pc : JobSteps, doc : Docs \cup {NoDoc}] /\ job'.pc = "free"
BY DEF Free, JobSteps

\* A replacement that is begun has done nothing yet.
LEMMA MetaBegins ==
  ASSUME NEW c \in 0 .. MaxDep, Meta!StartReplace(c)
  PROVE  /\ metaOp' \in Meta!Ops /\ metaOp'.pc = "begin" /\ metaOp'.content = c
         /\ metaOp'.ok = FALSE /\ ~Taken(metaOp)'
         /\ Replacing(meta', metaOp', 0 .. MaxDep)
BY DEF Meta!StartReplace, Meta!Ops, Meta!Steps, Taken, Replacing

\* With no replacement under way the metadata is what a replacement begins with.
LEMMA MetaIdles ==
  ASSUME metaOp' = Meta!Idle
  PROVE  /\ metaOp' \in Meta!Ops /\ metaOp'.pc = "idle" /\ metaOp'.ok = FALSE /\ ~Taken(metaOp)'
         /\ Replacing(meta', metaOp', 0 .. MaxDep)
BY DEF Meta!Idle, Meta!Ops, Meta!Steps, Taken, Replacing

\* With no replacement under way the text is what a replacement begins with.
LEMMA BinIdles ==
  ASSUME binOp' = Bin!Idle
  PROVE  /\ binOp' \in Bin!Ops /\ binOp'.pc = "idle" /\ binOp'.ok = FALSE
         /\ Replacing(bin', binOp', Versions)
BY DEF Bin!Idle, Bin!Ops, Bin!Steps, Replacing

\* Files that stand still say what they said.
LEMMA FilesStand ==
  ASSUME FilesInv, UNCHANGED fileVars
  PROVE  FilesInv' /\ Mark' = Mark /\ Text' = Text
BY DEF FilesInv, fileVars, Mark, Text, Replacing

\* What is kept stays so while the same is marked, the text is removed only without a mark, and
\* no document is opened.
LEMMA KeptStays ==
  ASSUME KeptInv, Mark' = Mark, Text' \in {Text, Bad} \/ Mark \notin Versions,
         job.pc = "complete" => job'.pc = "complete",
         \A p \in Docs : valid(p)' =>
           /\ valid(p) /\ (doc'[p].persistent <=> doc[p].persistent)
           /\ doc'[p].identity \in {0, doc[p].identity}
           /\ doc'[p].cache = "bin" /\ ~doc[p].persistent => doc[p].cache = "bin"
  PROVE  KeptInv'
<1>1. CompleteMeansKept' BY DEF KeptInv, CompleteMeansKept, Mark, Text
<1>2. ASSUME NEW d \in Docs, valid(d)', doc'[d].cache = "bin", ~doc'[d].persistent, job'.pc # "complete"
      PROVE  Mark' \notin Versions
  BY <1>2 DEF KeptInv
<1>3. ASSUME NEW d \in Docs, valid(d)', doc'[d].persistent, doc'[d].identity # 0
      PROVE  Mark' = doc'[d].identity
  BY <1>3 DEF KeptInv
<1> QED BY <1>1, <1>2, <1>3 DEF KeptInv

\* While nobody holds the lock no file is being replaced, and afterwards none is.
LEMMA WhenFree ==
  ASSUME TypeOK, FilesInv, LockInv, job.pc \notin Writing
  PROVE  /\ metaOp.pc = "idle" /\ metaOp.ok = FALSE /\ binOp.pc = "idle" /\ binOp.ok = FALSE
         /\ ~Taken(metaOp)
<1>1. metaOp.ok \in BOOLEAN /\ binOp.ok \in BOOLEAN BY DEF TypeOK, Meta!Ops, Bin!Ops
<1>2. metaOp.pc = "idle" /\ binOp.pc = "idle" BY DEF LockInv, Writing, Keeping
<1> QED BY <1>1, <1>2 DEF FilesInv, Replacing, Taken

\* Without the lock no job is at a step that needs it.
LEMMA FreeIs ==
  ASSUME LockFree
  PROVE  job.pc \notin Writing /\ job.pc \notin Keeping /\ job.pc \notin Sweeping
         /\ job.pc \notin {"prepare", "binary", "complete", "invalidate", "touch"}
BY DEF LockFree, Writing, Keeping, Sweeping

\* Once the lock is left nothing is owed to it.
LEMMA Unlocked ==
  ASSUME job'.pc = "free", metaOp'.pc = "idle", metaOp'.ok = FALSE,
         binOp'.pc = "idle", binOp'.ok = FALSE
  PROVE  FilesInv' /\ LockInv' /\ OrderInv'
<1>1. FilesInv' BY DEF FilesInv, Replacing
<1>2. LockInv' BY DEF LockInv, Writing, Keeping
<1>3. OrderInv' BY DEF OrderInv, Sweeping
<1> QED BY <1>1, <1>2, <1>3

\* With no conversion being marked, a text found bad is not marked either, or nothing is offered.
LEMMA CondemnedWaits ==
  ASSUME CondemnedInv, job.pc \notin {"invalidate", "complete"}, Mark' \in {Mark, Incomplete, None},
         condemned' \in {"no", condemned}, reuse_disabled => reuse_disabled',
         job'.pc # "invalidate", job'.pc = "complete" => condemned' = "no"
  PROVE  CondemnedInv'
<1>1. Incomplete \notin Versions /\ None \notin Versions
  BY CacheAssumption DEF CacheAssumption, Versions, Incomplete
<1> QED BY <1>1 DEF CondemnedInv

\* A step that only changes documents, and opens none, keeps the rest.
LEMMA DocsStep ==
  ASSUME IInv, UNCHANGED <<fileVars, session, job>>,
         dep' \in Versions, available' \in BOOLEAN, available' => available,
         doc' \in [Docs -> DocRecords], worker' \in Docs \cup {NoDoc},
         reuse_disabled' \in BOOLEAN, condemned' \in Findings,
         job.pc \in Writing =>
           worker' = worker /\ doc'[job.doc].open /\ doc'[job.doc].snap = doc[job.doc].snap,
         \A p \in Docs :
           /\ doc'[p].open => doc[p].open /\ doc'[p].gen = doc[p].gen
           /\ doc'[p].persistent <=> doc[p].persistent /\ doc'[p].open
           /\ doc'[p].identity \in {0, doc[p].identity}
           /\ doc'[p].cache = "bin" => doc[p].cache = "bin",
         DocsInv', CondemnedInv'
  PROVE  IInv'
<1>1. TypeOK /\ FilesInv /\ LockInv /\ OrderInv /\ DocsInv /\ (Card => KeptInv) BY DEF IInv, BaseInv
<1>2. FilesInv' /\ Mark' = Mark /\ Text' = Text BY <1>1, FilesStand
<1>3. TypeOK' BY <1>1 DEF TypeOK, fileVars
<1>4. \A p \in Docs : valid(p)' => valid(p) /\ doc'[p].open BY DEF valid, InSession
<1>5. LockInv'
  <2>1. metaOp' = metaOp /\ binOp' = binOp /\ job' = job BY DEF fileVars
  <2> QED BY <1>1, <1>4, <2>1 DEF LockInv, Writing, Keeping
<1>6. OrderInv'
  <2>1. metaOp' = metaOp /\ binOp' = binOp /\ job' = job /\ meta' = meta BY DEF fileVars
  <2>2. Taken(metaOp)' <=> Taken(metaOp) BY <2>1 DEF Taken
  <2>3. job.pc \in Keeping => doc'[job.doc].snap = doc[job.doc].snap BY DEF Writing
  <2>4. job.pc = "invalidate" => \A p \in Docs : valid(p)' => doc'[p].identity = 0
    BY <1>1, <1>4 DEF OrderInv
  <2>5. job.pc \in Sweeping => \A p \in Docs : ~valid(p)' BY <1>1, <1>4 DEF OrderInv
  <2> QED BY <1>1, <1>2, <2>1, <2>2, <2>3, <2>4, <2>5 DEF OrderInv, Keeping
<1>7. Card => KeptInv'
  <2> SUFFICES ASSUME Card PROVE KeptInv' OBVIOUS
  <2> QED BY <1>1, <1>2, <1>4, KeptStays
<1> QED BY <1>2, <1>3, <1>5, <1>6, <1>7 DEF IInv, BaseInv

\* A condemned text stays so while its mark is the same.
LEMMA CondemnedStays ==
  ASSUME CondemnedInv, Mark' = Mark, condemned' = condemned, reuse_disabled => reuse_disabled',
         UNCHANGED <<job, metaOp>>
  PROVE  CondemnedInv'
BY DEF CondemnedInv

\* A step that only changes one document, and which one the worker has.
LEMMA OneDocStep ==
  ASSUME IInv, NEW d \in Docs, NEW r \in DocRecords, Set(d, r),
         UNCHANGED <<fileVars, dep, available, session, job, reuse_disabled, condemned>>,
         r.open => doc[d].open /\ r.gen = doc[d].gen,
         r.persistent <=> doc[d].persistent /\ r.open,
         r.identity \in {0, doc[d].identity},
         r.cache = "bin" => doc[d].cache = "bin",
         r.persistent => r.claimed,
         r.snap # 0 => r.claimed /\ ~r.persistent /\ worker' = d,
         worker' = worker \/ (job.pc \notin Writing /\ {worker, worker'} \subseteq {d, NoDoc}),
         worker' = d => r.open,
         job.pc \in Writing /\ job.doc = d => r.snap = doc[d].snap
  PROVE  IInv'
<1>1. TypeOK /\ FilesInv /\ LockInv /\ DocsInv /\ CondemnedInv BY DEF IInv, BaseInv
<1>2. /\ doc' \in [Docs -> DocRecords] /\ doc'[d] = r
      /\ \A p \in Docs : p # d => doc'[p] = doc[p]
  BY <1>1, SetDoc DEF TypeOK
<1>3. DocsInv'
  <2>1. NoDoc \notin Docs BY CacheAssumption DEF CacheAssumption
  <2>2. session' = session OBVIOUS
  <2>3. ASSUME NEW p \in Docs, p # d
        PROVE  /\ doc'[p] = doc[p] /\ (worker' = p <=> worker = p)
    BY <1>2, <2>1, <2>3
  <2>4. ASSUME NEW p \in Docs, p # d
        PROVE  /\ doc'[p].open => doc'[p].gen <= session'
               /\ doc'[p].persistent => doc'[p].claimed /\ doc'[p].open
               /\ doc'[p].snap # 0 => doc'[p].claimed /\ ~doc'[p].persistent /\ worker' = p
               /\ worker' = p => doc'[p].open
    BY <1>1, <2>2, <2>3, <2>4 DEF DocsInv
  <2>5. /\ r.open => r.gen <= session'
        /\ r.persistent => r.claimed /\ r.open
        /\ r.snap # 0 => r.claimed /\ ~r.persistent /\ worker' = d
        /\ worker' = d => r.open
    BY <1>1, <2>2 DEF DocsInv
  <2> QED BY <1>2, <2>4, <2>5 DEF DocsInv
<1>4. CondemnedInv' BY <1>1, FilesStand, CondemnedStays DEF fileVars
<1>5. /\ worker' \in Docs \cup {NoDoc} /\ reuse_disabled' \in BOOLEAN /\ condemned' \in Findings
      /\ dep' \in Versions /\ available' \in BOOLEAN /\ (available' => available)
  BY <1>1 DEF TypeOK
<1>6. \A p \in Docs :
           /\ doc'[p].open => doc[p].open /\ doc'[p].gen = doc[p].gen
           /\ doc'[p].persistent <=> doc[p].persistent /\ doc'[p].open
           /\ doc'[p].identity \in {0, doc[p].identity}
           /\ doc'[p].cache = "bin" => doc[p].cache = "bin"
  BY <1>1, <1>2 DEF DocsInv
<1>7. job.pc \in Writing =>
           worker' = worker /\ doc'[job.doc].open /\ doc'[job.doc].snap = doc[job.doc].snap
  BY <1>1, <1>2 DEF LockInv
<1> QED BY <1>2, <1>3, <1>4, <1>5, <1>6, <1>7, DocsStep

\* A document is closed.
LEMMA CloseKeeps ==
  ASSUME IInv, NEW d \in Docs, document_close(d)
  PROVE  IInv'
<1>1. TypeOK /\ LockInv /\ DocsInv BY DEF IInv, BaseInv
<1>2. doc[d] \in DocRecords BY <1>1 DEF TypeOK
<1> DEFINE r == [doc[d] EXCEPT !.released = TRUE]
<1>3. r \in DocRecords BY <1>2 DEF DocRecords
<1>4. /\ r.open = doc[d].open /\ r.gen = doc[d].gen /\ r.persistent = doc[d].persistent
      /\ r.identity = doc[d].identity /\ r.cache = doc[d].cache /\ r.snap = doc[d].snap
      /\ r.claimed = doc[d].claimed
  BY <1>2 DEF DocRecords
<1>5. Set(d, r) /\ UNCHANGED <<fileVars, dep, available, session, worker, job, reuse_disabled, condemned>>
  BY DEF document_close
<1> HIDE DEF r
<1> QED BY <1>1, <1>3, <1>4, <1>5, OneDocStep DEF DocsInv

\* A read of the cache fails.
LEMMA ReadFails ==
  ASSUME IInv, NEW d \in Docs, cache_read_failed(d)
  PROVE  IInv'
<1>1. TypeOK /\ LockInv /\ DocsInv BY DEF IInv, BaseInv
<1>2. doc[d] \in DocRecords BY <1>1 DEF TypeOK
<1> DEFINE r == [doc[d] EXCEPT !.bad = TRUE, !.stopped = FALSE]
<1>3. r \in DocRecords BY <1>2 DEF DocRecords
<1>4. /\ r.open = doc[d].open /\ r.gen = doc[d].gen /\ r.persistent = doc[d].persistent
      /\ r.identity = doc[d].identity /\ r.cache = doc[d].cache /\ r.snap = doc[d].snap
      /\ r.claimed = doc[d].claimed
  BY <1>2 DEF DocRecords
<1>5. Set(d, r) /\ UNCHANGED <<fileVars, dep, available, session, worker, job, reuse_disabled, condemned>>
  BY DEF cache_read_failed
<1> HIDE DEF r
<1> QED BY <1>1, <1>3, <1>4, <1>5, OneDocStep DEF DocsInv

\* The worker takes a document.
LEMMA TakeKeeps ==
  ASSUME IInv, NEW d \in Docs, WorkerTake(d)
  PROVE  IInv'
<1>1. TypeOK /\ LockInv /\ DocsInv BY DEF IInv, BaseInv
<1>2. doc[d] \in DocRecords /\ Set(d, doc[d]) BY <1>1 DEF WorkerTake, TypeOK, Set
<1>3. worker = NoDoc /\ worker' = d /\ doc[d].open
      /\ UNCHANGED <<fileVars, dep, available, session, job, reuse_disabled, condemned>>
  BY DEF WorkerTake
<1>4. NoDoc \notin Docs BY CacheAssumption DEF CacheAssumption
<1>5. job.pc \notin Writing BY <1>1, <1>3, <1>4 DEF LockInv
<1>6. doc[d].snap = 0 BY <1>1, <1>3, <1>4 DEF DocsInv
<1> DEFINE r == doc[d]
<1>7. /\ r.open = doc[d].open /\ r.gen = doc[d].gen /\ r.persistent = doc[d].persistent
      /\ r.identity = doc[d].identity /\ r.cache = doc[d].cache /\ r.snap = 0
      /\ r.claimed = doc[d].claimed /\ r \in DocRecords /\ Set(d, r)
  BY <1>2, <1>6
<1> HIDE DEF r
<1> QED BY <1>1, <1>3, <1>5, <1>7, OneDocStep DEF DocsInv

\* The worker begins to convert.
LEMMA ConvertBegins ==
  ASSUME IInv, NEW d \in Docs, ConvertBegin(d)
  PROVE  IInv'
<1>1. TypeOK /\ LockInv /\ DocsInv BY DEF IInv, BaseInv
<1>2. doc[d] \in DocRecords /\ dep \in 0 .. MaxDep BY <1>1 DEF TypeOK, Versions
<1> DEFINE r == [doc[d] EXCEPT !.claimed = TRUE, !.prepared = FALSE, !.snap = dep, !.cache = "tmp"]
<1>3. r \in DocRecords BY <1>2 DEF DocRecords
<1>4. /\ r.open = doc[d].open /\ r.gen = doc[d].gen /\ r.persistent = doc[d].persistent
      /\ r.identity = doc[d].identity /\ r.cache = "tmp" /\ r.claimed = TRUE
  BY <1>2 DEF DocRecords
<1>5. /\ Set(d, r) /\ LockFree /\ worker = d /\ ~doc[d].claimed
      /\ UNCHANGED <<fileVars, dep, available, session, worker, job, reuse_disabled, condemned>>
  BY DEF ConvertBegin
<1>6. ~doc[d].persistent /\ doc[d].open BY <1>1, <1>5 DEF DocsInv
<1>7. job.pc \notin Writing BY <1>5 DEF LockFree, Writing, Keeping
<1> HIDE DEF r
<1> QED BY <1>1, <1>3, <1>4, <1>5, <1>6, <1>7, OneDocStep DEF DocsInv

\* The worker is through with a document.
LEMMA WorkerEnds ==
  ASSUME IInv, NEW d \in Docs, WorkerDone(d)
  PROVE  IInv'
<1>1. TypeOK /\ LockInv /\ DocsInv BY DEF IInv, BaseInv
<1>2. doc[d] \in DocRecords BY <1>1 DEF TypeOK
<1>3. PICK b \in BOOLEAN : Set(d, [doc[d] EXCEPT !.snap = 0, !.stopped = b])
  <2> DEFINE b == cancelled(d) \/ ~doc[d].bad
  <2>1. b \in BOOLEAN OBVIOUS
  <2>2. Set(d, [doc[d] EXCEPT !.snap = 0, !.stopped = b]) BY DEF WorkerDone
  <2> HIDE DEF b
  <2> QED BY <2>1, <2>2
<1> DEFINE r == [doc[d] EXCEPT !.snap = 0, !.stopped = b]
<1>4. r \in DocRecords
  <2>1. 0 \in 0 .. MaxDep BY CacheAssumption DEF CacheAssumption
  <2> QED BY <1>2, <2>1 DEF DocRecords
<1>5. /\ r.open = doc[d].open /\ r.gen = doc[d].gen /\ r.persistent = doc[d].persistent
      /\ r.identity = doc[d].identity /\ r.cache = doc[d].cache /\ r.snap = 0
      /\ r.claimed = doc[d].claimed
  BY <1>2 DEF DocRecords
<1>6. /\ Set(d, r) /\ LockFree /\ worker = d /\ worker' = NoDoc
      /\ UNCHANGED <<fileVars, dep, available, session, job, reuse_disabled, condemned>>
  BY <1>3 DEF WorkerDone
<1>7. job.pc \notin Writing /\ NoDoc # d
  BY <1>6, CacheAssumption DEF LockFree, Writing, Keeping, CacheAssumption
<1> HIDE DEF r
<1> QED BY <1>1, <1>4, <1>5, <1>6, <1>7, OneDocStep DEF DocsInv

-----------------------------------------------------------------------------
(* The steps of a replacement, under the lock. *)

\* While a text is being kept no other document is valid, and this one is not kept.
LEMMA OnlyTheKeeper ==
  ASSUME LockInv, DocsInv, job.pc \in Keeping
  PROVE  \A p \in Docs : valid(p) => p = job.doc /\ ~doc[p].persistent
BY DEF LockInv, DocsInv

\* No mark says "complete" of nothing, and none is "incomplete" and complete.
LEMMA NoVersion == Incomplete \notin Versions /\ None \notin Versions /\ Bad \notin Versions
                   /\ Versions \subseteq 0 .. MaxDep
BY CacheAssumption DEF CacheAssumption, Versions, Incomplete

\* A step of the replacement of the metadata.
LEMMA MetaStepKeeps ==
  ASSUME IInv, MetaStep
  PROVE  IInv'
<1>1. TypeOK /\ FilesInv /\ LockInv /\ OrderInv /\ DocsInv /\ CondemnedInv /\ (Card => KeptInv)
  BY DEF IInv, BaseInv
<1>2. /\ Meta!Step
      /\ UNCHANGED <<bin, binOp, dep, available, session, doc, worker, job, reuse_disabled, condemned>>
  BY DEF MetaStep
<1>3. /\ meta' \in Meta!Files /\ metaOp' \in Meta!Ops /\ Replacing(meta', metaOp', 0 .. MaxDep)
      /\ metaOp'.ok => Mark' = metaOp'.content
      /\ metaOp'.content = metaOp.content
      /\ metaOp.pc \notin {"idle", "end"} /\ metaOp'.pc # "idle"
      /\ Taken(metaOp) => Taken(metaOp)'
      /\ (Taken(metaOp) <=> Taken(metaOp)') => Mark' = Mark
      /\ ~Taken(metaOp) /\ Taken(metaOp)' => Mark' = metaOp.content
  BY <1>1, <1>2, MetaMoves DEF TypeOK, FilesInv
<1>4. TypeOK' BY <1>1, <1>2, <1>3 DEF TypeOK
<1>5. Text' = Text BY <1>2 DEF Text
<1>6. FilesInv' BY <1>1, <1>2, <1>3, <1>5 DEF FilesInv
<1>7. job.pc \in {"prepare", "complete", "invalidate", "touch"}
  BY <1>1, <1>3 DEF LockInv, Writing, Keeping
<1>8. \A p \in Docs : valid(p)' <=> valid(p) BY <1>2 DEF valid, InSession
<1>9. LockInv' BY <1>1, <1>2, <1>3, <1>8 DEF LockInv
<1>10. OrderInv'
  <2>1. job' = job /\ doc' = doc BY <1>2
  <2>2. job.pc = "complete" /\ ~Taken(metaOp)' => Mark' = Incomplete BY <1>1, <1>3 DEF OrderInv
  <2>3. job.pc = "touch" => Mark' = metaOp'.content BY <1>1, <1>3 DEF OrderInv
  <2>4. job.pc \in {"prepare", "invalidate"} => metaOp'.content = Incomplete
    BY <1>1, <1>3 DEF OrderInv
  <2>5. job.pc = "complete" => metaOp'.content = doc[job.doc].snap /\ Text = doc[job.doc].snap
    BY <1>1, <1>3 DEF OrderInv
  <2>6. job.pc = "invalidate" => \A d \in Docs : valid(d)' => doc[d].identity = 0
    BY <1>1, <1>8 DEF OrderInv
  <2> QED BY <1>5, <1>7, <2>1, <2>2, <2>3, <2>4, <2>5, <2>6 DEF OrderInv, Sweeping
<1>11. DocsInv' BY <1>1, <1>2 DEF DocsInv
<1>12. CASE job.pc = "complete"
  <2>1. Mark' = Incomplete \/ Taken(metaOp)' BY <1>1, <1>3, <1>12 DEF OrderInv
  <2>2. CondemnedInv' BY <1>1, <1>2, <1>12 DEF CondemnedInv
  <2>3. ASSUME Card PROVE KeptInv'
    <3>1. Mark' = Mark \/ Mark' = Text BY <1>1, <1>3, <1>12 DEF OrderInv
    <3>2. CompleteMeansKept' BY <1>1, <1>5, <2>3, <3>1 DEF KeptInv, CompleteMeansKept, Mark, Text
    <3>3. \A p \in Docs : valid(p)' => ~doc'[p].persistent
      BY <1>1, <1>2, <1>8, <1>12, OnlyTheKeeper DEF Keeping
    <3> QED BY <1>2, <1>12, <3>2, <3>3 DEF KeptInv
  <2> QED BY <1>4, <1>6, <1>9, <1>10, <1>11, <2>2, <2>3 DEF IInv, BaseInv
<1>13. CASE job.pc # "complete"
  <2>1. Mark' \in {Mark, Incomplete} BY <1>1, <1>3, <1>7, <1>13 DEF OrderInv
  <2>2. CondemnedInv' BY <1>1, <1>2, <1>13, <2>1, NoVersion DEF CondemnedInv
  <2>3. ASSUME Card PROVE KeptInv'
    <3>1. CompleteMeansKept'
      BY <1>1, <1>5, <2>1, <2>3, NoVersion DEF KeptInv, CompleteMeansKept, Mark, Text
    <3>2. ASSUME NEW p \in Docs, valid(p)', doc'[p].cache = "bin", ~doc'[p].persistent
          PROVE  Mark' \notin Versions
      BY <1>1, <1>2, <1>8, <1>13, <2>1, <2>3, <3>2, NoVersion DEF KeptInv
    <3>3. ASSUME NEW p \in Docs, valid(p)', doc'[p].persistent, doc'[p].identity # 0
          PROVE  Mark' = doc'[p].identity
      <4>1. valid(p) /\ doc'[p] = doc[p] BY <1>2, <1>8, <3>3
      <4>2. job.pc # "prepare" BY <1>1, <3>3, <4>1, OnlyTheKeeper DEF Keeping
      <4>3. job.pc # "invalidate" BY <1>1, <3>3, <4>1 DEF OrderInv
      <4>4. job.pc = "touch" BY <1>7, <1>13, <4>2, <4>3
      <4>5. Mark' = Mark BY <1>1, <1>3, <4>4 DEF OrderInv
      <4> QED BY <1>1, <2>3, <3>3, <4>1, <4>5 DEF KeptInv
    <3> QED BY <3>1, <3>2, <3>3 DEF KeptInv
  <2> QED BY <1>4, <1>6, <1>9, <1>10, <1>11, <2>2, <2>3 DEF IInv, BaseInv
<1> QED BY <1>12, <1>13

\* A step of the replacement of the text.
LEMMA BinStepKeeps ==
  ASSUME IInv, BinStep
  PROVE  IInv'
<1>1. TypeOK /\ FilesInv /\ LockInv /\ OrderInv /\ DocsInv /\ CondemnedInv /\ (Card => KeptInv)
  BY DEF IInv, BaseInv
<1>2. /\ Bin!Step
      /\ UNCHANGED <<meta, metaOp, dep, available, session, doc, worker, job, reuse_disabled, condemned>>
  BY DEF BinStep
<1>3. /\ bin' \in Bin!Files /\ binOp' \in Bin!Ops /\ Replacing(bin', binOp', Versions)
      /\ binOp'.ok => Text' = binOp'.content
      /\ binOp'.content = binOp.content
      /\ binOp.pc \notin {"idle", "end"} /\ binOp'.pc # "idle"
  BY <1>1, <1>2, BinMoves DEF TypeOK, FilesInv
<1>4. TypeOK' BY <1>1, <1>2, <1>3 DEF TypeOK
<1>5. Mark' = Mark BY <1>2 DEF Mark
<1>6. FilesInv' BY <1>1, <1>2, <1>3, <1>5 DEF FilesInv
<1>7. job.pc = "binary" BY <1>1, <1>3 DEF LockInv
<1>8. \A p \in Docs : valid(p)' <=> valid(p) BY <1>2 DEF valid, InSession
<1>9. LockInv' BY <1>1, <1>2, <1>3, <1>8 DEF LockInv
<1>10. Mark = Incomplete /\ binOp'.content = doc[job.doc].snap BY <1>1, <1>3, <1>7 DEF OrderInv
<1>11. OrderInv'
  <2>1. job' = job /\ doc' = doc BY <1>2
  <2> QED BY <1>5, <1>7, <1>10, <2>1 DEF OrderInv, Sweeping
<1>12. DocsInv' BY <1>1, <1>2 DEF DocsInv
<1>13. CondemnedInv' BY <1>1, <1>2, <1>5, CondemnedStays
<1>14. Card => KeptInv'
  <2> SUFFICES ASSUME Card PROVE KeptInv' OBVIOUS
  <2>1. CompleteMeansKept' BY <1>5, <1>10, NoVersion DEF CompleteMeansKept, Mark
  <2> QED BY <1>1, <1>2, <1>5, <1>8, <2>1 DEF KeptInv
<1> QED BY <1>4, <1>6, <1>9, <1>11, <1>12, <1>13, <1>14 DEF IInv, BaseInv

-----------------------------------------------------------------------------
(* The look-up, and the end of a document. *)

\* A document is opened.
LEMMA OpenKeeps ==
  ASSUME IInv, NEW d \in Docs, document_open(d)
  PROVE  IInv'
<1>1. TypeOK /\ FilesInv /\ LockInv /\ OrderInv /\ DocsInv /\ CondemnedInv /\ (Card => KeptInv)
  BY DEF IInv, BaseInv
<1>2. /\ LockFree /\ ~doc[d].open /\ available
      /\ UNCHANGED <<metaOp, binOp, dep, available, session, worker, job, reuse_disabled, condemned>>
  BY DEF document_open
<1>3. PICK hit \in BOOLEAN :
        /\ hit => Reusable
        /\ Set(d, [Closed EXCEPT !.open = TRUE, !.gen = session,
                     !.invalid = \E p \in Docs : valid(p) /\ doc[p].invalid,
                     !.identity = IF hit THEN dep ELSE 0,
                     !.persistent = hit, !.claimed = hit, !.stopped = hit, !.touch = hit,
                     !.cache = IF hit THEN "bin" ELSE "none"])
        /\ meta' \in {Meta!Recovered(meta)} \cup (IF hit THEN {} ELSE {meta})
        /\ bin' = IF hit THEN Bin!Recovered(bin) ELSE bin
  BY DEF document_open
<1> DEFINE inv == \E p \in Docs : valid(p) /\ doc[p].invalid
           r == [Closed EXCEPT !.open = TRUE, !.gen = session, !.invalid = inv,
                   !.identity = IF hit THEN dep ELSE 0,
                   !.persistent = hit, !.claimed = hit, !.stopped = hit, !.touch = hit,
                   !.cache = IF hit THEN "bin" ELSE "none"]
<1>4. r \in DocRecords /\ r.open = TRUE /\ r.gen = session /\ r.snap = 0
      /\ r.persistent = hit /\ r.claimed = hit
      /\ r.identity = (IF hit THEN dep ELSE 0) /\ r.cache = (IF hit THEN "bin" ELSE "none")
  <2>1. inv \in BOOLEAN OBVIOUS
  <2>2. dep \in 0 .. MaxDep /\ 0 \in 0 .. MaxDep /\ session \in 0 .. MaxSession
    BY <1>1, CacheAssumption DEF TypeOK, Versions, CacheAssumption
  <2> HIDE DEF inv
  <2> QED BY <1>3, <2>1, <2>2 DEF DocRecords, Closed
<1>5. Set(d, r) BY <1>3
<1> HIDE DEF r
<1>6. /\ doc' \in [Docs -> DocRecords] /\ doc'[d] = r
      /\ \A p \in Docs : p # d => doc'[p] = doc[p]
  BY <1>1, <1>4, <1>5, SetDoc DEF TypeOK
<1>7. /\ meta' \in Meta!Files /\ Mark' = Mark /\ bin' \in Bin!Files /\ Text' = Text
  <2>1. meta' = meta \/ meta' = Meta!Recovered(meta) BY <1>3
  <2>2. meta' \in Meta!Files /\ Mark' = Mark BY <1>1, <2>1, MetaRecovered DEF TypeOK, Mark
  <2>3. bin' = bin \/ bin' = Bin!Recovered(bin) BY <1>3
  <2> QED BY <1>1, <2>2, <2>3, BinRecovered DEF TypeOK, Text
<1>8. TypeOK' BY <1>1, <1>2, <1>6, <1>7 DEF TypeOK
<1>9. FilesInv' /\ LockInv' /\ OrderInv'
  BY <1>1, <1>2, FreeIs, WhenFree, Unlocked DEF LockFree
<1>10. DocsInv'
  <2>1. worker # d BY <1>1, <1>2 DEF DocsInv
  <2>2. session \in Nat BY <1>1 DEF TypeOK
  <2>3. ASSUME NEW p \in Docs
        PROVE  /\ doc'[p].open => doc'[p].gen <= session'
               /\ doc'[p].persistent => doc'[p].claimed /\ doc'[p].open
               /\ doc'[p].snap # 0 => doc'[p].claimed /\ ~doc'[p].persistent /\ worker' = p
               /\ worker' = p => doc'[p].open
    <3>1. CASE p = d BY <1>2, <1>4, <1>6, <2>1, <2>2, <3>1
    <3>2. CASE p # d BY <1>1, <1>2, <1>6, <3>2 DEF DocsInv
    <3> QED BY <3>1, <3>2
  <2> QED BY <2>3 DEF DocsInv
<1>11. CondemnedInv' BY <1>1, <1>2, <1>7, CondemnedStays
<1>12. Card => KeptInv'
  <2> SUFFICES ASSUME Card PROVE KeptInv' OBVIOUS
  <2>1. CompleteMeansKept' BY <1>1, <1>7 DEF KeptInv, CompleteMeansKept, Mark, Text
  <2>2. \A p \in Docs : p # d => (valid(p)' <=> valid(p)) BY <1>2, <1>6 DEF valid, InSession
  <2>3. job' = job /\ job.pc # "complete" BY <1>2 DEF LockFree
  <2>4. ASSUME NEW p \in Docs, valid(p)', doc'[p].cache = "bin", ~doc'[p].persistent
        PROVE  Mark' \notin Versions
    <3>1. p # d BY <1>4, <1>6, <2>4
    <3> QED BY <1>1, <1>6, <1>7, <2>2, <2>3, <2>4, <3>1 DEF KeptInv
  <2>5. ASSUME NEW p \in Docs, valid(p)', doc'[p].persistent, doc'[p].identity # 0
        PROVE  Mark' = doc'[p].identity
    <3>1. CASE p # d BY <1>1, <1>6, <1>7, <2>2, <2>5, <3>1 DEF KeptInv
    <3>2. CASE p = d
      <4>1. hit BY <1>4, <1>6, <2>5, <3>2
      <4>2. Mark = dep BY <1>3, <4>1 DEF Reusable, Mark
      <4> QED BY <1>4, <1>6, <1>7, <3>2, <4>1, <4>2
    <3> QED BY <3>1, <3>2
  <2> QED BY <2>1, <2>4, <2>5 DEF KeptInv
<1> QED BY <1>8, <1>9, <1>10, <1>11, <1>12 DEF IInv, BaseInv

\* A document is disposed of.
LEMMA DisposeKeeps ==
  ASSUME IInv, NEW d \in Docs, Dispose(d)
  PROVE  IInv'
<1>1. TypeOK /\ FilesInv /\ LockInv /\ OrderInv /\ DocsInv /\ CondemnedInv /\ (Card => KeptInv)
  BY DEF IInv, BaseInv
<1>2. /\ LockFree /\ doc[d].open /\ worker # d /\ Set(d, Closed)
      /\ UNCHANGED <<meta, metaOp, binOp, dep, available, session, worker, job, reuse_disabled, condemned>>
  BY DEF Dispose, Disposable
<1>3. /\ doc' \in [Docs -> DocRecords] /\ doc'[d] = Closed
      /\ \A p \in Docs : p # d => doc'[p] = doc[p]
  BY <1>1, <1>2, SetDoc, ClosedIs DEF TypeOK
<1>4. bin' = bin \/ (bin' = [bin EXCEPT !.path = None] /\ doc[d].cache = "bin" /\ ~doc[d].persistent
                     /\ (Card => InSession(doc[d].gen)))
  BY DEF Dispose
<1>5. bin' \in Bin!Files BY <1>1, <1>4 DEF TypeOK, Bin!Files
<1>6. Mark' = Mark BY <1>2 DEF Mark
<1>7. TypeOK' BY <1>1, <1>2, <1>3, <1>5 DEF TypeOK
<1>8. FilesInv' /\ LockInv' /\ OrderInv'
  BY <1>1, <1>2, FreeIs, WhenFree, Unlocked DEF LockFree
<1>9. DocsInv'
  <2>1. ASSUME NEW p \in Docs
        PROVE  /\ doc'[p].open => doc'[p].gen <= session'
               /\ doc'[p].persistent => doc'[p].claimed /\ doc'[p].open
               /\ doc'[p].snap # 0 => doc'[p].claimed /\ ~doc'[p].persistent /\ worker' = p
               /\ worker' = p => doc'[p].open
    <3>1. CASE p = d BY <1>2, <1>3, <3>1, ClosedIs
    <3>2. CASE p # d BY <1>1, <1>2, <1>3, <3>2 DEF DocsInv
    <3> QED BY <3>1, <3>2
  <2> QED BY <2>1 DEF DocsInv
<1>10. CondemnedInv' BY <1>1, <1>2, <1>6, CondemnedStays
<1>11. Card => KeptInv'
  <2> SUFFICES ASSUME Card PROVE KeptInv' OBVIOUS
  <2>1. \A p \in Docs : valid(p)' => p # d /\ valid(p) /\ doc'[p] = doc[p]
    BY <1>2, <1>3, ClosedIs DEF valid, InSession
  <2>2. job' = job /\ job.pc # "complete" BY <1>2 DEF LockFree
  <2>3. Text' = Text \/ Mark \notin Versions
    <3>1. CASE bin' = bin BY <3>1 DEF Text
    <3>2. CASE bin' # bin
      <4>1. valid(d) BY <1>2, <1>4, <3>2 DEF valid
      <4> QED BY <1>1, <1>4, <2>2, <3>2, <4>1 DEF KeptInv
    <3> QED BY <3>1, <3>2
  <2> QED BY <1>1, <1>6, <2>1, <2>2, <2>3, KeptStays
<1> QED BY <1>7, <1>8, <1>9, <1>10, <1>11 DEF IInv, BaseInv

-----------------------------------------------------------------------------
(* What the worker does under the lock. *)

\* A document of its own whose conversion or whose care is over: one field of it changes, or two.
LEMMA DocsOne ==
  ASSUME TypeOK, DocsInv, NEW d \in Docs, NEW r \in DocRecords, Set(d, r),
         session' = session, worker' = worker,
         doc[d].open, r.open, r.gen = doc[d].gen, r.persistent => r.claimed,
         r.snap # 0 => r.claimed /\ ~r.persistent /\ worker = d
  PROVE  DocsInv'
<1>1. /\ doc' \in [Docs -> DocRecords] /\ doc'[d] = r
      /\ \A p \in Docs : p # d => doc'[p] = doc[p]
  BY SetDoc DEF TypeOK
<1>2. ASSUME NEW p \in Docs
      PROVE  /\ doc'[p].open => doc'[p].gen <= session'
             /\ doc'[p].persistent => doc'[p].claimed /\ doc'[p].open
             /\ doc'[p].snap # 0 => doc'[p].claimed /\ ~doc'[p].persistent /\ worker' = p
             /\ worker' = p => doc'[p].open
  <2>1. CASE p = d BY <1>1, <2>1 DEF DocsInv
  <2>2. CASE p # d BY <1>1, <2>2 DEF DocsInv
  <2> QED BY <2>1, <2>2
<1> QED BY <1>2 DEF DocsInv

\* What was converted is to be kept.
LEMMA ConvertKeeps ==
  ASSUME IInv, NEW d \in Docs, ConvertKeep(d)
  PROVE  IInv'
<1>1. TypeOK /\ FilesInv /\ LockInv /\ OrderInv /\ DocsInv /\ CondemnedInv /\ (Card => KeptInv)
  BY DEF IInv, BaseInv
<1>2. /\ LockFree /\ worker = d /\ doc[d].snap # 0 /\ Others(d) = {}
      /\ Set(d, [doc[d] EXCEPT !.identity = 0])
      /\ Meta!StartReplace(Incomplete) /\ Enter("prepare", d)
      /\ UNCHANGED <<meta, bin, binOp, dep, available, session, worker, reuse_disabled, condemned>>
  BY DEF ConvertKeep
<1>3. doc[d] \in DocRecords /\ Incomplete \in 0 .. MaxDep /\ 0 \in 0 .. MaxDep
  BY <1>1, CacheAssumption DEF TypeOK, CacheAssumption, Incomplete
<1> DEFINE r == [doc[d] EXCEPT !.identity = 0]
<1>4. /\ r \in DocRecords /\ r.identity = 0 /\ r.open = doc[d].open /\ r.gen = doc[d].gen
      /\ r.snap = doc[d].snap /\ r.persistent = doc[d].persistent /\ r.claimed = doc[d].claimed
      /\ r.cache = doc[d].cache
  BY <1>3 DEF DocRecords
<1>5. Set(d, r) BY <1>2
<1> HIDE DEF r
<1>6. /\ doc' \in [Docs -> DocRecords] /\ doc'[d] = r
      /\ \A p \in Docs : p # d => doc'[p] = doc[p]
  BY <1>1, <1>4, <1>5, SetDoc DEF TypeOK
<1>7. job' \in [pc : JobSteps, doc : Docs \cup {NoDoc}] /\ job'.pc = "prepare" /\ job'.doc = d
  BY <1>2, Holder DEF JobSteps
<1>8. /\ metaOp' \in Meta!Ops /\ metaOp'.pc = "begin" /\ metaOp'.content = Incomplete
      /\ metaOp'.ok = FALSE /\ Replacing(meta', metaOp', 0 .. MaxDep)
  BY <1>2, <1>3, MetaBegins
<1>9. TypeOK' BY <1>1, <1>2, <1>6, <1>7, <1>8 DEF TypeOK
<1>10. Mark' = Mark /\ Text' = Text BY <1>2 DEF Mark, Text
<1>11. binOp.pc = "idle" /\ binOp.ok = FALSE BY <1>1, <1>2, FreeIs, WhenFree
<1>12. FilesInv' BY <1>2, <1>8, <1>11 DEF FilesInv, Replacing
<1>13. \A p \in Docs : valid(p)' => valid(p) BY <1>2, <1>4, <1>6 DEF valid, InSession
<1>14. LockInv'
  <2>1. \A p \in Docs \ {d} : ~valid(p)' BY <1>2, <1>13 DEF Others
  <2>2. doc'[d].open /\ doc'[d].snap # 0 BY <1>1, <1>2, <1>4, <1>6 DEF DocsInv
  <2> QED BY <1>2, <1>7, <1>8, <1>11, <2>1, <2>2 DEF LockInv, Writing, Keeping
<1>15. OrderInv' BY <1>7, <1>8 DEF OrderInv, Sweeping
<1>16. DocsInv' BY <1>1, <1>2, <1>4, <1>5, DocsOne DEF DocsInv
<1>17. CondemnedInv' BY <1>1, <1>2, <1>7, <1>10, FreeIs, CondemnedWaits
<1>18. Card => KeptInv'
  <2> SUFFICES ASSUME Card PROVE KeptInv' OBVIOUS
  <2>1. job.pc # "complete" BY <1>2, FreeIs
  <2> QED BY <1>1, <1>4, <1>6, <1>10, <1>13, <2>1, KeptStays
<1> QED BY <1>9, <1>12, <1>14, <1>15, <1>16, <1>17, <1>18 DEF IInv, BaseInv

\* The metadata is prepared: the text may be replaced.
LEMMA PreparedKeeps ==
  ASSUME IInv, Prepared
  PROVE  IInv'
<1>1. TypeOK /\ FilesInv /\ LockInv /\ OrderInv /\ DocsInv /\ CondemnedInv /\ (Card => KeptInv)
  BY DEF IInv, BaseInv
<1> DEFINE d == job.doc
<1>2. /\ job.pc = "prepare" /\ metaOp.pc = "end" /\ metaOp' = Meta!Idle
      /\ UNCHANGED <<meta, dep, available, session, worker, reuse_disabled, condemned>>
  BY DEF Prepared
<1>3. d \in Docs /\ worker = d /\ doc[d].open /\ doc[d].snap # 0 /\ binOp.pc = "idle"
  BY <1>1, <1>2 DEF LockInv, Writing, Keeping
<1>4. doc[d] \in DocRecords /\ binOp.ok \in BOOLEAN BY <1>1, <1>3 DEF TypeOK, Bin!Ops
<1>5. doc[d].claimed /\ ~doc[d].persistent BY <1>1, <1>3 DEF DocsInv
<1>6. /\ metaOp' \in Meta!Ops /\ metaOp'.pc = "idle" /\ metaOp'.ok = FALSE /\ ~Taken(metaOp)'
  BY <1>2, MetaIdles
<1>7. Mark' = Mark BY <1>2 DEF Mark
<1>8. CASE metaOp.ok /\ valid(d)
  <2> DEFINE r == [doc[d] EXCEPT !.prepared = TRUE, !.invalid = FALSE]
  <2>1. Set(d, r) /\ Bin!StartCommit(doc[d].snap) /\ Enter("binary", d) BY <1>8 DEF Prepared
  <2>2. /\ r \in DocRecords /\ r.identity = doc[d].identity /\ r.open = doc[d].open
        /\ r.gen = doc[d].gen /\ r.snap = doc[d].snap /\ r.persistent = doc[d].persistent
        /\ r.claimed = doc[d].claimed /\ r.cache = doc[d].cache
    BY <1>4 DEF DocRecords
  <2> HIDE DEF r
  <2>3. /\ doc' \in [Docs -> DocRecords] /\ doc'[d] = r
        /\ \A p \in Docs : p # d => doc'[p] = doc[p]
    BY <1>1, <1>3, <2>1, <2>2, SetDoc DEF TypeOK
  <2>4. job' \in [pc : JobSteps, doc : Docs \cup {NoDoc}] /\ job'.pc = "binary" /\ job'.doc = d
    BY <1>3, <2>1, Holder DEF JobSteps
  <2>5. doc[d].snap \in Versions
    <3>1. doc[d].snap \in 0 .. MaxDep BY <1>4, Fields
    <3> QED BY <1>3, <3>1 DEF Versions
  <2>6. /\ binOp' = [pc |-> "commit", content |-> doc[d].snap, ok |-> FALSE]
        /\ bin' = [bin EXCEPT !.tmp = doc[d].snap]
    BY <2>1 DEF Bin!StartCommit
  <2>7. binOp' \in Bin!Ops /\ bin' \in Bin!Files /\ bin'.tmp = doc[d].snap
        /\ bin'.path = bin.path /\ bin'.old = bin.old
    BY <1>1, <2>5, <2>6 DEF TypeOK, Bin!Ops, Bin!Files, Bin!Steps
  <2>8. Text' = Text
    <3>1. bin \in Bin!Files BY <1>1 DEF TypeOK
    <3>2. bin.path = None => Text' = (IF Card THEN bin'.old ELSE None)
      BY <2>7, BinEffective DEF Text
    <3>3. bin.path = None => Text = (IF Card THEN bin.old ELSE None)
      BY <3>1, BinEffective DEF Text
    <3>4. bin.path # None => Text' = bin.path /\ Text = bin.path
      BY <2>7, <3>1, BinEffective DEF Text
    <3> QED BY <2>7, <3>2, <3>3, <3>4
  <2>9. TypeOK' BY <1>1, <1>2, <1>6, <2>3, <2>4, <2>7 DEF TypeOK
  <2>10. FilesInv' BY <1>6, <2>5, <2>6, <2>7 DEF FilesInv, Replacing
  <2>11. \A p \in Docs : valid(p)' => valid(p) BY <1>2, <2>2, <2>3 DEF valid, InSession
  <2>12. LockInv'
    <3>1. \A p \in Docs \ {d} : ~valid(p)' BY <1>1, <1>2, <2>11 DEF LockInv, Keeping
    <3>2. worker' = d /\ doc'[d].open /\ doc'[d].snap # 0 BY <1>2, <1>3, <2>2, <2>3
    <3> QED BY <1>3, <1>6, <2>4, <2>6, <3>1, <3>2 DEF LockInv, Writing, Keeping
  <2>13. Mark = Incomplete BY <1>1, <1>2, <1>8 DEF FilesInv, OrderInv
  <2>14. OrderInv' BY <1>7, <2>2, <2>3, <2>4, <2>6, <2>13 DEF OrderInv, Sweeping
  <2>15. DocsInv' BY <1>1, <1>2, <1>3, <1>5, <2>1, <2>2, DocsOne
  <2>16. CondemnedInv' BY <1>1, <1>2, <1>7, <2>4, CondemnedWaits
  <2>17. Card => KeptInv'
    <3> SUFFICES ASSUME Card PROVE KeptInv' OBVIOUS
    <3> QED BY <1>1, <1>2, <1>7, <2>2, <2>3, <2>8, <2>11, KeptStays
  <2> QED BY <2>9, <2>10, <2>12, <2>14, <2>15, <2>16, <2>17 DEF IInv, BaseInv
<1>9. CASE ~(metaOp.ok /\ valid(d))
  <2> DEFINE r == [doc[d] EXCEPT !.snap = 0]
  <2>1. Set(d, r) /\ job' = Free /\ UNCHANGED <<bin, binOp>> BY <1>9 DEF Prepared
  <2>2. 0 \in 0 .. MaxDep BY CacheAssumption DEF CacheAssumption
  <2>3. /\ r \in DocRecords /\ r.identity = doc[d].identity /\ r.open = doc[d].open
        /\ r.gen = doc[d].gen /\ r.snap = 0 /\ r.persistent = doc[d].persistent
        /\ r.claimed = doc[d].claimed /\ r.cache = doc[d].cache
    BY <1>4, <2>2 DEF DocRecords
  <2> HIDE DEF r
  <2>4. /\ doc' \in [Docs -> DocRecords] /\ doc'[d] = r
        /\ \A p \in Docs : p # d => doc'[p] = doc[p]
    BY <1>1, <1>3, <2>1, <2>3, SetDoc DEF TypeOK
  <2>5. job' \in [pc : JobSteps, doc : Docs \cup {NoDoc}] /\ job'.pc = "free" BY <2>1, NoHolder
  <2>6. TypeOK' BY <1>1, <1>2, <1>6, <2>1, <2>4, <2>5 DEF TypeOK
  <2>7. binOp.ok = FALSE BY <1>1, <1>3, <1>4 DEF FilesInv, Replacing
  <2>8. FilesInv' /\ LockInv' /\ OrderInv' BY <1>3, <1>6, <2>1, <2>5, <2>7, Unlocked
  <2>9. Text' = Text BY <2>1 DEF Text
  <2>10. DocsInv' BY <1>1, <1>2, <1>3, <1>5, <2>1, <2>3, DocsOne
  <2>11. CondemnedInv' BY <1>1, <1>2, <1>7, <2>5, CondemnedWaits
  <2>12. Card => KeptInv'
    <3> SUFFICES ASSUME Card PROVE KeptInv' OBVIOUS
    <3>1. \A p \in Docs : valid(p)' => valid(p) BY <1>2, <2>3, <2>4 DEF valid, InSession
    <3> QED BY <1>1, <1>2, <1>7, <2>3, <2>4, <2>9, <3>1, KeptStays
  <2> QED BY <2>6, <2>8, <2>10, <2>11, <2>12 DEF IInv, BaseInv
<1> QED BY <1>8, <1>9

\* The text is kept: the metadata may be completed.
LEMMA BinaryKeptKeeps ==
  ASSUME IInv, BinaryKept
  PROVE  IInv'
<1>1. TypeOK /\ FilesInv /\ LockInv /\ OrderInv /\ DocsInv /\ CondemnedInv /\ (Card => KeptInv)
  BY DEF IInv, BaseInv
<1> DEFINE d == job.doc
           c == IF binOp.ok THEN "bin" ELSE "tmp"
           committed == doc[d].prepared /\ ~doc[d].invalid /\ valid(d) /\ doc[d].snap = dep
<1>2. /\ job.pc = "binary" /\ binOp.pc = "end" /\ binOp' = Bin!Idle
      /\ condemned' = IF binOp.ok THEN "no" ELSE condemned
      /\ UNCHANGED <<meta, bin, dep, available, session, worker, reuse_disabled>>
  BY DEF BinaryKept
<1>3. d \in Docs /\ worker = d /\ doc[d].open /\ doc[d].snap # 0 /\ metaOp.pc = "idle"
  BY <1>1, <1>2 DEF LockInv, Writing, Keeping
<1>4. doc[d] \in DocRecords /\ metaOp.ok \in BOOLEAN BY <1>1, <1>3 DEF TypeOK, Meta!Ops
<1>5. doc[d].claimed /\ ~doc[d].persistent BY <1>1, <1>3 DEF DocsInv
<1>6. binOp' \in Bin!Ops /\ binOp'.pc = "idle" /\ binOp'.ok = FALSE BY <1>2, BinIdles
<1>7. Mark' = Mark /\ Text' = Text BY <1>2 DEF Mark, Text
<1>8. Mark = Incomplete /\ binOp.content = doc[d].snap BY <1>1, <1>2 DEF OrderInv
<1>9. 0 \in 0 .. MaxDep /\ doc[d].snap \in 0 .. MaxDep
  BY <1>4, Fields, CacheAssumption DEF CacheAssumption
<1>10. PICK s \in {doc[d].snap, 0} :
         /\ Set(d, [doc[d] EXCEPT !.cache = c, !.snap = s])
         /\ \/ binOp.ok /\ s = doc[d].snap /\ Meta!StartReplace(s) /\ Enter("complete", d)
            \/ s = 0 /\ job' = Free /\ UNCHANGED metaOp
  <2>1. CASE binOp.ok /\ committed
    <3>1. Set(d, [doc[d] EXCEPT !.cache = c]) /\ Meta!StartReplace(doc[d].snap) /\ Enter("complete", d)
      BY <2>1 DEF BinaryKept
    <3>2. [doc[d] EXCEPT !.cache = c] = [doc[d] EXCEPT !.cache = c, !.snap = doc[d].snap]
      BY <1>4 DEF DocRecords
    <3> QED BY <2>1, <3>1, <3>2
  <2>2. CASE ~(binOp.ok /\ committed)
    <3>1. Set(d, [[doc[d] EXCEPT !.cache = c] EXCEPT !.snap = 0]) /\ job' = Free /\ UNCHANGED metaOp
      BY <2>2 DEF BinaryKept
    <3>2. [[doc[d] EXCEPT !.cache = c] EXCEPT !.snap = 0] = [doc[d] EXCEPT !.cache = c, !.snap = 0]
      BY <1>4 DEF DocRecords
    <3> QED BY <3>1, <3>2
  <2> QED BY <2>1, <2>2
<1> DEFINE r == [doc[d] EXCEPT !.cache = c, !.snap = s]
<1>11. /\ r \in DocRecords /\ r.open = doc[d].open /\ r.gen = doc[d].gen /\ r.snap = s
       /\ r.persistent = doc[d].persistent /\ r.claimed = doc[d].claimed
  <2>1. c \in {"tmp", "bin"} /\ s \in 0 .. MaxDep BY <1>9
  <2> HIDE DEF c
  <2> QED BY <1>4, <2>1 DEF DocRecords
<1>12. Set(d, r) BY <1>10
<1> HIDE DEF r, c, committed
<1>13. /\ doc' \in [Docs -> DocRecords] /\ doc'[d] = r
       /\ \A p \in Docs : p # d => doc'[p] = doc[p]
  BY <1>1, <1>3, <1>11, <1>12, SetDoc DEF TypeOK
<1>14. \A p \in Docs : valid(p)' => valid(p) BY <1>2, <1>11, <1>13 DEF valid, InSession
<1>15. DocsInv' BY <1>1, <1>2, <1>3, <1>5, <1>11, <1>12, DocsOne
<1>16. condemned' \in Findings /\ condemned' \in {"no", condemned} BY <1>1, <1>2 DEF TypeOK, Findings
<1>17. KeptInv'
  <2>1. \A p \in Docs : valid(p)' => ~doc'[p].persistent
    BY <1>1, <1>2, <1>5, <1>11, <1>13, <1>14, OnlyTheKeeper DEF Keeping
  <2>2. CompleteMeansKept' BY <1>7, <1>8, NoVersion DEF CompleteMeansKept, Mark
  <2> QED BY <1>7, <1>8, <2>1, <2>2, NoVersion DEF KeptInv
<1>18. CASE binOp.ok /\ s = doc[d].snap /\ Meta!StartReplace(s) /\ Enter("complete", d)
  <2>1. job' \in [pc : JobSteps, doc : Docs \cup {NoDoc}] /\ job'.pc = "complete" /\ job'.doc = d
    BY <1>3, <1>18, Holder DEF JobSteps
  <2>2. /\ metaOp' \in Meta!Ops /\ metaOp'.pc = "begin" /\ metaOp'.content = doc[d].snap
        /\ metaOp'.ok = FALSE /\ Replacing(meta', metaOp', 0 .. MaxDep)
    BY <1>9, <1>18, MetaBegins
  <2>3. TypeOK' BY <1>1, <1>2, <1>6, <1>13, <1>16, <2>1, <2>2 DEF TypeOK
  <2>4. FilesInv' BY <1>6, <2>2 DEF FilesInv, Replacing
  <2>5. LockInv'
    <3>1. \A p \in Docs \ {d} : ~valid(p)' BY <1>1, <1>2, <1>14 DEF LockInv, Keeping
    <3>2. worker' = d /\ doc'[d].open /\ doc'[d].snap # 0 BY <1>2, <1>3, <1>11, <1>13, <1>18
    <3> QED BY <1>3, <1>6, <2>1, <2>2, <3>1, <3>2 DEF LockInv, Writing, Keeping
  <2>6. OrderInv'
    <3>1. Text' = doc[d].snap BY <1>1, <1>7, <1>8, <1>18 DEF FilesInv
    <3> QED BY <1>7, <1>8, <1>11, <1>13, <1>18, <2>1, <2>2, <3>1 DEF OrderInv, Sweeping
  <2>7. CondemnedInv' BY <1>1, <1>2, <1>7, <1>16, <1>18, <2>1, CondemnedWaits
  <2> QED BY <1>15, <1>17, <2>3, <2>4, <2>5, <2>6, <2>7 DEF IInv, BaseInv
<1>19. CASE s = 0 /\ job' = Free /\ UNCHANGED metaOp
  <2>1. job' \in [pc : JobSteps, doc : Docs \cup {NoDoc}] /\ job'.pc = "free" BY <1>19, NoHolder
  <2>2. TypeOK' BY <1>1, <1>2, <1>6, <1>13, <1>16, <1>19, <2>1 DEF TypeOK
  <2>3. metaOp.ok = FALSE BY <1>1, <1>3, <1>4 DEF FilesInv, Replacing
  <2>4. FilesInv' /\ LockInv' /\ OrderInv' BY <1>3, <1>6, <1>19, <2>1, <2>3, Unlocked
  <2>5. CondemnedInv' BY <1>1, <1>2, <1>7, <1>16, <2>1, CondemnedWaits
  <2> QED BY <1>15, <1>17, <2>2, <2>4, <2>5 DEF IInv, BaseInv
<1> QED BY <1>10, <1>18, <1>19

\* The metadata is complete.
LEMMA CompletedKeeps ==
  ASSUME IInv, Completed
  PROVE  IInv'
<1>1. TypeOK /\ FilesInv /\ LockInv /\ OrderInv /\ DocsInv /\ CondemnedInv /\ (Card => KeptInv)
  BY DEF IInv, BaseInv
<1> DEFINE d == job.doc
<1>2. /\ job.pc = "complete" /\ metaOp.pc = "end" /\ metaOp' = Meta!Idle /\ job' = Free
      /\ UNCHANGED <<meta, bin, binOp, dep, available, session, worker, reuse_disabled, condemned>>
  BY DEF Completed
<1>3. d \in Docs /\ worker = d /\ doc[d].open /\ doc[d].snap # 0 /\ binOp.pc = "idle"
  BY <1>1, <1>2 DEF LockInv, Writing, Keeping
<1>4. doc[d] \in DocRecords /\ binOp.ok \in BOOLEAN BY <1>1, <1>3 DEF TypeOK, Bin!Ops
<1>5. doc[d].claimed /\ ~doc[d].persistent BY <1>1, <1>3 DEF DocsInv
<1>6. metaOp' \in Meta!Ops /\ metaOp'.pc = "idle" /\ metaOp'.ok = FALSE BY <1>2, MetaIdles
<1>7. Mark' = Mark /\ Text' = Text BY <1>2 DEF Mark, Text
<1>8. /\ metaOp.ok => Mark = doc[d].snap
      /\ ~metaOp.ok => Mark = Incomplete
  BY <1>1, <1>2 DEF FilesInv, OrderInv, Taken
<1>9. 0 \in 0 .. MaxDep /\ doc[d].snap \in 0 .. MaxDep
  BY <1>4, Fields, CacheAssumption DEF CacheAssumption
<1>10. PICK r \in DocRecords :
         /\ Set(d, r) /\ r.open = doc[d].open /\ r.gen = doc[d].gen /\ r.snap = 0 /\ r.claimed
         /\ \/ metaOp.ok /\ valid(d) /\ r.persistent /\ r.identity = doc[d].snap
            \/ ~(metaOp.ok /\ valid(d)) /\ ~r.persistent
  <2>1. CASE metaOp.ok /\ valid(d)
    <3> DEFINE r == [doc[d] EXCEPT !.identity = doc[d].snap, !.prepared = FALSE, !.persistent = TRUE, !.snap = 0]
    <3>1. Set(d, r) BY <2>1 DEF Completed
    <3>2. /\ r \in DocRecords /\ r.open = doc[d].open /\ r.gen = doc[d].gen /\ r.snap = 0
          /\ r.claimed = doc[d].claimed /\ r.persistent = TRUE /\ r.identity = doc[d].snap
      BY <1>4, <1>9 DEF DocRecords
    <3> HIDE DEF r
    <3> QED BY <1>5, <2>1, <3>1, <3>2
  <2>2. CASE ~(metaOp.ok /\ valid(d))
    <3> DEFINE r == [doc[d] EXCEPT !.snap = 0]
    <3>1. Set(d, r) BY <2>2 DEF Completed
    <3>2. /\ r \in DocRecords /\ r.open = doc[d].open /\ r.gen = doc[d].gen /\ r.snap = 0
          /\ r.claimed = doc[d].claimed /\ r.persistent = doc[d].persistent
      BY <1>4, <1>9 DEF DocRecords
    <3> HIDE DEF r
    <3> QED BY <1>5, <2>2, <3>1, <3>2
  <2> QED BY <2>1, <2>2
<1>11. /\ doc' \in [Docs -> DocRecords] /\ doc'[d] = r
       /\ \A p \in Docs : p # d => doc'[p] = doc[p]
  BY <1>1, <1>3, <1>10, SetDoc DEF TypeOK
<1>12. job' \in [pc : JobSteps, doc : Docs \cup {NoDoc}] /\ job'.pc = "free" BY <1>2, NoHolder
<1>13. TypeOK' BY <1>1, <1>2, <1>6, <1>11, <1>12 DEF TypeOK
<1>14. binOp.ok = FALSE BY <1>1, <1>3, <1>4 DEF FilesInv, Replacing
<1>15. FilesInv' /\ LockInv' /\ OrderInv' BY <1>2, <1>3, <1>6, <1>12, <1>14, Unlocked
<1>16. DocsInv' BY <1>1, <1>2, <1>3, <1>10, DocsOne
<1>17. CondemnedInv' BY <1>1, <1>2, <1>12 DEF CondemnedInv
<1>18. Card => KeptInv'
  <2> SUFFICES ASSUME Card PROVE KeptInv' OBVIOUS
  <2>1. CompleteMeansKept' BY <1>1, <1>7 DEF KeptInv, CompleteMeansKept, Mark, Text
  <2>2. \A p \in Docs : valid(p)' => p = d /\ valid(d)
    <3>1. \A p \in Docs : valid(p)' => valid(p) BY <1>2, <1>10, <1>11 DEF valid, InSession
    <3> QED BY <1>1, <1>2, <3>1, OnlyTheKeeper DEF Keeping
  <2>3. ASSUME NEW p \in Docs, valid(p)', ~doc'[p].persistent
        PROVE  Mark' \notin Versions
    BY <1>7, <1>8, <1>10, <1>11, <2>2, <2>3, NoVersion
  <2>4. ASSUME NEW p \in Docs, valid(p)', doc'[p].persistent
        PROVE  Mark' = doc'[p].identity
    BY <1>7, <1>8, <1>10, <1>11, <2>2, <2>4
  <2> QED BY <2>1, <2>3, <2>4 DEF KeptInv
<1> QED BY <1>13, <1>15, <1>16, <1>17, <1>18 DEF IInv, BaseInv

-----------------------------------------------------------------------------
(* A text found bad, and the time of a use. *)

\* A cache that was found to be bad begins to be condemned.
LEMMA InvalidateBegins ==
  ASSUME IInv, NEW d \in Docs, InvalidateBegin(d)
  PROVE  IInv'
<1>1. TypeOK /\ FilesInv /\ LockInv /\ OrderInv /\ DocsInv /\ CondemnedInv /\ (Card => KeptInv)
  BY DEF IInv, BaseInv
<1> DEFINE tell(p) == IF doc[p].open /\ doc[p].gen = doc[d].gen
                      THEN [doc[p] EXCEPT !.invalid = TRUE, !.identity = 0] ELSE doc[p]
           told == [p \in Docs |-> tell(p)]
<1>2. /\ LockFree /\ worker = d
      /\ condemned' = IF condemned = "marked" THEN "marked" ELSE "condemned"
      /\ UNCHANGED <<meta, bin, binOp, dep, available, session, worker>>
  BY DEF InvalidateBegin
<1>3. \/ /\ valid(d) /\ doc' = told /\ Meta!StartReplace(Incomplete) /\ Enter("invalidate", d)
         /\ UNCHANGED reuse_disabled
      \/ /\ ~valid(d) /\ doc' = [told EXCEPT ![d].bad = FALSE, ![d].touch = FALSE]
         /\ reuse_disabled' = TRUE /\ UNCHANGED <<metaOp, job>>
  BY DEF InvalidateBegin
<1>4. 0 \in 0 .. MaxDep BY CacheAssumption DEF CacheAssumption
<1>5. ASSUME NEW p \in Docs
      PROVE  /\ tell(p) \in DocRecords /\ tell(p).open = doc[p].open /\ tell(p).gen = doc[p].gen
             /\ tell(p).persistent = doc[p].persistent /\ tell(p).claimed = doc[p].claimed
             /\ tell(p).snap = doc[p].snap /\ tell(p).cache = doc[p].cache
             /\ tell(p).identity \in {0, doc[p].identity}
             /\ doc[p].open /\ doc[p].gen = doc[d].gen => tell(p).identity = 0
  <2>1. doc[p] \in DocRecords BY <1>1 DEF TypeOK
  <2>2. CASE doc[p].open /\ doc[p].gen = doc[d].gen BY <1>4, <2>1, <2>2 DEF DocRecords
  <2>3. CASE ~(doc[p].open /\ doc[p].gen = doc[d].gen) BY <2>1, <2>3
  <2> QED BY <2>2, <2>3
<1>6. told \in [Docs -> DocRecords] /\ \A p \in Docs : told[p] = tell(p) BY <1>5
<1> HIDE DEF tell, told
<1>7. /\ doc' \in [Docs -> DocRecords]
      /\ \A p \in Docs :
           /\ doc'[p].open = doc[p].open /\ doc'[p].gen = doc[p].gen
           /\ doc'[p].persistent = doc[p].persistent /\ doc'[p].claimed = doc[p].claimed
           /\ doc'[p].snap = doc[p].snap /\ doc'[p].cache = doc[p].cache
           /\ doc'[p].identity \in {0, doc[p].identity}
           /\ doc[p].open /\ doc[p].gen = doc[d].gen => doc'[p].identity = 0
  <2>1. CASE doc' = told BY <1>5, <1>6, <2>1
  <2>2. CASE doc' = [told EXCEPT ![d].bad = FALSE, ![d].touch = FALSE]
    <3> DEFINE r == [told[d] EXCEPT !.bad = FALSE, !.touch = FALSE]
    <3>1. told[d] \in DocRecords BY <1>6
    <3>2. /\ r \in DocRecords /\ r.open = told[d].open /\ r.gen = told[d].gen
          /\ r.persistent = told[d].persistent /\ r.claimed = told[d].claimed
          /\ r.snap = told[d].snap /\ r.cache = told[d].cache /\ r.identity = told[d].identity
      BY <3>1 DEF DocRecords
    <3>3. doc' = [told EXCEPT ![d] = r] BY <1>6, <2>2
    <3> HIDE DEF r
    <3>4. doc' \in [Docs -> DocRecords] /\ doc'[d] = r /\ \A p \in Docs : p # d => doc'[p] = told[p]
      BY <1>6, <3>2, <3>3
    <3>5. ASSUME NEW p \in Docs
          PROVE  /\ doc'[p].open = told[p].open /\ doc'[p].gen = told[p].gen
                 /\ doc'[p].persistent = told[p].persistent /\ doc'[p].claimed = told[p].claimed
                 /\ doc'[p].snap = told[p].snap /\ doc'[p].cache = told[p].cache
                 /\ doc'[p].identity = told[p].identity
      BY <3>2, <3>4
    <3> QED BY <1>5, <1>6, <3>4, <3>5
  <2> QED BY <1>3, <2>1, <2>2
<1>8. DocsInv' BY <1>1, <1>2, <1>7 DEF DocsInv
<1>9. Mark' = Mark /\ Text' = Text BY <1>2 DEF Mark, Text
<1>10. \A p \in Docs : valid(p)' => valid(p) BY <1>2, <1>7 DEF valid, InSession
<1>11. Card => KeptInv'
  <2> SUFFICES ASSUME Card PROVE KeptInv' OBVIOUS
  <2>1. job.pc # "complete" BY <1>2, FreeIs
  <2> QED BY <1>1, <1>7, <1>9, <1>10, <2>1, KeptStays
<1>12. job.pc \notin Writing /\ binOp.pc = "idle" /\ binOp.ok = FALSE
       /\ metaOp.pc = "idle" /\ metaOp.ok = FALSE
  BY <1>1, <1>2, FreeIs, WhenFree
<1>13. CASE /\ valid(d) /\ Meta!StartReplace(Incomplete) /\ Enter("invalidate", d)
            /\ UNCHANGED reuse_disabled
  <2>1. job' \in [pc : JobSteps, doc : Docs \cup {NoDoc}] /\ job'.pc = "invalidate" /\ job'.doc = d
    BY <1>13, Holder DEF JobSteps
  <2>2. /\ metaOp' \in Meta!Ops /\ metaOp'.pc = "begin" /\ metaOp'.content = Incomplete
        /\ metaOp'.ok = FALSE /\ Replacing(meta', metaOp', 0 .. MaxDep)
    BY <1>4, <1>13, MetaBegins DEF Incomplete
  <2>3. TypeOK'
    <3>1. condemned' \in Findings BY <1>2 DEF Findings
    <3> QED BY <1>1, <1>2, <1>7, <1>13, <2>1, <2>2, <3>1 DEF TypeOK
  <2>4. FilesInv' BY <1>2, <1>12, <2>2 DEF FilesInv, Replacing
  <2>5. LockInv'
    <3>1. worker' = d /\ doc'[d].open BY <1>2, <1>7, <1>13 DEF valid
    <3> QED BY <1>2, <1>12, <2>1, <2>2, <3>1 DEF LockInv, Writing, Keeping
  <2>6. OrderInv'
    <3>1. \A p \in Docs : valid(p)' => doc'[p].identity = 0
      BY <1>7, <1>10, <1>13 DEF valid, InSession
    <3> QED BY <2>1, <2>2, <3>1 DEF OrderInv, Sweeping
  <2>7. CondemnedInv' BY <1>1, <1>2, <1>9, <2>1 DEF CondemnedInv
  <2> QED BY <1>8, <1>11, <2>3, <2>4, <2>5, <2>6, <2>7 DEF IInv, BaseInv
<1>14. CASE reuse_disabled' = TRUE /\ UNCHANGED <<metaOp, job>>
  <2>1. TypeOK'
    <3>1. condemned' \in Findings /\ reuse_disabled' \in BOOLEAN BY <1>2, <1>14 DEF Findings
    <3> QED BY <1>1, <1>2, <1>7, <1>14, <3>1 DEF TypeOK
  <2>2. FilesInv' /\ LockInv' /\ OrderInv' BY <1>2, <1>12, <1>14, Unlocked DEF LockFree
  <2>3. CondemnedInv' BY <1>1, <1>2, <1>9, <1>14, FreeIs DEF CondemnedInv
  <2> QED BY <1>8, <1>11, <2>1, <2>2, <2>3 DEF IInv, BaseInv
<1> QED BY <1>3, <1>13, <1>14

\* A cache has been condemned.
LEMMA InvalidatedKeeps ==
  ASSUME IInv, Invalidated
  PROVE  IInv'
<1>1. TypeOK /\ FilesInv /\ LockInv /\ OrderInv /\ DocsInv /\ CondemnedInv /\ (Card => KeptInv)
  BY DEF IInv, BaseInv
<1> DEFINE d == job.doc
           r == [doc[d] EXCEPT !.bad = FALSE, !.touch = FALSE]
<1>2. /\ job.pc = "invalidate" /\ metaOp.pc = "end" /\ metaOp' = Meta!Idle /\ job' = Free
      /\ reuse_disabled' = (reuse_disabled \/ ~metaOp.ok \/ ~valid(d)) /\ Set(d, r)
      /\ condemned' = IF metaOp.ok THEN "marked" ELSE condemned
      /\ UNCHANGED <<meta, bin, binOp, dep, available, session, worker>>
  BY DEF Invalidated
<1>3. d \in Docs /\ worker = d /\ doc[d].open /\ binOp.pc = "idle"
  BY <1>1, <1>2 DEF LockInv, Writing, Keeping
<1>4. doc[d] \in DocRecords /\ binOp.ok \in BOOLEAN BY <1>1, <1>3 DEF TypeOK, Bin!Ops
<1>5. /\ r \in DocRecords /\ r.identity = doc[d].identity /\ r.open = doc[d].open
      /\ r.gen = doc[d].gen /\ r.snap = doc[d].snap /\ r.persistent = doc[d].persistent
      /\ r.claimed = doc[d].claimed /\ r.cache = doc[d].cache
  BY <1>4 DEF DocRecords
<1> HIDE DEF r
<1>6. metaOp' \in Meta!Ops /\ metaOp'.pc = "idle" /\ metaOp'.ok = FALSE BY <1>2, MetaIdles
<1>7. Mark' = Mark /\ Text' = Text BY <1>2 DEF Mark, Text
<1>8. /\ doc' \in [Docs -> DocRecords] /\ doc'[d] = r
      /\ \A p \in Docs : p # d => doc'[p] = doc[p]
  BY <1>1, <1>2, <1>3, <1>5, SetDoc DEF TypeOK
<1>9. job' \in [pc : JobSteps, doc : Docs \cup {NoDoc}] /\ job'.pc = "free" BY <1>2, NoHolder
<1>10. TypeOK'
  <2>1. reuse_disabled' \in BOOLEAN /\ condemned' \in Findings BY <1>1, <1>2 DEF TypeOK, Findings
  <2> QED BY <1>1, <1>2, <1>6, <1>8, <1>9, <2>1 DEF TypeOK
<1>11. binOp.ok = FALSE BY <1>1, <1>3, <1>4 DEF FilesInv, Replacing
<1>12. FilesInv' /\ LockInv' /\ OrderInv' BY <1>2, <1>3, <1>6, <1>9, <1>11, Unlocked
<1>13. DocsInv' BY <1>1, <1>2, <1>3, <1>5, DocsOne DEF DocsInv
<1>14. CondemnedInv'
  <2>1. metaOp.ok => Mark = Incomplete BY <1>1, <1>2 DEF FilesInv, OrderInv
  <2> QED BY <1>1, <1>2, <1>7, <1>9, <2>1, NoVersion DEF CondemnedInv
<1>15. Card => KeptInv'
  <2> SUFFICES ASSUME Card PROVE KeptInv' OBVIOUS
  <2>1. \A p \in Docs : valid(p)' => valid(p) BY <1>2, <1>5, <1>8 DEF valid, InSession
  <2> QED BY <1>1, <1>2, <1>5, <1>7, <1>8, <2>1, KeptStays
<1> QED BY <1>10, <1>12, <1>13, <1>14, <1>15 DEF IInv, BaseInv

\* The time of use begins to be kept.
LEMMA TouchBegins ==
  ASSUME IInv, NEW d \in Docs, TouchBegin(d)
  PROVE  IInv'
<1>1. TypeOK /\ FilesInv /\ LockInv /\ OrderInv /\ DocsInv /\ CondemnedInv /\ (Card => KeptInv)
  BY DEF IInv, BaseInv
<1> DEFINE r == [doc[d] EXCEPT !.touch = FALSE]
<1>2. /\ LockFree /\ worker = d /\ Set(d, r)
      /\ \/ /\ doc[d].identity # 0 /\ Mark = doc[d].identity
            /\ meta' = Meta!Recovered(meta) /\ Meta!StartReplace(doc[d].identity) /\ Enter("touch", d)
         \/ UNCHANGED <<meta, metaOp, job>>
      /\ UNCHANGED <<bin, binOp, dep, available, session, worker, reuse_disabled, condemned>>
  BY DEF TouchBegin, Mark
<1>3. doc[d] \in DocRecords /\ doc[d].open BY <1>1, <1>2 DEF TypeOK, DocsInv
<1>4. /\ r \in DocRecords /\ r.identity = doc[d].identity /\ r.open = doc[d].open
      /\ r.gen = doc[d].gen /\ r.snap = doc[d].snap /\ r.persistent = doc[d].persistent
      /\ r.claimed = doc[d].claimed /\ r.cache = doc[d].cache
  BY <1>3 DEF DocRecords
<1> HIDE DEF r
<1>5. /\ doc' \in [Docs -> DocRecords] /\ doc'[d] = r
      /\ \A p \in Docs : p # d => doc'[p] = doc[p]
  BY <1>1, <1>2, <1>4, SetDoc DEF TypeOK
<1>6. meta' \in Meta!Files /\ Mark' = Mark /\ Text' = Text
  BY <1>1, <1>2, MetaRecovered DEF TypeOK, Mark, Text
<1>7. /\ job.pc \notin Writing /\ binOp.pc = "idle" /\ binOp.ok = FALSE
      /\ metaOp.pc = "idle" /\ metaOp.ok = FALSE /\ job.pc \notin {"invalidate", "complete"}
  BY <1>1, <1>2, FreeIs, WhenFree
<1>8. DocsInv' BY <1>1, <1>2, <1>3, <1>4, DocsOne DEF DocsInv
<1>9. CondemnedInv'
  <2>1. job' = job \/ job' = [pc |-> "touch", doc |-> d] BY <1>2 DEF Enter
  <2>2. job'.pc \notin {"invalidate", "complete"} BY <1>7, <2>1
  <2> QED BY <1>1, <1>2, <1>6, <1>7, <2>2, CondemnedWaits
<1>10. Card => KeptInv'
  <2> SUFFICES ASSUME Card PROVE KeptInv' OBVIOUS
  <2>1. \A p \in Docs : valid(p)' => valid(p) BY <1>2, <1>4, <1>5 DEF valid, InSession
  <2> QED BY <1>1, <1>4, <1>5, <1>6, <1>7, <2>1, KeptStays
<1>11. CASE /\ doc[d].identity # 0 /\ Mark = doc[d].identity
            /\ Meta!StartReplace(doc[d].identity) /\ Enter("touch", d)
  <2>1. job' \in [pc : JobSteps, doc : Docs \cup {NoDoc}] /\ job'.pc = "touch" /\ job'.doc = d
    BY <1>11, Holder DEF JobSteps
  <2>2. /\ metaOp' \in Meta!Ops /\ metaOp'.pc = "begin" /\ metaOp'.content = doc[d].identity
        /\ metaOp'.ok = FALSE /\ Replacing(meta', metaOp', 0 .. MaxDep)
    BY <1>3, <1>11, Fields, MetaBegins
  <2>3. TypeOK' BY <1>1, <1>2, <1>5, <1>6, <2>1, <2>2 DEF TypeOK
  <2>4. FilesInv' BY <1>2, <1>7, <2>2 DEF FilesInv, Replacing
  <2>5. LockInv'
    <3>1. worker' = d /\ doc'[d].open BY <1>2, <1>3, <1>4, <1>5
    <3> QED BY <1>2, <1>7, <2>1, <2>2, <3>1 DEF LockInv, Writing, Keeping
  <2>6. OrderInv' BY <1>6, <1>11, <2>1, <2>2 DEF OrderInv, Sweeping
  <2> QED BY <1>8, <1>9, <1>10, <2>3, <2>4, <2>5, <2>6 DEF IInv, BaseInv
<1>12. CASE UNCHANGED <<meta, metaOp, job>>
  <2>1. TypeOK' BY <1>1, <1>2, <1>5, <1>12 DEF TypeOK
  <2>2. FilesInv' /\ LockInv' /\ OrderInv' BY <1>2, <1>7, <1>12, Unlocked DEF LockFree
  <2> QED BY <1>8, <1>9, <1>10, <2>1, <2>2 DEF IInv, BaseInv
<1> QED BY <1>2, <1>11, <1>12

\* The time of use has been kept.
LEMMA TouchedKeeps ==
  ASSUME IInv, Touched
  PROVE  IInv'
<1>1. TypeOK /\ FilesInv /\ LockInv /\ OrderInv /\ DocsInv /\ CondemnedInv /\ (Card => KeptInv)
  BY DEF IInv, BaseInv
<1>2. /\ job.pc = "touch" /\ metaOp' = Meta!Idle /\ job' = Free
      /\ UNCHANGED <<meta, bin, binOp, dep, available, session, doc, worker, reuse_disabled, condemned>>
  BY DEF Touched
<1>3. metaOp' \in Meta!Ops /\ metaOp'.pc = "idle" /\ metaOp'.ok = FALSE BY <1>2, MetaIdles
<1>4. job' \in [pc : JobSteps, doc : Docs \cup {NoDoc}] /\ job'.pc = "free" BY <1>2, NoHolder
<1>5. TypeOK' BY <1>1, <1>2, <1>3, <1>4 DEF TypeOK
<1>6. binOp.pc = "idle" /\ binOp.ok = FALSE
  <2>1. binOp.ok \in BOOLEAN BY <1>1 DEF TypeOK, Bin!Ops
  <2>2. binOp.pc = "idle" BY <1>1, <1>2 DEF LockInv
  <2> QED BY <1>1, <2>1, <2>2 DEF FilesInv, Replacing
<1>7. FilesInv' /\ LockInv' /\ OrderInv' BY <1>2, <1>3, <1>4, <1>6, Unlocked
<1>8. Mark' = Mark /\ Text' = Text BY <1>2 DEF Mark, Text
<1>9. DocsInv' BY <1>1, <1>2 DEF DocsInv
<1>10. CondemnedInv' BY <1>1, <1>2, <1>4, <1>8, CondemnedWaits
<1>11. Card => KeptInv'
  <2> SUFFICES ASSUME Card PROVE KeptInv' OBVIOUS
  <2>1. \A p \in Docs : valid(p)' => valid(p) BY <1>2 DEF valid, InSession
  <2>2. \A p \in Docs : doc'[p] = doc[p] BY <1>2
  <2> QED BY <1>1, <1>2, <1>8, <2>1, <2>2, KeptStays
<1> QED BY <1>5, <1>7, <1>9, <1>10, <1>11 DEF IInv, BaseInv

-----------------------------------------------------------------------------
(* The files of a base that nobody has open go. *)

\* Room is to be made.
LEMMA ReclaimBegins ==
  ASSUME IInv, ReclaimBegin
  PROVE  IInv'
<1>1. TypeOK /\ FilesInv /\ LockInv /\ OrderInv /\ DocsInv /\ CondemnedInv /\ (Card => KeptInv)
  BY DEF IInv, BaseInv
<1>2. /\ LockFree /\ meta' = Meta!Recovered(meta) /\ Enter("meta.old", NoDoc)
      /\ \A d \in Docs : ~valid(d)
      /\ UNCHANGED <<metaOp, bin, binOp, dep, available, session, doc, worker, reuse_disabled, condemned>>
  BY Names DEF ReclaimBegin
<1>3. job' \in [pc : JobSteps, doc : Docs \cup {NoDoc}] /\ job'.pc = "meta.old"
  BY <1>2, Holder, Steps DEF Sweeping
<1>4. meta' \in Meta!Files /\ Mark' = Mark /\ Text' = Text
  BY <1>1, <1>2, MetaRecovered DEF TypeOK, Mark, Text
<1>5. TypeOK' BY <1>1, <1>2, <1>3, <1>4 DEF TypeOK
<1>6. /\ binOp.pc = "idle" /\ binOp.ok = FALSE /\ metaOp.pc = "idle" /\ metaOp.ok = FALSE
      /\ job.pc \notin {"invalidate", "complete"}
  BY <1>1, <1>2, FreeIs, WhenFree
<1>7. FilesInv' BY <1>2, <1>6 DEF FilesInv, Replacing
<1>8. LockInv' BY <1>2, <1>3, <1>6 DEF LockInv, Writing, Keeping
<1>9. \A d \in Docs : ~valid(d)' BY <1>2 DEF valid, InSession
<1>10. OrderInv' BY <1>3, <1>9 DEF OrderInv
<1>11. DocsInv' BY <1>1, <1>2 DEF DocsInv
<1>12. CondemnedInv' BY <1>1, <1>2, <1>3, <1>4, <1>6, CondemnedWaits
<1>13. Card => KeptInv'
  <2> SUFFICES ASSUME Card PROVE KeptInv' OBVIOUS
  <2> QED BY <1>1, <1>4, <1>6, <1>9, KeptStays
<1> QED BY <1>5, <1>7, <1>8, <1>10, <1>11, <1>12, <1>13 DEF IInv, BaseInv

\* What one unlink does to what a reader would get, and what it leaves behind.
LEMMA OneGoes ==
  ASSUME TypeOK, OrderInv, NEW i \in 1 .. 6, ReclaimOne(i)
  PROVE  /\ meta' \in Meta!Files /\ bin' \in Bin!Files
         /\ job.pc \in Sweeping
         /\ job' \in [pc : JobSteps, doc : Docs \cup {NoDoc}]
         /\ job'.pc \in Sweeping \cup {"free"}
         /\ Mark' \in {Mark, None}
         /\ Text' = Text \/ Mark' = None
         /\ job'.pc \in {"meta.tmp", "meta"} => meta'.old = None
         /\ job'.pc \in {"bin", "bin.old", "bin.tmp"} => Mark' = None
<1>1. meta \in Meta!Files /\ bin \in Bin!Files BY DEF TypeOK
<1>2. job.pc = Suffixes[i] BY DEF ReclaimOne
<1>3. i = 1 \/ i = 2 \/ i = 3 \/ i = 4 \/ i = 5 \/ i = 6 OBVIOUS
<1>4. CASE job' = Free /\ UNCHANGED <<meta, bin>>
  <2>1. Mark' = Mark /\ Text' = Text BY <1>4 DEF Mark, Text
  <2>2. job.pc \in Sweeping BY <1>2, <1>3, Names DEF Sweeping
  <2> QED BY <1>1, <1>4, <2>1, <2>2, NoHolder
<1>5. CASE /\ meta' = CASE job.pc = "meta.old" -> [meta EXCEPT !.old = None]
                        [] job.pc = "meta.tmp" -> [meta EXCEPT !.tmp = None]
                        [] job.pc = "meta"     -> [meta EXCEPT !.path = None]
                        [] OTHER -> meta
           /\ bin' = CASE job.pc = "bin"     -> [bin EXCEPT !.path = None]
                       [] job.pc = "bin.old" -> [bin EXCEPT !.old = None]
                       [] job.pc = "bin.tmp" -> [bin EXCEPT !.tmp = None]
                       [] OTHER -> bin
           /\ IF i = 6 THEN job' = Free ELSE Enter(Suffixes[i + 1], NoDoc)
  <2>1. CASE i = 1
    <3>1. job.pc = "meta.old" /\ Enter("meta.tmp", NoDoc) BY <1>2, <1>5, <2>1, Names
    <3>2. meta' = [meta EXCEPT !.old = None] /\ bin' = bin BY <1>5, <3>1
    <3>3. meta' \in Meta!Files /\ meta'.path = meta.path /\ meta'.old = None
      BY <1>1, <3>2 DEF Meta!Files
    <3>4. Text' = Text BY <3>2 DEF Text
    <3>5. Mark' \in {Mark, None} BY <1>1, <3>3, MetaEffective DEF Mark
    <3>6. job' \in [pc : JobSteps, doc : Docs \cup {NoDoc}] /\ job'.pc = "meta.tmp"
      BY <3>1, Holder, Steps DEF Sweeping
    <3> QED BY <1>1, <3>1, <3>2, <3>3, <3>4, <3>5, <3>6 DEF Sweeping
  <2>2. CASE i = 2
    <3>1. job.pc = "meta.tmp" /\ Enter("meta", NoDoc) BY <1>2, <1>5, <2>2, Names
    <3>2. meta' = [meta EXCEPT !.tmp = None] /\ bin' = bin BY <1>5, <3>1
    <3>3. meta.old = None BY <3>1 DEF OrderInv
    <3>4. meta' \in Meta!Files /\ meta'.path = meta.path /\ meta'.old = None
      BY <1>1, <3>2, <3>3 DEF Meta!Files
    <3>5. Text' = Text BY <3>2 DEF Text
    <3>6. Mark' = Mark BY <1>1, <3>3, <3>4, MetaEffective DEF Mark
    <3>7. job' \in [pc : JobSteps, doc : Docs \cup {NoDoc}] /\ job'.pc = "meta"
      BY <3>1, Holder, Steps DEF Sweeping
    <3> QED BY <1>1, <3>1, <3>2, <3>4, <3>5, <3>6, <3>7 DEF Sweeping
  <2>3. CASE i = 3
    <3>1. job.pc = "meta" /\ Enter("bin", NoDoc) BY <1>2, <1>5, <2>3, Names
    <3>2. meta' = [meta EXCEPT !.path = None] /\ bin' = bin BY <1>5, <3>1
    <3>3. meta.old = None BY <3>1 DEF OrderInv
    <3>4. meta' \in Meta!Files /\ meta'.path = None /\ meta'.old = None
      BY <1>1, <3>2, <3>3 DEF Meta!Files
    <3>5. Text' = Text BY <3>2 DEF Text
    <3>6. Mark' = None BY <3>4, MetaEffective DEF Mark
    <3>7. job' \in [pc : JobSteps, doc : Docs \cup {NoDoc}] /\ job'.pc = "bin"
      BY <3>1, Holder, Steps DEF Sweeping
    <3> QED BY <1>1, <3>1, <3>2, <3>4, <3>5, <3>6, <3>7 DEF Sweeping
  <2>4. CASE i \in {4, 5, 6}
    <3>1. job.pc \in {"bin", "bin.old", "bin.tmp"} BY <1>2, <2>4, Names
    <3>2. /\ job' = Free \/ Enter("bin.old", NoDoc) \/ Enter("bin.tmp", NoDoc)
      BY <1>5, <2>4, Names
    <3>3. meta' = meta BY <1>5, <3>1
    <3>4. Mark' = None BY <3>1, <3>3 DEF OrderInv, Mark
    <3>5. bin' \in Bin!Files BY <1>1, <1>5, <3>1 DEF Bin!Files
    <3>6. job' \in [pc : JobSteps, doc : Docs \cup {NoDoc}] /\ job'.pc \in {"free", "bin.old", "bin.tmp"}
      BY <3>2, Holder, NoHolder, Steps DEF Sweeping
    <3> QED BY <1>1, <3>1, <3>3, <3>4, <3>5, <3>6 DEF Sweeping
  <2> QED BY <1>3, <2>1, <2>2, <2>3, <2>4
<1> QED BY <1>4, <1>5 DEF ReclaimOne

\* One file of a cache is removed to make room.
LEMMA ReclaimKeeps ==
  ASSUME IInv, NEW i \in 1 .. 6, ReclaimOne(i)
  PROVE  IInv'
<1>1. TypeOK /\ FilesInv /\ LockInv /\ OrderInv /\ DocsInv /\ CondemnedInv /\ (Card => KeptInv)
  BY DEF IInv, BaseInv
<1>2. UNCHANGED <<metaOp, binOp, dep, available, session, doc, worker, reuse_disabled, condemned>>
  BY DEF ReclaimOne
<1>3. /\ meta' \in Meta!Files /\ bin' \in Bin!Files
      /\ job.pc \in Sweeping
      /\ job' \in [pc : JobSteps, doc : Docs \cup {NoDoc}]
      /\ job'.pc \in Sweeping \cup {"free"}
      /\ Mark' \in {Mark, None}
      /\ Text' = Text \/ Mark' = None
      /\ job'.pc \in {"meta.tmp", "meta"} => meta'.old = None
      /\ job'.pc \in {"bin", "bin.old", "bin.tmp"} => Mark' = None
  BY <1>1, OneGoes
<1>4. job.pc \notin Writing /\ job.pc \notin {"invalidate", "complete"}
  BY <1>3 DEF Sweeping, Writing, Keeping
<1>5. /\ binOp.pc = "idle" /\ binOp.ok = FALSE /\ metaOp.pc = "idle" /\ metaOp.ok = FALSE
  BY <1>1, <1>4, WhenFree
<1>6. TypeOK' BY <1>1, <1>2, <1>3 DEF TypeOK
<1>7. FilesInv' BY <1>2, <1>5 DEF FilesInv, Replacing
<1>8. LockInv' BY <1>2, <1>3, <1>5 DEF LockInv, Writing, Keeping, Sweeping
<1>9. \A d \in Docs : ~valid(d) /\ ~valid(d)' BY <1>1, <1>2, <1>3 DEF OrderInv, valid, InSession
<1>10. OrderInv'
  <2>1. job'.pc \notin {"prepare", "binary", "complete", "invalidate", "touch"} BY <1>3 DEF Sweeping
  <2> QED BY <1>3, <1>9, <2>1 DEF OrderInv
<1>11. DocsInv' BY <1>1, <1>2 DEF DocsInv
<1>12. CondemnedInv' BY <1>1, <1>2, <1>3, <1>4, CondemnedWaits DEF Sweeping
<1>13. Card => KeptInv'
  <2> SUFFICES ASSUME Card PROVE KeptInv' OBVIOUS
  <2>1. CompleteMeansKept' BY <1>1, <1>3, NoVersion DEF KeptInv, CompleteMeansKept, Mark, Text
  <2> QED BY <1>9, <2>1 DEF KeptInv
<1> QED BY <1>6, <1>7, <1>8, <1>10, <1>11, <1>12, <1>13 DEF IInv, BaseInv

-----------------------------------------------------------------------------
(* The world. *)

\* What the text was made from changes, or the card is removed.
LEMMA ChangeKeeps ==
  ASSUME IInv, DependencyChanges \/ RemoveCard
  PROVE  IInv'
<1>1. TypeOK /\ FilesInv /\ LockInv /\ DocsInv /\ CondemnedInv BY DEF IInv, BaseInv
<1>2. /\ UNCHANGED <<fileVars, session, doc, worker, job, reuse_disabled, condemned>>
      /\ dep' \in Versions /\ available' \in BOOLEAN /\ (available' => available)
  <2>1. CASE DependencyChanges
    <3>1. dep \in Versions /\ dep < MaxDep /\ dep' = dep + 1 BY <1>1, <2>1 DEF DependencyChanges, TypeOK
    <3>2. dep' \in Versions BY <3>1, CacheAssumption DEF CacheAssumption, Versions
    <3> QED BY <1>1, <2>1, <3>2 DEF DependencyChanges, TypeOK
  <2>2. CASE RemoveCard BY <1>1, <2>2 DEF RemoveCard, TypeOK
  <2> QED BY <2>1, <2>2
<1>3. Mark' = Mark BY <1>1, <1>2, FilesStand
<1>4. DocsInv' BY <1>1, <1>2 DEF DocsInv
<1>5. CondemnedInv' BY <1>1, <1>2, <1>3, CondemnedStays DEF fileVars
<1>6. doc' \in [Docs -> DocRecords] /\ worker' \in Docs \cup {NoDoc} BY <1>1, <1>2 DEF TypeOK
<1>7. reuse_disabled' \in BOOLEAN /\ condemned' \in Findings BY <1>1, <1>2 DEF TypeOK
<1>8. job.pc \in Writing =>
           worker' = worker /\ doc'[job.doc].open /\ doc'[job.doc].snap = doc[job.doc].snap
  BY <1>1, <1>2 DEF LockInv
<1>9. \A p \in Docs :
           /\ doc'[p].open => doc[p].open /\ doc'[p].gen = doc[p].gen
           /\ doc'[p].persistent <=> doc[p].persistent /\ doc'[p].open
           /\ doc'[p].identity \in {0, doc[p].identity}
           /\ doc'[p].cache = "bin" => doc[p].cache = "bin"
  BY <1>1, <1>2 DEF DocsInv
<1> QED BY <1>2, <1>4, <1>5, <1>6, <1>7, <1>8, <1>9, DocsStep

\* The medium damages a text.
LEMMA DamageKeeps ==
  ASSUME IInv, Damage
  PROVE  IInv'
<1>1. TypeOK /\ FilesInv /\ LockInv /\ OrderInv /\ DocsInv /\ CondemnedInv /\ (Card => KeptInv)
  BY DEF IInv, BaseInv
<1>2. /\ LockFree /\ bin' = [bin EXCEPT !.path = Bad]
      /\ UNCHANGED <<meta, metaOp, binOp, dep, available, session, doc, worker, job, reuse_disabled, condemned>>
  BY DEF Damage
<1>3. bin' \in Bin!Files /\ bin'.path = Bad BY <1>1, <1>2 DEF TypeOK, Bin!Files
<1>4. Text' = Bad BY <1>3, BinEffective, CacheAssumption DEF Text, CacheAssumption
<1>5. Mark' = Mark BY <1>2 DEF Mark
<1>6. TypeOK' BY <1>1, <1>2, <1>3 DEF TypeOK
<1>7. FilesInv' /\ LockInv' /\ OrderInv'
  BY <1>1, <1>2, FreeIs, WhenFree, Unlocked DEF LockFree
<1>8. DocsInv' BY <1>1, <1>2 DEF DocsInv
<1>9. CondemnedInv' BY <1>1, <1>2, <1>5, CondemnedStays
<1>10. Card => KeptInv'
  <2> SUFFICES ASSUME Card PROVE KeptInv' OBVIOUS
  <2>1. \A p \in Docs : valid(p)' => valid(p) BY <1>2 DEF valid, InSession
  <2>2. \A p \in Docs : doc'[p] = doc[p] BY <1>2
  <2>3. job' = job BY <1>2
  <2> QED BY <1>1, <1>4, <1>5, <2>1, <2>2, <2>3, KeptStays
<1> QED BY <1>6, <1>7, <1>8, <1>9, <1>10 DEF IInv, BaseInv

\* The card is inserted.
LEMMA InsertKeeps ==
  ASSUME IInv, InsertCard
  PROVE  IInv'
<1>1. TypeOK /\ FilesInv /\ LockInv /\ OrderInv /\ DocsInv /\ CondemnedInv /\ (Card => KeptInv)
  BY DEF IInv, BaseInv
<1>2. /\ LockFree /\ session < MaxSession /\ available' = TRUE /\ session' = session + 1
      /\ UNCHANGED <<fileVars, dep, doc, worker, job, reuse_disabled, condemned>>
  BY DEF InsertCard
<1>3. session \in Nat /\ session' \in 1 .. MaxSession
  <2>1. session \in 1 .. MaxSession /\ MaxSession \in Nat
    BY <1>1, CacheAssumption DEF TypeOK, CacheAssumption
  <2> QED BY <1>2, <2>1
<1>4. Mark' = Mark /\ Text' = Text BY <1>1, <1>2, FilesStand
<1>5. TypeOK' BY <1>1, <1>2, <1>3 DEF TypeOK, fileVars
<1>6. FilesInv' /\ LockInv' /\ OrderInv'
  BY <1>1, <1>2, FreeIs, WhenFree, Unlocked DEF LockFree, fileVars
<1>7. ASSUME NEW p \in Docs PROVE doc[p].gen \in Nat
  <2>1. doc[p].gen \in 0 .. MaxSession BY <1>1, Fields DEF TypeOK
  <2> QED BY <2>1
<1>8. DocsInv' BY <1>1, <1>2, <1>3, <1>7 DEF DocsInv
<1>9. CondemnedInv' BY <1>1, <1>2, <1>4, CondemnedStays DEF fileVars
<1>10. Card => KeptInv'
  <2> SUFFICES ASSUME Card PROVE KeptInv' OBVIOUS
  <2>1. \A p \in Docs : ~valid(p)' BY <1>1, <1>2, <1>3, <1>7 DEF DocsInv, valid, InSession
  <2>2. job' = job BY <1>2
  <2> QED BY <1>1, <1>4, <2>1, <2>2, KeptStays
<1> QED BY <1>5, <1>6, <1>8, <1>9, <1>10 DEF IInv, BaseInv

\* The power fails.
LEMMA PowerKeeps ==
  ASSUME IInv, PowerFailure
  PROVE  IInv'
<1>1. TypeOK /\ (Card => KeptInv) BY DEF IInv, BaseInv
<1>2. /\ session < MaxSession /\ available' = TRUE /\ session' = session + 1
      /\ meta' = [meta EXCEPT !.tmp = None] /\ metaOp' = Meta!Idle
      /\ bin' = [bin EXCEPT !.tmp = None] /\ binOp' = Bin!Idle
      /\ doc' = [d \in Docs |-> Closed] /\ worker' = NoDoc /\ job' = Free
      /\ reuse_disabled' = FALSE /\ dep' = dep
      /\ condemned' = IF condemned = "marked" THEN "marked" ELSE "no"
  BY DEF PowerFailure, Meta!AfterPowerFailure, Bin!AfterPowerFailure
<1>3. session' \in 1 .. MaxSession
  <2>1. session \in 1 .. MaxSession /\ MaxSession \in Nat
    BY <1>1, CacheAssumption DEF TypeOK, CacheAssumption
  <2> QED BY <1>2, <2>1
<1>4. meta \in Meta!Files /\ bin \in Bin!Files BY <1>1 DEF TypeOK
<1>5. meta' \in Meta!Files /\ meta'.path = meta.path /\ meta'.old = meta.old
  BY <1>2, <1>4 DEF Meta!Files
<1>6. bin' \in Bin!Files /\ bin'.path = bin.path /\ bin'.old = bin.old
  BY <1>2, <1>4 DEF Bin!Files
<1>7. Mark' = Mark BY <1>4, <1>5, MetaEffective DEF Mark
<1>8. Text' = Text BY <1>4, <1>6, BinEffective DEF Text
<1>9. /\ metaOp' \in Meta!Ops /\ metaOp'.pc = "idle" /\ metaOp'.ok = FALSE
      /\ binOp' \in Bin!Ops /\ binOp'.pc = "idle" /\ binOp'.ok = FALSE
  BY <1>2, MetaIdles, BinIdles
<1>10. job' \in [pc : JobSteps, doc : Docs \cup {NoDoc}] /\ job'.pc = "free" BY <1>2, NoHolder
<1>11. doc' \in [Docs -> DocRecords] /\ \A p \in Docs : doc'[p] = Closed BY <1>2, ClosedIs
<1>12. TypeOK'
  <2>1. available' \in BOOLEAN /\ reuse_disabled' \in BOOLEAN /\ condemned' \in Findings BY <1>2 DEF Findings
  <2> QED BY <1>1, <1>2, <1>3, <1>5, <1>6, <1>9, <1>10, <1>11, <2>1 DEF TypeOK
<1>13. FilesInv' /\ LockInv' /\ OrderInv' BY <1>9, <1>10, Unlocked
<1>14. DocsInv'
  <2>1. NoDoc \notin Docs BY CacheAssumption DEF CacheAssumption
  <2> QED BY <1>2, <1>11, <2>1, ClosedIs DEF DocsInv
<1>15. CondemnedInv'
  <2>1. CondemnedInv BY DEF IInv
  <2> QED BY <1>2, <1>7, <1>10, <2>1 DEF CondemnedInv
<1>16. Card => KeptInv'
  <2> SUFFICES ASSUME Card PROVE KeptInv' OBVIOUS
  <2>1. \A p \in Docs : ~valid(p)' BY <1>11, ClosedIs DEF valid
  <2>2. CompleteMeansKept' BY <1>1, <1>7, <1>8 DEF KeptInv, CompleteMeansKept, Mark, Text
  <2> QED BY <2>1, <2>2 DEF KeptInv
<1> QED BY <1>12, <1>13, <1>14, <1>15, <1>16 DEF IInv, BaseInv

-----------------------------------------------------------------------------
(* All steps. *)

\* The invariant holds at first.
LEMMA Initially == Init => IInv
<1> SUFFICES ASSUME Init PROVE IInv OBVIOUS
<1>1. /\ meta = Meta!NoFile /\ metaOp = Meta!Idle /\ bin = Bin!NoFile /\ binOp = Bin!Idle
      /\ dep = 1 /\ available = TRUE /\ session = 1 /\ doc = [d \in Docs |-> Closed]
      /\ worker = NoDoc /\ job = Free /\ reuse_disabled = FALSE /\ condemned = "no"
  BY DEF Init
<1>2. /\ meta \in Meta!Files /\ meta.path = None /\ meta.old = None
      /\ metaOp \in Meta!Ops /\ metaOp.pc = "idle" /\ metaOp.ok = FALSE
  BY <1>1 DEF Meta!NoFile, Meta!Files, Meta!Idle, Meta!Ops, Meta!Steps
<1>3. /\ bin \in Bin!Files
      /\ binOp \in Bin!Ops /\ binOp.pc = "idle" /\ binOp.ok = FALSE
  BY <1>1 DEF Bin!NoFile, Bin!Files, Bin!Idle, Bin!Ops, Bin!Steps
<1>4. job \in [pc : JobSteps, doc : Docs \cup {NoDoc}] /\ job.pc = "free"
  BY <1>1 DEF Free, JobSteps
<1>5. doc \in [Docs -> DocRecords] /\ \A p \in Docs : doc[p] = Closed BY <1>1, ClosedIs
<1>6. TypeOK
  <2>1. dep \in Versions /\ session \in 1 .. MaxSession
    BY <1>1, CacheAssumption DEF CacheAssumption, Versions
  <2>2. available \in BOOLEAN /\ reuse_disabled \in BOOLEAN /\ condemned \in Findings BY <1>1 DEF Findings
  <2> QED BY <1>1, <1>2, <1>3, <1>4, <1>5, <2>1, <2>2 DEF TypeOK
<1>7. FilesInv BY <1>2, <1>3 DEF FilesInv, Replacing
<1>8. LockInv BY <1>2, <1>3, <1>4 DEF LockInv, Writing, Keeping
<1>9. OrderInv BY <1>4 DEF OrderInv, Sweeping
<1>10. DocsInv
  <2>1. NoDoc \notin Docs BY CacheAssumption DEF CacheAssumption
  <2> QED BY <1>1, <1>5, <2>1, ClosedIs DEF DocsInv
<1>11. CondemnedInv BY <1>1, <1>4 DEF CondemnedInv
<1>12. KeptInv
  <2>1. Mark = None BY <1>2, MetaEffective DEF Mark
  <2>2. \A p \in Docs : ~valid(p) BY <1>5, ClosedIs DEF valid
  <2>3. CompleteMeansKept BY <2>1, NoVersion DEF CompleteMeansKept, Mark
  <2> QED BY <2>2, <2>3 DEF KeptInv
<1> QED BY <1>6, <1>7, <1>8, <1>9, <1>10, <1>11, <1>12 DEF IInv, BaseInv

\* A step of something else.
LEMMA StutterKeeps ==
  ASSUME IInv, UNCHANGED vars
  PROVE  IInv'
<1>1. UNCHANGED <<meta, metaOp, bin, binOp, dep, available, session, doc, worker, job,
                  reuse_disabled, condemned>>
  BY DEF vars
<1>2. Mark' = Mark /\ Text' = Text BY <1>1 DEF Mark, Text
<1>3. \A p \in Docs : valid(p)' <=> valid(p) BY <1>1 DEF valid, InSession
<1>4. TypeOK /\ FilesInv /\ LockInv /\ OrderInv /\ DocsInv /\ CondemnedInv /\ (Card => KeptInv)
  BY DEF IInv, BaseInv
<1>5. TypeOK' BY <1>1, <1>4 DEF TypeOK
<1>6. FilesInv' BY <1>1, <1>4, FilesStand DEF fileVars
<1>7. LockInv' BY <1>1, <1>3, <1>4 DEF LockInv
<1>8. OrderInv' BY <1>1, <1>2, <1>3, <1>4 DEF OrderInv, Taken
<1>9. DocsInv' BY <1>1, <1>4 DEF DocsInv
<1>10. CondemnedInv' BY <1>1, <1>2, <1>4, CondemnedStays
<1>11. Card => KeptInv'
  <2> SUFFICES ASSUME Card PROVE KeptInv' OBVIOUS
  <2>1. \A p \in Docs : doc'[p] = doc[p] BY <1>1
  <2>2. job' = job BY <1>1
  <2> QED BY <1>2, <1>3, <1>4, <2>1, <2>2, KeptStays
<1> QED BY <1>5, <1>6, <1>7, <1>8, <1>9, <1>10, <1>11 DEF IInv, BaseInv

\* Every step keeps the invariant.
LEMMA StepKeeps == IInv /\ [Next]_vars => IInv'
<1> SUFFICES ASSUME IInv, [Next]_vars PROVE IInv' OBVIOUS
<1>1. ASSUME NEW d \in Docs, Ui(d) PROVE IInv'
  BY <1>1, OpenKeeps, CloseKeeps, ReadFails, DisposeKeeps DEF Ui
<1>2. ASSUME NEW d \in Docs, WorkerStep(d) PROVE IInv'
  BY <1>2, TakeKeeps, ConvertBegins, ConvertKeeps, InvalidateBegins, TouchBegins, WorkerEnds
     DEF WorkerStep, convert
<1>3. CASE LockHeld
  BY <1>3, PreparedKeeps, BinaryKeptKeeps, CompletedKeeps, InvalidatedKeeps, TouchedKeeps DEF LockHeld
<1>4. CASE document_cache_reclaim BY <1>4, ReclaimBegins, ReclaimKeeps DEF document_cache_reclaim
<1>5. CASE MetaStep \/ BinStep BY <1>5, MetaStepKeeps, BinStepKeeps
<1>6. CASE World BY <1>6, ChangeKeeps, DamageKeeps, InsertKeeps, PowerKeeps DEF World
<1>7. CASE UNCHANGED vars BY <1>7, StutterKeeps
<1> QED BY <1>1, <1>2, <1>3, <1>4, <1>5, <1>6, <1>7 DEF Next

\* The invariant always holds.
LEMMA AlwaysIInv == Spec => []IInv
BY Initially, StepKeeps, PTL DEF Spec

-----------------------------------------------------------------------------
(* The theorems. *)

\* With the cache on the card, a mark that says "complete" stands beside the text it was written
\* for, or beside what the medium made of it: document_cache_prepare takes the mark away before
\* the text is replaced, document_cache_commit gives it back after, document_cache_reclaim deletes
\* the mark first, and no interruption brings back the wrong one.
THEOREM CompleteIsKept ==
  ASSUME Card
  PROVE  Spec => []CompleteMeansKept
<1>1. IInv => CompleteMeansKept BY DEF IInv, KeptInv
<1> QED BY <1>1, AlwaysIInv, PTL

\* With the cache on the card, the text that a valid document reads is the one it was opened or
\* kept with, for any number of documents of the same book.
THEOREM ReadersKeepTheirText ==
  ASSUME Card
  PROVE  Spec => []NeverReplacedUnderReader
<1>1. IInv => NeverReplacedUnderReader
  <2> SUFFICES ASSUME IInv PROVE NeverReplacedUnderReader OBVIOUS
  <2>1. TypeOK /\ KeptInv BY DEF IInv, BaseInv
  <2>2. ASSUME NEW d \in Docs, valid(d), doc[d].persistent, doc[d].identity # 0
        PROVE  Text \in {doc[d].identity, Bad}
    <3>1. doc[d].identity \in Versions
      <4>1. doc[d].identity \in 0 .. MaxDep BY <2>1, Fields DEF TypeOK
      <4> QED BY <2>2, <4>1 DEF Versions
    <3> QED BY <2>1, <2>2, <3>1 DEF KeptInv, CompleteMeansKept, Mark, Text
  <2> QED BY <2>1, <2>2 DEF NeverReplacedUnderReader, Text
<1> QED BY <1>1, AlwaysIInv, PTL

\* A document that is closed becomes a kept one only by being opened.
LEMMA OpenedKept ==
  ASSUME TypeOK, LockInv, DocsInv, [Next]_vars, NEW d \in Docs, ~doc[d].open, doc'[d].persistent
  PROVE  document_open(d)
<1>1. ~doc[d].persistent /\ worker # d BY DEF DocsInv
<1>2. doc'[d] # doc[d] BY <1>1
<1>3. ASSUME NEW e \in Docs, NEW r \in DocRecords, Set(e, r), doc[e].open PROVE FALSE
  BY <1>2, <1>3, SetDoc DEF TypeOK
<1>4. 0 \in 0 .. MaxDep /\ Closed \in DocRecords
  BY ClosedIs, CacheAssumption DEF CacheAssumption
<1>5. ASSUME NEW e \in Docs PROVE doc[e] \in DocRecords BY DEF TypeOK
<1>6. ASSUME NEW e \in Docs, Ui(e) PROVE document_open(d)
  <2>1. CASE document_open(e)
    <3>1. \E r : Set(e, r) BY <2>1 DEF document_open
    <3>2. e = d BY <1>2, <3>1 DEF Set, TypeOK
    <3> QED BY <2>1, <3>2
  <2>2. CASE document_close(e)
    <3>1. [doc[e] EXCEPT !.released = TRUE] \in DocRecords BY <1>5 DEF DocRecords
    <3> QED BY <1>3, <2>2, <3>1 DEF document_close
  <2>3. CASE cache_read_failed(e)
    <3>1. [doc[e] EXCEPT !.bad = TRUE, !.stopped = FALSE] \in DocRecords BY <1>5 DEF DocRecords
    <3> QED BY <1>3, <2>3, <3>1 DEF cache_read_failed
  <2>4. CASE Dispose(e) BY <1>3, <1>4, <2>4 DEF Dispose, Disposable
  <2> QED BY <1>6, <2>1, <2>2, <2>3, <2>4 DEF Ui
<1>7. ASSUME NEW e \in Docs, WorkerStep(e) PROVE FALSE
  <2>1. CASE WorkerTake(e) BY <1>2, <2>1 DEF WorkerTake
  <2>2. CASE ConvertBegin(e)
    <3>1. dep \in 0 .. MaxDep BY DEF TypeOK, Versions
    <3>2. [doc[e] EXCEPT !.claimed = TRUE, !.prepared = FALSE, !.snap = dep, !.cache = "tmp"] \in DocRecords
      BY <1>5, <3>1 DEF DocRecords
    <3> QED BY <1>3, <2>2, <3>2 DEF ConvertBegin, DocsInv
  <2>3. CASE ConvertKeep(e)
    <3>1. [doc[e] EXCEPT !.identity = 0] \in DocRecords BY <1>4, <1>5 DEF DocRecords
    <3> QED BY <1>3, <2>3, <3>1 DEF ConvertKeep, DocsInv
  <2>4. CASE InvalidateBegin(e)
    <3>1. worker = e /\ e # d BY <1>1, <2>4 DEF InvalidateBegin
    <3> DEFINE told == [p \in Docs |-> IF doc[p].open /\ doc[p].gen = doc[e].gen
                                       THEN [doc[p] EXCEPT !.invalid = TRUE, !.identity = 0]
                                       ELSE doc[p]]
    <3>2. told[d] = doc[d] OBVIOUS
    <3>3. doc' = told \/ doc' = [told EXCEPT ![e].bad = FALSE, ![e].touch = FALSE]
      BY <2>4 DEF InvalidateBegin
    <3> QED BY <1>2, <3>1, <3>2, <3>3
  <2>5. CASE TouchBegin(e)
    <3>1. [doc[e] EXCEPT !.touch = FALSE] \in DocRecords BY <1>5 DEF DocRecords
    <3> QED BY <1>3, <2>5, <3>1 DEF TouchBegin, DocsInv
  <2>6. CASE WorkerDone(e)
    <3>1. worker = e /\ e # d BY <1>1, <2>6 DEF WorkerDone
    <3>2. \E r : Set(e, r) BY <2>6 DEF WorkerDone
    <3> QED BY <1>2, <3>1, <3>2 DEF Set, TypeOK
  <2> QED BY <1>7, <2>1, <2>2, <2>3, <2>4, <2>5, <2>6 DEF WorkerStep, convert
<1>8. ASSUME LockHeld PROVE FALSE
  <2>1. job.pc \in Writing BY <1>8 DEF LockHeld, Prepared, BinaryKept, Completed, Invalidated, Touched, Writing, Keeping
  <2>2. job.doc \in Docs /\ job.doc # d BY <2>1 DEF LockInv
  <2>3. (\E r : Set(job.doc, r)) \/ doc' = doc
    BY <1>8 DEF LockHeld, Prepared, BinaryKept, Completed, Invalidated, Touched
  <2> QED BY <1>2, <2>2, <2>3 DEF Set, TypeOK
<1>9. ASSUME PowerFailure PROVE FALSE
  <2>1. doc'[d] = Closed BY <1>9 DEF PowerFailure
  <2> QED BY <2>1, ClosedIs
<1>10. ASSUME UNCHANGED doc PROVE FALSE BY <1>2, <1>10
<1>11. \/ \E e \in Docs : Ui(e) \/ WorkerStep(e)
       \/ LockHeld \/ PowerFailure \/ UNCHANGED doc
  BY DEF Next, document_cache_reclaim, ReclaimBegin, ReclaimOne, MetaStep, BinStep, World,
         DependencyChanges, Damage, RemoveCard, InsertCard, vars
<1> QED BY <1>6, <1>7, <1>8, <1>9, <1>10, <1>11

\* What a reader found stays with its document until the worker has taken it up.
LEMMA FindingTakenUp ==
  ASSUME IInv, [Next]_vars, NEW d \in Docs, doc[d].open, doc[d].bad, ~doc'[d].bad
  PROVE  condemned' # "no" \/ session' # session
<1>1. TypeOK /\ LockInv /\ CondemnedInv BY DEF IInv, BaseInv
<1>2. doc[d] \in DocRecords /\ doc \in [Docs -> DocRecords] BY <1>1 DEF TypeOK
<1>3. ASSUME NEW e \in Docs, NEW r, Set(e, r), e = d => r.bad
      PROVE  FALSE
  BY <1>2, <1>3 DEF Set
<1>4. ASSUME NEW e \in Docs, Ui(e) PROVE FALSE
  <2>1. CASE document_open(e) BY <1>2, <1>3, <2>1 DEF document_open, Set
  <2>2. CASE document_close(e) BY <1>2, <1>3, <2>2 DEF document_close, DocRecords, Set
  <2>3. CASE cache_read_failed(e) BY <1>2, <1>3, <2>3 DEF cache_read_failed, DocRecords, Set
  <2>4. CASE Dispose(e) BY <1>2, <1>3, <2>4 DEF Dispose, Disposable, Set
  <2> QED BY <1>4, <2>1, <2>2, <2>3, <2>4 DEF Ui
<1>5. ASSUME NEW e \in Docs, WorkerStep(e), ~InvalidateBegin(e) PROVE FALSE
  <2>1. CASE WorkerTake(e) BY <2>1 DEF WorkerTake
  <2>2. CASE ConvertBegin(e) BY <1>2, <2>2 DEF ConvertBegin, DocRecords, Set
  <2>3. CASE ConvertKeep(e) BY <1>2, <2>3 DEF ConvertKeep, DocRecords, Set
  <2>4. CASE TouchBegin(e) BY <1>2, <2>4 DEF TouchBegin, DocRecords, Set
  <2>5. CASE WorkerDone(e) BY <1>2, <2>5 DEF WorkerDone, DocRecords, Set
  <2> QED BY <1>5, <2>1, <2>2, <2>3, <2>4, <2>5 DEF WorkerStep, convert
<1>6. ASSUME NEW e \in Docs, InvalidateBegin(e) PROVE condemned' # "no"
  BY <1>6 DEF InvalidateBegin
<1>7. CASE Invalidated
  <2>1. condemned' \in {"marked", condemned} /\ job.pc = "invalidate" BY <1>7 DEF Invalidated
  <2> QED BY <1>1, <2>1 DEF CondemnedInv
<1>8. CASE Prepared \/ BinaryKept \/ Completed
  <2>1. job.pc \in Keeping BY <1>8 DEF Prepared, BinaryKept, Completed, Keeping
  <2>2. job.doc \in Docs BY <1>1, <2>1 DEF LockInv, Writing
  <2>3. doc[job.doc] \in DocRecords BY <1>2, <2>2
  <2>4. CASE Prepared BY <1>2, <2>2, <2>3, <2>4 DEF Prepared, DocRecords, Set
  <2>5. CASE BinaryKept
    <3> DEFINE c == IF binOp.ok THEN "bin" ELSE "tmp"
               k == [doc[job.doc] EXCEPT !.cache = c]
    <3>1. k.bad = doc[job.doc].bad /\ [k EXCEPT !.snap = 0].bad = doc[job.doc].bad
      BY <2>3 DEF DocRecords
    <3>2. Set(job.doc, k) \/ Set(job.doc, [k EXCEPT !.snap = 0]) BY <2>5 DEF BinaryKept
    <3> HIDE DEF c, k
    <3> QED BY <1>3, <2>2, <3>1, <3>2
  <2>6. CASE Completed BY <1>2, <2>2, <2>3, <2>6 DEF Completed, DocRecords, Set
  <2> QED BY <1>8, <2>4, <2>5, <2>6
<1>9. CASE PowerFailure
  <2>1. session \in Nat BY <1>1 DEF TypeOK
  <2> QED BY <1>9, <2>1 DEF PowerFailure
<1>10. ASSUME UNCHANGED doc PROVE FALSE BY <1>2, <1>10
<1>11. \/ \E e \in Docs : Ui(e) \/ WorkerStep(e)
       \/ Prepared \/ BinaryKept \/ Completed \/ Invalidated \/ PowerFailure \/ UNCHANGED doc
  BY DEF Next, LockHeld, Touched, document_cache_reclaim, ReclaimBegin, ReclaimOne, MetaStep,
         BinStep, World, DependencyChanges, Damage, RemoveCard, InsertCard, vars
<1> QED BY <1>4, <1>5, <1>6, <1>7, <1>8, <1>9, <1>10, <1>11

\* A finding that the kept text is bad is taken up before its document goes; from then on the
\* text is not opened before it was converted anew, and a mark that was taken away does not come
\* back, wherever the cache is and whatever fails: document_cache_invalidate takes the mark away,
\* and where it cannot, document_open looks nothing up any more until the next start.  What
\* another document opens between the finding and the worker's coming is not in it.
THEOREM CondemnedIsNotReused == Spec => NoReuseOfCondemned
<1> DEFINE Step(d) == /\ doc[d].open /\ doc[d].bad /\ ~doc'[d].bad => condemned' # "no" \/ session' # session
                      /\ ~doc[d].open /\ doc'[d].persistent => condemned = "no"
                      /\ condemned' = "marked" => Meta!Effective(meta)' \notin Versions
<1>1. IInv /\ IInv' /\ [Next]_vars => [\A d \in Docs : Step(d)]_vars
  <2> SUFFICES ASSUME IInv, IInv', [Next]_vars, NEW d \in Docs PROVE Step(d)
    OBVIOUS
  <2>1. TypeOK /\ LockInv /\ DocsInv /\ CondemnedInv BY DEF IInv, BaseInv
  <2>2. ASSUME ~doc[d].open, doc'[d].persistent PROVE condemned = "no"
    <3>1. document_open(d) BY <2>1, <2>2, OpenedKept
    <3>2. PICK hit \in BOOLEAN :
            /\ hit => Reusable
            /\ Set(d, [Closed EXCEPT !.open = TRUE, !.gen = session,
                         !.invalid = \E p \in Docs : valid(p) /\ doc[p].invalid,
                         !.identity = IF hit THEN dep ELSE 0,
                         !.persistent = hit, !.claimed = hit, !.stopped = hit, !.touch = hit,
                         !.cache = IF hit THEN "bin" ELSE "none"])
      BY <3>1 DEF document_open
    <3>3. doc'[d].persistent = hit BY <2>1, <3>2 DEF Set, TypeOK, Closed
    <3>4. ~reuse_disabled /\ Mark \in Versions BY <2>1, <2>2, <3>2, <3>3 DEF Reusable, Mark, TypeOK
    <3>5. job.pc # "invalidate" BY <3>1 DEF document_open, LockFree
    <3> QED BY <2>1, <3>4, <3>5 DEF CondemnedInv, TypeOK, Findings
  <2>3. condemned' = "marked" => Meta!Effective(meta)' \notin Versions
    <3>1. CondemnedInv' BY DEF IInv
    <3> QED BY <3>1 DEF CondemnedInv, Mark
  <2> QED BY <2>2, <2>3, FindingTakenUp
<1> QED BY <1>1, AlwaysIInv, PTL DEF Spec, NoReuseOfCondemned

\* What DurableFile sees of the meta: a replacement under way is a save, and it is done when it
\* has taken effect.
LEMMA PromiseSees ==
  ASSUME metaOp' = metaOp, Mark' = Mark
  PROVE  UNCHANGED Meta!Promise!vars
BY DEF Meta!Promise!vars, Mark

\* A save begins where none is under way.
LEMMA PromiseBegins ==
  ASSUME metaOp.pc \in {"idle", "end"}, NEW c \in 0 .. MaxDep, Meta!StartReplace(c), Mark' = Mark
  PROVE  Meta!Promise!Next
<1>1. metaOp' = [pc |-> "begin", content |-> c, ok |-> FALSE] BY DEF Meta!StartReplace
<1>2. Meta!Promise!Begin(c)
  BY <1>1 DEF Meta!Promise!Begin, Mark
<1> QED BY <1>2 DEF Meta!Promise!Next

\* One that is given up, or interrupted, ends.
LEMMA PromiseEnds ==
  ASSUME metaOp.pc \notin {"idle", "end"} => metaOp.content # None,
         metaOp'.pc \in {"idle", "end"}, Mark' = Mark
  PROVE  [Meta!Promise!Next]_(Meta!Promise!vars)
<1>1. CASE metaOp.pc \in {"idle", "end"}
  BY <1>1 DEF Meta!Promise!vars, Mark
<1>2. CASE metaOp.pc \notin {"idle", "end"}
  <2>1. Meta!Promise!End BY <1>2 DEF Meta!Promise!End, Mark
  <2> QED BY <2>1 DEF Meta!Promise!Next
<1> QED BY <1>1, <1>2

\* With no replacement under way the mark may only go: the promise allows it.
LEMMA PromiseErases ==
  ASSUME metaOp.pc = "idle", metaOp' = metaOp, Mark' \in {Mark, None}
  PROVE  [Meta!Promise!Next]_(Meta!Promise!vars)
<1>1. CASE Mark' = Mark BY <1>1, PromiseSees
<1>2. CASE Mark' = None
  <2>1. Meta!Promise!Erase BY <1>2 DEF Meta!Promise!Erase, Mark
  <2> QED BY <2>1 DEF Meta!Promise!Next
<1> QED BY <1>1, <1>2

\* A step of the replacement is a step of the promise, or a stutter.
LEMMA PromiseMoves ==
  ASSUME TypeOK, FilesInv, Meta!Step
  PROVE  [Meta!Promise!Next]_(Meta!Promise!vars)
<1>1. /\ metaOp'.content = metaOp.content
      /\ metaOp.pc \notin {"idle", "end"} /\ metaOp'.pc # "idle"
      /\ Taken(metaOp) => Taken(metaOp)'
      /\ metaOp.pc = "sweep" <=> metaOp'.ok
      /\ (Taken(metaOp) <=> Taken(metaOp)') => Mark' = Mark
      /\ ~Taken(metaOp) /\ Taken(metaOp)' => metaOp'.pc = "sweep" /\ Mark' = metaOp.content
  BY MetaMoves DEF TypeOK, FilesInv
<1>2. metaOp.content # None
  BY <1>1, CacheAssumption DEF CacheAssumption, FilesInv, Replacing
<1>3. ~metaOp.ok BY <1>1 DEF FilesInv, Replacing
<1>4. metaOp'.ok => metaOp'.pc = "end" BY MetaMoves DEF TypeOK, FilesInv, Replacing
<1>5. CASE ~Taken(metaOp) /\ Taken(metaOp)'
  <2>1. Meta!Promise!TakeEffect BY <1>1, <1>2, <1>5 DEF Meta!Promise!TakeEffect, Mark, Taken
  <2> QED BY <2>1 DEF Meta!Promise!Next
<1>6. CASE Taken(metaOp)
  <2>1. metaOp'.pc = "end" /\ Mark' = Mark BY <1>1, <1>3, <1>4, <1>6 DEF Taken
  <2> QED BY <1>2, <2>1, PromiseEnds
<1>7. CASE ~Taken(metaOp) /\ ~Taken(metaOp)'
  <2>1. Mark' = Mark BY <1>1, <1>7
  <2>2. CASE metaOp'.pc = "end" BY <1>2, <2>1, <2>2, PromiseEnds
  <2>3. CASE metaOp'.pc # "end"
    <3>1. UNCHANGED Meta!Promise!vars
      BY <1>1, <1>7, <2>1, <2>3 DEF Meta!Promise!vars, Mark, Taken
    <3> QED BY <3>1
  <2> QED BY <2>2, <2>3
<1> QED BY <1>1, <1>5, <1>6, <1>7

\* The ".meta" keeps the promise of a replaced file, wherever the cache is: each step of a
\* document, of the worker, of a sweep or of the world is one atomic step of DurableFile or none.
THEOREM MetaIsDurable == Spec => MetaKeepsPromise
<1>1. Init => Meta!Promise!Init
  <2> SUFFICES ASSUME Init PROVE Meta!Promise!Init OBVIOUS
  <2>1. metaOp.pc = "idle" BY DEF Init, Meta!Idle
  <2>2. Meta!Effective(meta) = None BY DEF Init, Meta!NoFile, Meta!Effective, Meta!Recovered
  <2> QED BY <2>1, <2>2 DEF Meta!Promise!Init
<1>2. IInv /\ [Next]_vars => [Meta!Promise!Next]_(Meta!Promise!vars)
  <2> SUFFICES ASSUME IInv, [Next]_vars PROVE [Meta!Promise!Next]_(Meta!Promise!vars) OBVIOUS
  <2>1. TypeOK /\ FilesInv /\ LockInv /\ OrderInv /\ DocsInv BY DEF IInv, BaseInv
  <2>2. metaOp.pc \notin {"idle", "end"} => metaOp.content # None
    BY <2>1, CacheAssumption DEF CacheAssumption, FilesInv, Replacing
  <2>3. LockFree => metaOp.pc = "idle" BY <2>1, FreeIs, WhenFree
  <2>4. /\ Incomplete \in 0 .. MaxDep
        /\ \A d \in Docs : doc[d].identity \in 0 .. MaxDep /\ doc[d].snap \in 0 .. MaxDep
    BY <2>1, Fields, CacheAssumption DEF CacheAssumption, Incomplete, TypeOK
  <2>5. ASSUME NEW d \in Docs, document_open(d) PROVE [Meta!Promise!Next]_(Meta!Promise!vars)
    <3>1. metaOp' = metaOp /\ (meta' = meta \/ meta' = Meta!Recovered(meta))
      BY <2>5 DEF document_open
    <3>2. Mark' = Mark BY <2>1, <3>1, MetaRecovered DEF TypeOK, Mark
    <3> QED BY <3>1, <3>2, PromiseSees
  <2>6. ASSUME NEW d \in Docs, ConvertKeep(d) PROVE [Meta!Promise!Next]_(Meta!Promise!vars)
    <3>1. LockFree /\ Meta!StartReplace(Incomplete) /\ meta' = meta BY <2>6 DEF ConvertKeep
    <3> QED BY <2>3, <2>4, <3>1, PromiseBegins DEF Mark
  <2>7. ASSUME NEW d \in Docs, InvalidateBegin(d) PROVE [Meta!Promise!Next]_(Meta!Promise!vars)
    <3>1. LockFree /\ meta' = meta /\ (Meta!StartReplace(Incomplete) \/ metaOp' = metaOp)
      BY <2>7 DEF InvalidateBegin
    <3> QED BY <2>3, <2>4, <3>1, PromiseBegins, PromiseSees DEF Mark
  <2>8. ASSUME NEW d \in Docs, TouchBegin(d) PROVE [Meta!Promise!Next]_(Meta!Promise!vars)
    <3>1. /\ LockFree
          /\ \/ meta' = Meta!Recovered(meta) /\ Meta!StartReplace(doc[d].identity)
             \/ meta' = meta /\ metaOp' = metaOp
      BY <2>8 DEF TouchBegin
    <3>2. Mark' = Mark BY <2>1, <3>1, MetaRecovered DEF TypeOK, Mark
    <3> QED BY <2>3, <2>4, <3>1, <3>2, PromiseBegins, PromiseSees
  <2>9. ASSUME Prepared \/ Completed \/ Invalidated \/ Touched
        PROVE  [Meta!Promise!Next]_(Meta!Promise!vars)
    <3>1. metaOp' = Meta!Idle /\ meta' = meta BY <2>9 DEF Prepared, Completed, Invalidated, Touched
    <3>2. metaOp'.pc = "idle" BY <3>1, MetaIdles
    <3> QED BY <2>2, <3>1, <3>2, PromiseEnds DEF Mark
  <2>10. ASSUME BinaryKept PROVE [Meta!Promise!Next]_(Meta!Promise!vars)
    <3>1. job.pc = "binary" /\ meta' = meta
          /\ (Meta!StartReplace(doc[job.doc].snap) \/ metaOp' = metaOp)
      BY <2>10 DEF BinaryKept
    <3>2. metaOp.pc = "idle" /\ job.doc \in Docs BY <2>1, <3>1 DEF LockInv, Writing, Keeping
    <3> QED BY <2>4, <3>1, <3>2, PromiseBegins, PromiseSees DEF Mark
  <2>11. ASSUME ReclaimBegin PROVE [Meta!Promise!Next]_(Meta!Promise!vars)
    <3>1. metaOp' = metaOp /\ meta' = Meta!Recovered(meta) BY <2>11 DEF ReclaimBegin
    <3>2. Mark' = Mark BY <2>1, <3>1, MetaRecovered DEF TypeOK, Mark
    <3> QED BY <3>1, <3>2, PromiseSees
  <2>12. ASSUME NEW i \in 1 .. 6, ReclaimOne(i) PROVE [Meta!Promise!Next]_(Meta!Promise!vars)
    <3>1. metaOp' = metaOp BY <2>12 DEF ReclaimOne
    <3>2. job.pc \in Sweeping /\ Mark' \in {Mark, None} BY <2>1, <2>12, OneGoes
    <3>3. metaOp.pc = "idle" BY <2>1, <3>2, WhenFree DEF Sweeping, Writing, Keeping
    <3> QED BY <3>1, <3>2, <3>3, PromiseErases
  <2>13. ASSUME MetaStep PROVE [Meta!Promise!Next]_(Meta!Promise!vars)
    BY <2>1, <2>13, PromiseMoves DEF MetaStep
  <2>14. ASSUME PowerFailure PROVE [Meta!Promise!Next]_(Meta!Promise!vars)
    <3>1. meta' = [meta EXCEPT !.tmp = None] /\ metaOp' = Meta!Idle
      BY <2>14 DEF PowerFailure, Meta!AfterPowerFailure
    <3>2. meta \in Meta!Files BY <2>1 DEF TypeOK
    <3>3. meta' \in Meta!Files /\ meta'.path = meta.path /\ meta'.old = meta.old
      BY <3>1, <3>2 DEF Meta!Files
    <3>4. Mark' = Mark BY <3>2, <3>3, MetaEffective DEF Mark
    <3>5. metaOp'.pc = "idle" BY <3>1, MetaIdles
    <3> QED BY <2>2, <3>4, <3>5, PromiseEnds
  <2>15. ASSUME UNCHANGED <<meta, metaOp>> PROVE [Meta!Promise!Next]_(Meta!Promise!vars)
    BY <2>15, PromiseSees DEF Mark
  <2>16. ASSUME NEW d \in Docs, Ui(d) PROVE document_open(d) \/ UNCHANGED <<meta, metaOp>>
    BY <2>16 DEF Ui, document_close, cache_read_failed, Dispose, fileVars
  <2>17. ASSUME NEW d \in Docs, WorkerStep(d)
         PROVE  ConvertKeep(d) \/ InvalidateBegin(d) \/ TouchBegin(d) \/ UNCHANGED <<meta, metaOp>>
    BY <2>17 DEF WorkerStep, convert, WorkerTake, ConvertBegin, WorkerDone, fileVars
  <2>18. ASSUME World \/ BinStep \/ UNCHANGED vars PROVE PowerFailure \/ UNCHANGED <<meta, metaOp>>
    BY <2>18 DEF World, BinStep, DependencyChanges, Damage, RemoveCard, InsertCard, vars, fileVars
  <2> QED
    BY <2>5, <2>6, <2>7, <2>8, <2>9, <2>10, <2>11, <2>12, <2>13, <2>14, <2>15, <2>16, <2>17, <2>18
       DEF Next, LockHeld, document_cache_reclaim
<1> QED BY <1>1, <1>2, AlwaysIInv, PTL DEF Spec, MetaKeepsPromise, Meta!Promise!Spec
====
