------------------------------- MODULE VectorDb -------------------------------
(* vector-db: collections and their cache, and the file's migration.        *)
(* The parts share no state; each has its own initial states and steps.     *)
EXTENDS Integers, FiniteSets

-----------------------------------------------------------------------------
(* vector-db: collections in SQLite, whole collections cached under one byte *)
(* budget, writes through the cache, embeddings asked of the ai plugin, and  *)
(* the background re-embedding of a collection whose model changed.          *)

CONSTANTS VectorTasks, Colls, VectorIds, Nil,
          VectorDocs,      \* documents of one upsert, [text, vec]
          VectorBatches,   \* id -> document of a batch
          VectorBytes,     \* cache budget, a row being one unit
          Fallback,        \* VECTOR_DB_EMBED_FALLBACK: "fake" or "error"
          ModelDim,        \* dimension of "old", "new" (the configured) and "fake"
          MaxPasses, VectorOps, VectorCrashes   \* MAX_PASSES; bounds of the runs

VARIABLES coll,      \* collections table: Nil or [dim, model]
          vrows,     \* vectors table: [text, vec], vec = [m, d, of]
          shadow,    \* vectors_reembed: [text, vec]
          cached,    \* Slot.state: Nil or [dim, vecs]
          bytes, vtotal,
          writer,    \* Slot.writer: holder or Nil
          reemb,     \* reembedding map: state of the background task
          vtask, vops, crashes

vectorVars == <<coll, vrows, shadow, cached, bytes, vtotal, writer, reemb, vtask, vops, crashes>>

NoRequest == [pc |-> "idle", op |-> Nil, c |-> Nil, docs |-> <<>>, info |-> Nil,
              vec |-> Nil, res |-> 0, hits |-> {}]
NoReembed == [st |-> "none", page |-> {}, pass |-> 0]
Vec(m, d, t) == [m |-> m, d |-> d, of |-> t]
RowsOf(c) == {i \in VectorIds : vrows[c][i] # Nil}
\* Loaded: the rows whose vector has the collection's dimension
Loaded(c) == [i \in VectorIds |-> IF vrows[c][i] = Nil \/ vrows[c][i].vec.d # coll[c].dim
                             THEN Nil ELSE vrows[c][i].vec]
Size(vs) == Cardinality({i \in VectorIds : vs[i] # Nil})
\* f with the values of g where g has none
Over(g, f) == [x \in DOMAIN g \cup DOMAIN f |-> IF x \in DOMAIN g THEN g[x] ELSE f[x]]
\* the sum of f[x] over S
Sum(f, S) == Cardinality(UNION {{x} \X (1..f[x]) : x \in S})

\* what documents may hold: texts, dimensions, vectors of whoever embedded them
Sent == VectorDocs \cup UNION {{b[i] : i \in DOMAIN b} : b \in VectorBatches}
Texts == {"", "a"} \cup {d.text : d \in Sent}
Dims == {ModelDim[m] : m \in {"old", "new", "fake"}}
        \cup {d.vec.d : d \in {e \in Sent : e.vec # Nil}}
Vecs == [m : {"given", "old", "new", "fake"}, d : Dims, of : Texts]
Stored == [text : Texts, vec : Vecs]
Infos == [dim : Dims, model : {"", "old", "new"}]
Copies == [dim : Dims, vecs : [VectorIds -> Vecs \cup {Nil}]]
VectorAssumption ==
  /\ IsFiniteSet(VectorTasks) /\ IsFiniteSet(Colls) /\ IsFiniteSet(VectorIds)
  /\ {Nil, "reembed"} \cap VectorTasks = {} /\ Nil # "reembed"
  /\ Nil \notin Vecs \cup Stored \cup Infos \cup Copies
  /\ \A d \in Sent : /\ d = [text |-> d.text, vec |-> d.vec]
                     /\ d.vec = Nil \/ d.vec = Vec("given", d.vec.d, "")
  /\ \A b \in VectorBatches : /\ DOMAIN b # {} /\ DOMAIN b \subseteq VectorIds
                              /\ b = [i \in DOMAIN b |-> b[i]]
  /\ VectorBytes \in Nat /\ VectorOps \in Nat /\ VectorCrashes \in Nat
ASSUME VectorBounds == VectorAssumption

\* a collection of any model, and of a dimension the configured one may share
VectorInit ==
  /\ \E m \in {"", "old", "new"}, txt \in {"a", ""}, c0 \in Colls,
        d \in {ModelDim["old"], ModelDim["new"]} :
       /\ coll = [c \in Colls |-> IF c = c0 THEN [dim |-> d, model |-> m]
                                  ELSE [dim |-> ModelDim["new"], model |-> "new"]]
       /\ vrows = [c \in Colls |-> [i \in VectorIds |->
            IF i # CHOOSE j \in VectorIds : TRUE THEN Nil
            ELSE IF c # c0 THEN [text |-> "a", vec |-> Vec("new", ModelDim["new"], "a")]
            ELSE [text |-> txt, vec |->
                   IF txt = "" \/ m = "" THEN Vec("given", d, "")
                   ELSE Vec(m, d, txt)]]]
  /\ shadow = [c \in Colls |-> [i \in VectorIds |-> Nil]]
  /\ cached = [c \in Colls |-> Nil] /\ bytes = [c \in Colls |-> 0] /\ vtotal = 0
  /\ writer = [c \in Colls |-> Nil] /\ reemb = [c \in Colls |-> NoReembed]
  /\ vtask = [t \in VectorTasks |-> NoRequest] /\ vops = 0 /\ crashes = 0

SetVtask(t, k) == vtask' = [vtask EXCEPT ![t] = k]
EndVtask(t) == SetVtask(t, NoRequest)
GotoVtask(t, pc) == SetVtask(t, [vtask[t] EXCEPT !.pc = pc])
Disk == <<coll, vrows, shadow>>
Cache == <<cached, bytes, vtotal>>
Lib == <<vops, crashes>>

\* parse_request: a document, or what is searched for, has a text or a vector
\* of its own, or both; the vector then counts
Accepted(docs) == \A i \in DOMAIN docs : docs[i].text # "" \/ docs[i].vec # Nil
\* one document, or a batch of them
One(i, d) == [j \in {i} |-> d]
Writes == {One(i, d) : i \in VectorIds, d \in VectorDocs} \cup VectorBatches
\* handle_inner: a parsed request, then collection_info
Begin(t, op, c, docs) ==
  /\ vtask[t].pc = "idle" /\ vops < VectorOps /\ vops' = vops + 1
  /\ SetVtask(t, [NoRequest EXCEPT !.pc = IF op = "delete" THEN "write"
                                        ELSE IF op = "query" /\ coll[c] = Nil THEN "idle" ELSE "guard",
                                   !.op = op, !.c = c, !.docs = docs, !.info = coll[c]])
  /\ UNCHANGED <<Disk, Cache, writer, reemb, crashes>>
UpsertDocs(t, c) == \E docs \in Writes : Accepted(docs) /\ Begin(t, "upsert", c, docs)
Query(t, c) == \E d \in VectorDocs : Accepted(One("q", d)) /\ Begin(t, "query", c, One("q", d))
Delete(t, c) == \E i \in VectorIds : Begin(t, "delete", c, One(i, Nil))

\* model_guard: refuse while a re-embed runs or backs off; start one
Guard(t) ==
  LET k == vtask[t]
      stale == k.info # Nil /\ k.info.model \notin {"", "new"}
  IN /\ k.pc = "guard"
     /\ IF reemb[k.c].st # "none" THEN EndVtask(t) /\ UNCHANGED reemb
        ELSE IF stale THEN /\ reemb' = [reemb EXCEPT ![k.c] = [NoReembed EXCEPT !.st = "clear"]]
                           /\ EndVtask(t)
        ELSE GotoVtask(t, "embed") /\ UNCHANGED reemb
     /\ UNCHANGED <<Disk, Cache, writer, Lib>>

\* refuse_fake_for_real_collection, by the info read before the call to ai
FakeOk(info, v) == v.m = "fake" => info = Nil \/ info.model = ""
\* embed_texts: the texts that come without a vector, all with one model
Models == {"new"} \cup IF Fallback = "fake" THEN {"fake"} ELSE {}
Embedded(k, m) ==
  LET d == IF m = "fake" /\ k.info # Nil THEN k.info.dim ELSE ModelDim[m]
  IN [i \in DOMAIN k.docs |-> IF k.docs[i].vec # Nil THEN k.docs[i]
                              ELSE [k.docs[i] EXCEPT !.vec = Vec(m, d, k.docs[i].text)]]
\* the collection's dimension, and one dimension for a batch that creates it
OneDim(info, docs) == /\ \A i, j \in DOMAIN docs : docs[i].vec.d = docs[j].vec.d
                      /\ info # Nil => \A i \in DOMAIN docs : docs[i].vec.d = info.dim
\* embed_many: ai failed, refused, or answered something malformed
EmbedFails(t) == /\ vtask[t].pc = "embed" /\ EndVtask(t)
                 /\ UNCHANGED <<Disk, Cache, writer, reemb, Lib>>
Embed(t) ==
  LET k == vtask[t] IN
  /\ k.pc = "embed"
  /\ \E m \in Models : LET docs == Embedded(k, m) IN
          /\ OneDim(k.info, docs) /\ \A i \in DOMAIN docs : FakeOk(k.info, docs[i].vec)
          /\ IF k.op = "query" THEN SetVtask(t, [k EXCEPT !.pc = "read", !.vec = docs["q"].vec])
             ELSE SetVtask(t, [k EXCEPT !.pc = "write", !.docs = docs])
  /\ UNCHANGED <<Disk, Cache, writer, reemb, Lib>>

\* reserve_with_eviction: other loaded collections go (last_used decides
\* which; one in use stops the loop), then the budget is claimed or not
Evict(c, gone) == /\ gone \subseteq {x \in Colls \ {c} : bytes[x] > 0}
                  /\ cached' = [x \in Colls |-> IF x \in gone THEN Nil ELSE cached[x]]
                  /\ bytes' = [x \in Colls |-> IF x \in gone THEN 0 ELSE bytes[x]]
Held(gone) == Sum(bytes, gone)
HasRoom(gone, n) == vtotal - Held(gone) + n <= VectorBytes
Rooms(c, n) == IF vtotal + n <= VectorBytes THEN {{}}
               ELSE SUBSET {x \in Colls \ {c} : bytes[x] > 0}

\* upsert_inner under the writer lock: one transaction for all the documents
UpsertTx(t) ==
  LET k == vtask[t] cur == coll[k.c] new == DOMAIN k.docs
      d == k.docs[CHOOSE i \in new : TRUE].vec.d
  IN
  /\ k.pc = "write" /\ k.op = "upsert" /\ writer[k.c] = Nil
  /\ IF cur # Nil /\ cur.dim # d THEN EndVtask(t) /\ UNCHANGED <<Disk, writer>>
     ELSE /\ coll' = [coll EXCEPT ![k.c] =
                 [dim |-> d,
                  model |-> IF cur # Nil /\ cur.model # "" THEN cur.model
                            ELSE IF \E i \in new : k.docs[i].vec.m = "new" THEN "new" ELSE ""]]
          /\ vrows' = [vrows EXCEPT ![k.c] = Over(k.docs, vrows[k.c])]
          /\ writer' = [writer EXCEPT ![k.c] = t]
          /\ GotoVtask(t, "cache") /\ UNCHANGED shadow
  /\ UNCHANGED <<Cache, reemb, Lib>>
\* delete_inner: the row, and only of a collection that exists
DeleteTx(t) ==
  LET k == vtask[t] IN
  /\ k.pc = "write" /\ k.op = "delete" /\ writer[k.c] = Nil
  /\ IF coll[k.c] = Nil THEN EndVtask(t) /\ UNCHANGED <<vrows, writer>>
     ELSE /\ vrows' = [vrows EXCEPT ![k.c] = Over(k.docs, vrows[k.c])]
          /\ writer' = [writer EXCEPT ![k.c] = t] /\ GotoVtask(t, "cache")
  /\ UNCHANGED <<coll, shadow, Cache, reemb, Lib>>
\* a transaction that fails leaves nothing
WriteFails(t) == /\ vtask[t].pc = "write" /\ EndVtask(t)
                 /\ UNCHANGED <<Disk, Cache, writer, reemb, Lib>>

\* then the cached copy and account(); no room: unloaded
CacheWrite(t) ==
  LET k == vtask[t]
      new == [i \in DOMAIN k.docs |-> IF k.op = "delete" THEN Nil ELSE k.docs[i].vec]
      l == [dim |-> cached[k.c].dim, vecs |-> Over(new, cached[k.c].vecs)]
      n == Size(l.vecs)
      grow == IF n > bytes[k.c] THEN n - bytes[k.c] ELSE 0
  IN /\ k.pc = "cache" /\ EndVtask(t) /\ writer' = [writer EXCEPT ![k.c] = Nil]
     /\ IF cached[k.c] = Nil THEN UNCHANGED Cache
        ELSE \E gone \in Rooms(k.c, grow) :
          LET ok == HasRoom(gone, grow) IN
          /\ cached' = [x \in Colls |-> IF x = k.c THEN (IF ok THEN l ELSE Nil)
                                        ELSE IF x \in gone THEN Nil ELSE cached[x]]
          /\ bytes' = [x \in Colls |-> IF x = k.c THEN (IF ok THEN n ELSE 0)
                                       ELSE IF x \in gone THEN 0 ELSE bytes[x]]
          /\ vtotal' = vtotal - Held(gone) - bytes[k.c] + IF ok THEN n ELSE 0
     /\ UNCHANGED <<Disk, reemb, Lib>>

\* query: score the cached copy under its read guard
Scan(vs, q) == {vs[i] : i \in {j \in VectorIds : vs[j] # Nil}}
Read(t) ==
  LET k == vtask[t] IN
  /\ k.pc = "read"
  /\ IF cached[k.c] = Nil THEN GotoVtask(t, "load")
     ELSE IF cached[k.c].dim # k.vec.d THEN EndVtask(t)
     ELSE SetVtask(t, [k EXCEPT !.pc = "fetch", !.hits = Scan(cached[k.c].vecs, k.vec)])
  /\ UNCHANGED <<Disk, Cache, writer, reemb, Lib>>
\* not loaded: one loader, which reserves before it reads
Load(t) ==
  LET k == vtask[t] IN
  /\ k.pc = "load" /\ writer[k.c] = Nil
  /\ IF cached[k.c] # Nil THEN GotoVtask(t, "read") /\ UNCHANGED <<Cache, writer>>
     ELSE IF coll[k.c] = Nil \/ coll[k.c].dim # k.vec.d
          THEN EndVtask(t) /\ UNCHANGED <<Cache, writer>>
     ELSE LET n == Cardinality(RowsOf(k.c)) IN
          \E est \in {n, n + 1} \cup (IF n > 0 THEN {n - 1} ELSE {}) :
            IF est > VectorBytes THEN GotoVtask(t, "scan") /\ UNCHANGED <<Cache, writer>>
            ELSE \E gone \in Rooms(k.c, est) :
              /\ Evict(k.c, gone)
              /\ IF HasRoom(gone, est)
                 THEN /\ vtotal' = vtotal - Held(gone) + est
                      /\ SetVtask(t, [k EXCEPT !.pc = "install", !.res = est])
                      /\ writer' = [writer EXCEPT ![k.c] = t]
                 ELSE /\ vtotal' = vtotal - Held(gone) /\ GotoVtask(t, "scan")
                      /\ UNCHANGED writer
  /\ UNCHANGED <<Disk, reemb, Lib>>
\* load failed: the Reservation is dropped armed
LoadFails(t) ==
  LET k == vtask[t] IN
  /\ k.pc = "install" /\ writer' = [writer EXCEPT ![k.c] = Nil] /\ EndVtask(t)
  /\ vtotal' = vtotal - k.res /\ UNCHANGED <<Disk, cached, bytes, reemb, Lib>>
\* loaded: the reservation becomes the real size, or the scan goes to SQLite
Install(t) ==
  LET k == vtask[t] n == Size(Loaded(k.c))
      more == IF n > k.res THEN n - k.res ELSE 0 IN
  /\ k.pc = "install" /\ writer' = [writer EXCEPT ![k.c] = Nil]
  /\ \E gone \in Rooms(k.c, more) :
       IF HasRoom(gone, more)
       THEN /\ cached' = [x \in Colls |-> IF x \in gone THEN Nil ELSE IF x = k.c
                           THEN [dim |-> coll[x].dim, vecs |-> Loaded(x)] ELSE cached[x]]
            /\ bytes' = [x \in Colls |-> IF x \in gone THEN 0 ELSE IF x = k.c THEN n
                                          ELSE bytes[x]]
            /\ vtotal' = vtotal - Held(gone) - k.res + n
            /\ SetVtask(t, [k EXCEPT !.pc = "read", !.res = 0])
       ELSE /\ Evict(k.c, gone) /\ vtotal' = vtotal - Held(gone) - k.res
            /\ SetVtask(t, [k EXCEPT !.pc = "scan", !.res = 0])
  /\ UNCHANGED <<Disk, reemb, Lib>>
\* scan_sqlite: rows of the query's dimension, no lock
ScanSqlite(t) ==
  LET k == vtask[t] IN
  /\ k.pc = "scan"
  /\ SetVtask(t, [k EXCEPT !.pc = "fetch", !.hits = {vrows[k.c][i].vec : i \in
                               {j \in RowsOf(k.c) : vrows[k.c][j].vec.d = k.vec.d}}])
  /\ UNCHANGED <<Disk, Cache, writer, reemb, Lib>>
\* the texts of the hits that still exist
Fetch(t) == /\ vtask[t].pc = "fetch" /\ EndVtask(t)
            /\ UNCHANGED <<Disk, Cache, writer, reemb, Lib>>
\* evict_idle: any collection past its idle window
EvictIdle(c) == /\ bytes[c] > 0
                /\ cached' = [cached EXCEPT ![c] = Nil] /\ bytes' = [bytes EXCEPT ![c] = 0]
                /\ vtotal' = vtotal - bytes[c]
                /\ UNCHANGED <<Disk, writer, reemb, vtask, Lib>>

-----------------------------------------------------------------------------
(* The background task of a collection. *)
Re(c, r) == reemb' = [reemb EXCEPT ![c] = r]
Others == <<coll, vrows, Cache, writer, vtask, Lib>>
\* a shadow left by a crash is discarded
ReClear(c) == /\ reemb[c].st = "clear" /\ Re(c, [reemb[c] EXCEPT !.st = "select"])
              /\ shadow' = [shadow EXCEPT ![c] = [i \in VectorIds |-> Nil]] /\ UNCHANGED Others
Unembedded(c) == {i \in RowsOf(c) : vrows[c][i].text # "" /\
                   (shadow[c][i] = Nil \/ shadow[c][i].text # vrows[c][i].text)}
ReSelect(c) ==
  /\ reemb[c].st = "select"
  /\ IF Unembedded(c) = {} THEN Re(c, [reemb[c] EXCEPT !.st = "swap"])
     ELSE Re(c, [reemb[c] EXCEPT !.st = "embed",
                 !.page = {<<i, vrows[c][i].text>> : i \in Unembedded(c)}])
  /\ UNCHANGED <<shadow, Others>>
ReStore(c) ==
  /\ reemb[c].st = "embed" /\ Re(c, [reemb[c] EXCEPT !.st = "select", !.page = {}])
  /\ shadow' = [shadow EXCEPT ![c] = [i \in VectorIds |->
       IF \E p \in reemb[c].page : p[1] = i
       THEN LET p == CHOOSE q \in reemb[c].page : q[1] = i
            IN [text |-> p[2], vec |-> Vec("new", ModelDim["new"], p[2])]
       ELSE shadow[c][i]]]
  /\ UNCHANGED Others
\* any failure: the shadow is cleared and the backoff armed
ReFails(c) == /\ reemb[c].st \in {"select", "embed", "swap"}
              /\ reemb' = [reemb EXCEPT ![c] = [NoReembed EXCEPT !.st = "backoff"]]
              /\ shadow' = [shadow EXCEPT ![c] = [i \in VectorIds |-> Nil]] /\ UNCHANGED Others
BackoffOver(c) == /\ reemb[c].st = "backoff" /\ reemb' = [reemb EXCEPT ![c] = NoReembed]
                  /\ UNCHANGED <<shadow, Others>>
\* mistake: rows whose text changed since are swapped too
SwapAnyway(c) ==
  /\ reemb[c].st = "swap" /\ writer[c] = Nil
  /\ vrows' = [vrows EXCEPT ![c] = [i \in VectorIds |->
        IF vrows[c][i] = Nil \/ vrows[c][i].text = "" \/ shadow[c][i] = Nil THEN vrows[c][i]
        ELSE [vrows[c][i] EXCEPT !.vec = shadow[c][i].vec]]]
  /\ coll' = [coll EXCEPT ![c] = [dim |-> ModelDim["new"], model |-> "new"]]
  /\ shadow' = [shadow EXCEPT ![c] = [i \in VectorIds |-> Nil]]
  /\ writer' = [writer EXCEPT ![c] = "reembed"] /\ Re(c, [reemb[c] EXCEPT !.st = "drop"])
  /\ UNCHANGED <<Cache, vtask, Lib>>
\* swap_inner: stale rows send it back; else one transaction
Swap(c) ==
  LET new == {i \in VectorIds : shadow[c][i] # Nil} IN
  /\ reemb[c].st = "swap" /\ writer[c] = Nil
  /\ IF Unembedded(c) # {}
     THEN /\ reemb[c].pass < MaxPasses
          /\ Re(c, [reemb[c] EXCEPT !.st = "select", !.pass = @ + 1])
          /\ UNCHANGED <<Disk, writer>>
     ELSE /\ vrows' = [vrows EXCEPT ![c] = [i \in VectorIds |->
               IF vrows[c][i] = Nil \/ vrows[c][i].text = "" THEN Nil
               ELSE [vrows[c][i] EXCEPT !.vec = shadow[c][i].vec]]]
          /\ coll' = [coll EXCEPT ![c] =
               [dim |-> IF new = {} THEN coll[c].dim ELSE ModelDim["new"], model |-> "new"]]
          /\ shadow' = [shadow EXCEPT ![c] = [i \in VectorIds |-> Nil]]
          /\ writer' = [writer EXCEPT ![c] = "reembed"] /\ Re(c, [reemb[c] EXCEPT !.st = "drop"])
  /\ UNCHANGED <<Cache, vtask, Lib>>
\* the stale copy goes before the writer lock does; guard.succeed()
SwapDrop(c) == /\ reemb[c].st = "drop" /\ reemb' = [reemb EXCEPT ![c] = NoReembed]
               /\ cached' = [cached EXCEPT ![c] = Nil]
               /\ bytes' = [bytes EXCEPT ![c] = 0] /\ vtotal' = vtotal - bytes[c]
               /\ writer' = [writer EXCEPT ![c] = Nil]
               /\ UNCHANGED <<Disk, vtask, Lib>>

\* the process dies: only the file is left
Crash == /\ crashes < VectorCrashes /\ crashes' = crashes + 1
         /\ cached' = [c \in Colls |-> Nil] /\ bytes' = [c \in Colls |-> 0] /\ vtotal' = 0
         /\ writer' = [c \in Colls |-> Nil] /\ reemb' = [c \in Colls |-> NoReembed]
         /\ vtask' = [t \in VectorTasks |-> NoRequest] /\ UNCHANGED <<Disk, vops>>

VectorStep(t) ==
  \/ Guard(t) \/ Embed(t) \/ EmbedFails(t)
  \/ UpsertTx(t) \/ DeleteTx(t) \/ WriteFails(t) \/ CacheWrite(t)
  \/ Read(t) \/ Load(t) \/ LoadFails(t) \/ Install(t) \/ ScanSqlite(t) \/ Fetch(t)
Background(c) == \/ EvictIdle(c) \/ ReClear(c) \/ ReSelect(c) \/ ReStore(c)
                 \/ ReFails(c) \/ BackoffOver(c) \/ Swap(c) \/ SwapDrop(c)
VectorNext ==
  \/ \E t \in VectorTasks : VectorStep(t)
  \/ \E c \in Colls : Background(c)
  \/ \E t \in VectorTasks, c \in Colls : UpsertDocs(t, c) \/ Query(t, c) \/ Delete(t, c)
  \/ Crash
VectorSpec == VectorInit /\ [][VectorNext]_vectorVars

-----------------------------------------------------------------------------
\* The cached copy of a collection nobody is writing is the table.
CopiesExact == \A c \in Colls : writer[c] = Nil /\ cached[c] # Nil =>
                cached[c].dim = coll[c].dim /\ cached[c].vecs = Loaded(c)
\* The budget counter is what the slots hold plus what loaders reserved.
BudgetExact == /\ vtotal <= VectorBytes
               /\ \A c \in Colls : bytes[c] = IF cached[c] = Nil THEN 0
                                              ELSE Size(cached[c].vecs)
               /\ vtotal = Sum(bytes, Colls) + Sum([t \in VectorTasks |-> vtask[t].res], VectorTasks)
\* Every vector of a collection has its dimension, was computed from the text
\* beside it, and never by a model other than the one recorded.
RowsExact == \A c \in Colls : \A i \in RowsOf(c) :
  LET r == vrows[c][i] IN
  /\ coll[c] # Nil /\ r.vec.d = coll[c].dim
  /\ r.vec.m # "given" => r.vec.of = r.text
  /\ r.vec.m \in {"old", "new"} => coll[c].model = r.vec.m
\* What a query scores was never embedded by another model than the query.
AnswersComparable == \A t \in VectorTasks : vtask[t].pc = "fetch" =>
  \A h \in vtask[t].hits : /\ h.d = vtask[t].vec.d
                           /\ {h.m, vtask[t].vec.m} # {"old", "new"}
\* cache.rs and handler.rs together, over concurrent writes, loads,
\* evictions, the swap of a re-embed and a crash.
VectorInv == CopiesExact /\ BudgetExact /\ RowsExact /\ AnswersComparable

-----------------------------------------------------------------------------
(* vector-db: the first request of a caller opens its SQLite file and brings  *)
(* it to the current schema, behind the lock on the pools.  The process may   *)
(* stop between any two steps and a step may fail; the next request starts    *)
(* over from what the file and the backup hold.                               *)

CONSTANTS FileRows, CorruptRows,   \* row ids; those whose JSON does not parse
          MaxOpens, MaxEdits \* bounds
VARIABLES vfile,      \* [version, vectors, collections, rows]: what is committed
          backup,     \* the .bak-v0 file: [is, rows], is in {"none", "torn", "whole"}
          scratch,    \* the .bak-v0.tmp file, likewise
          opening,    \* where migrate::run is; "idle" when no one holds the lock
          work,       \* the transaction's rows, not committed yet
          vpool,      \* the caller's pool is open
          origin,     \* the rows of the v0 file that was migrated
          edited,     \* the older program changed the file after a backup was made
          opens, edits
migrateVars == <<vfile, backup, scratch, opening, work, vpool, origin, edited, opens, edits>>

NoFile == [is |-> "none", rows |-> <<>>]
Torn == [is |-> "torn", rows |-> <<>>]
Whole(r) == [is |-> "whole", rows |-> r]
\* a fresh file, one that the first start left without vectors, or a v0 file, with or
\* without its collections table
FreshFiles == {[version |-> 0, vectors |-> "none", collections |-> c, rows |-> <<>>] :
                 c \in {"none", "model"}}
OldFiles == {[version |-> 0, vectors |-> "json", collections |-> c, rows |-> [i \in R |-> 0]] :
               c \in {"none", "plain"}, R \in SUBSET FileRows}
MigrateInit ==
  /\ vfile \in FreshFiles \cup OldFiles
  /\ backup \in {NoFile, Torn} /\ scratch \in {NoFile, Torn}
  /\ opening = "idle" /\ work = <<>> /\ vpool = FALSE
  /\ origin = <<>> /\ edited = FALSE /\ opens = 0 /\ edits = 0
-----------------------------------------------------------------------------
\* pool_for under the lock: an open pool is used; run returns at once for version 1
Open ==
  /\ opening = "idle" /\ ~vpool /\ opens < MaxOpens /\ opens' = opens + 1
  /\ IF vfile.version >= 1 THEN vpool' = TRUE /\ UNCHANGED opening
     ELSE /\ opening' = (IF vfile.vectors = "none" THEN "collections" ELSE "check")
          /\ UNCHANGED vpool
  /\ UNCHANGED <<vfile, backup, scratch, work, origin, edited, edits>>
\* a fresh file: each statement commits by itself
CreateCollections ==
  /\ opening = "collections" /\ opening' = "vectors"
  /\ vfile' = [vfile EXCEPT !.collections = IF @ = "none" THEN "model" ELSE @]
  /\ UNCHANGED <<backup, scratch, work, vpool, origin, edited, opens, edits>>
CreateVectors ==
  /\ opening = "vectors" /\ opening' = "version" /\ vfile' = [vfile EXCEPT !.vectors = "blob"]
  /\ UNCHANGED <<backup, scratch, work, vpool, origin, edited, opens, edits>>
SetVersion ==
  /\ opening = "version" /\ opening' = "idle"
  /\ vfile' = [vfile EXCEPT !.version = 1] /\ vpool' = TRUE
  /\ UNCHANGED <<backup, scratch, work, origin, edited, opens, edits>>
\* a backup is trusted when it opens, passes quick_check and has as many rows
BackupExists == backup.is # "none"
BackupIsValid == /\ backup.is = "whole"
                 /\ Cardinality(DOMAIN backup.rows) = Cardinality(DOMAIN vfile.rows)
Check ==
  /\ opening = "check"
  /\ IF BackupIsValid THEN opening' = "begin" /\ UNCHANGED <<scratch, edited>>
     ELSE opening' = "vacuum" /\ scratch' = NoFile /\ edited' = FALSE
  /\ UNCHANGED <<vfile, backup, work, vpool, origin, opens, edits>>
Vacuum ==
  /\ opening = "vacuum" /\ opening' = "rename" /\ scratch' = Whole(vfile.rows)
  /\ UNCHANGED <<vfile, backup, work, vpool, origin, edited, opens, edits>>
Publish ==
  /\ opening = "rename" /\ opening' = "begin" /\ backup' = scratch /\ scratch' = NoFile
  /\ UNCHANGED <<vfile, work, vpool, origin, edited, opens, edits>>
\* the rows in order of rowid, encoded as blobs; a corrupt one is skipped.  A vectors
\* table the fresh path left is empty
CopyRows ==
  /\ opening = "begin" /\ opening' = "commit"
  /\ work' = [i \in DOMAIN vfile.rows \ CorruptRows |-> vfile.rows[i]]
  /\ UNCHANGED <<vfile, backup, scratch, vpool, origin, edited, opens, edits>>
CommitMigration ==
  /\ opening = "commit" /\ opening' = "idle" /\ vpool' = TRUE /\ origin' = vfile.rows
  /\ vfile' = [version |-> 1, vectors |-> "blob", collections |-> "model", rows |-> work]
  /\ work' = <<>>
  /\ UNCHANGED <<backup, scratch, edited, opens, edits>>
\* an error of any step: the lock is released, the transaction rolled back, no pool
Fails ==
  /\ opening # "idle" /\ opening' = "idle" /\ work' = <<>>
  /\ scratch' \in IF opening = "vacuum" THEN {scratch, Torn} ELSE {scratch}
  /\ UNCHANGED <<vfile, backup, vpool, origin, edited, opens, edits>>
MigrateCrash ==
  /\ opening' = "idle" /\ work' = <<>> /\ vpool' = FALSE
  /\ scratch' \in IF opening = "vacuum" THEN {scratch, Torn} ELSE {scratch}
  /\ UNCHANGED <<vfile, backup, origin, edited, opens, edits>>
\* an older program, run in between, adds or rewrites a row of a v0 file
OldWrite(i) ==
  /\ opening = "idle" /\ ~vpool /\ vfile.version = 0 /\ vfile.vectors = "json"
  /\ edits < MaxEdits /\ edits' = edits + 1
  /\ vfile' = [vfile EXCEPT !.rows = [j \in DOMAIN @ \cup {i} |-> IF j = i THEN edits' ELSE @[j]]]
  /\ edited' = (edited \/ backup.is = "whole")
  /\ UNCHANGED <<backup, scratch, opening, work, vpool, origin, opens>>

MigrateNext ==
  \/ Open \/ CreateCollections \/ CreateVectors \/ SetVersion
  \/ Check \/ Vacuum \/ Publish \/ CopyRows \/ CommitMigration
  \/ Fails \/ MigrateCrash \/ \E i \in FileRows : OldWrite(i)
MigrateSpec == MigrateInit /\ [][MigrateNext]_migrateVars
-----------------------------------------------------------------------------
(* The migration may be cut short anywhere and begun again.  Requests are     *)
(* served only from a file of the current schema; and once a v0 file has been *)
(* migrated every row it had is in the new table or, when it was corrupt, in  *)
(* a whole backup, unless the older program wrote to the file after the       *)
(* backup was made.                                                           *)
MigrateInv ==
  /\ vpool \/ vfile.version = 1 =>
       vfile.version = 1 /\ vfile.vectors = "blob" /\ vfile.collections = "model"
  /\ vfile.version = 1 => \A i \in DOMAIN origin :
       \/ i \in DOMAIN vfile.rows /\ vfile.rows[i] = origin[i]
       \/ edited
       \/ backup.is = "whole" /\ i \in DOMAIN backup.rows /\ backup.rows[i] = origin[i]
\* No model's vector is compared with another model's, the cache holds what the
\* file holds, and a migration loses no row.
VectorsInv == VectorInv /\ MigrateInv
=============================================================================
