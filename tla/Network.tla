------------------------------ MODULE Network ------------------------------
(* The network plugin: http_request for other plugins, one task per         *)
(* request.  A per-caller cap (accept in the loop, acquire in the task), a  *)
(* response cache, cookie jars, retries, redirects, the address policy, and *)
(* streaming requests whose caller may close them at any time.              *)
(*                                                                          *)
(* A request is a record: caller, action, whether its body fields are       *)
(* consistent, the hosts its redirects lead through (chain), and the        *)
(* options.  A host is a literal address or a name; what a name resolves to *)
(* is chosen anew at every resolution.  An outcome is "ok", "busy" (429 or  *)
(* 5xx), "notfound" (another error status), "redirect", "transient" or      *)
(* "fatal" (no response; worth a retry or not).                             *)
EXTENDS Naturals, FiniteSets, Sequences, FiniteSetsExt, SequencesExt

CONSTANTS TaskIds,         \* request ids
          HttpRequests,    \* requests that may arrive
          NetCallers, Hosts, \* Hosts: [name, lit: BOOLEAN, ips: a set of addresses]
          Builtin,         \* addresses is_blocked_ip knows
          BlockList, AllowList,    \* of the operator: addresses and names
          HttpLimit,       \* NETWORK_PLUGIN_MAX_INFLIGHT_PER_CALLER
          HttpRetries, HttpRedirects, CacheEntries, CacheBytes,
          HttpTime, HttpChunks, HttpKinds, None

VARIABLES netTask,   \* per request: where its task is and what it holds
          active,    \* Inflight.active
          streams,   \* requests with a cancel switch registered
          cancelled, \* switches that were used
          closed,    \* sessions closed by their caller
          cache, total, jars, stats, contacted,
          frames,    \* what was sent for a request, in order
          netNow

NetworkAssumption ==
  /\ IsFiniteSet(TaskIds) /\ IsFiniteSet(NetCallers)
  /\ \A r \in HttpRequests : /\ r.caller \in NetCallers /\ r.chain \in Seq(Hosts) /\ r.chain # <<>>
                              /\ r.action \in {"http", "stream", "stats", "unknown"}
                              /\ r.ttl \in Nat /\ r.size \in Nat
  /\ HttpKinds \subseteq {"ok", "busy", "notfound", "transient", "fatal"}
  /\ HttpLimit \in Nat /\ CacheEntries \in Nat /\ CacheBytes \in Nat /\ HttpTime \in Nat
ASSUME NetworkBounds == NetworkAssumption

networkVars == <<netTask, active, streams, cancelled, closed, cache, total, jars,
                 stats, contacted, frames, netNow>>

CacheKey(r) == <<r.caller, r.chain[1], r.body>>
Fresh == [pc |-> "idle", req |-> None, hop |-> 1, attempt |-> 0,
          set |-> FALSE, att |-> None, status |-> "none", end |-> "none",
          hit |-> None]
Is(t, pc) == netTask[t].pc = pc
Caller(t) == netTask[t].req.caller
\* tasks that hold an InflightSlot
Holding == {t \in TaskIds : netTask[t].pc \in
              {"lookup", "precheck", "fetch", "accept", "body", "end"}}

-----------------------------------------------------------------------------
(* Validation and policy *)

PartOk(p) == p \in {"value", "file", "badfile"}   \* one of value and file_base64
ValidMultipart(r) == \A p \in r.parts : PartOk(p)
\* parse_request: method, url and scheme, one kind of body, caps
ParseOk(r) == /\ r.wellformed
              /\ ~(r.text /\ r.b64)
              /\ r.parts # {} => ~r.text /\ ~r.b64 /\ ValidMultipart(r)
\* build_request: what only shows when the body is decoded
BuildOk(r) == r.decodes /\ "badfile" \notin r.parts
Retries(r) == Min({r.retries, HttpRetries})
Redirects(r) == IF r.follow THEN Min({r.redirects, HttpRedirects}) ELSE 0

\* the policy for one address of a host; a name counts where it was resolved
Permits(h, ip) == /\ ip \notin BlockList
                  /\ IF AllowList # {}
                     THEN ip \in AllowList \/ (~h.lit /\ h.name \in AllowList)
                     ELSE ip \notin Builtin
LiteralOk(h) == h.lit => \A ip \in h.ips : Permits(h, ip)
\* filter_allowed_addrs and the name check before it
Resolve(h, found) == IF h.name \in BlockList THEN {}
                     ELSE {ip \in found : Permits(h, ip)}
Answers(h) == SUBSET h.ips
\* mistake: only the first check looks at the policy
ReachAny(h, found) == IF h.lit THEN h.ips ELSE found
\* addresses a connection to h may reach (a literal never meets the resolver)
Reach(h, found) == IF h.lit THEN h.ips ELSE Resolve(h, found)

IsCacheable(s) == s = "ok"
IsRetryable(s) == s \in {"busy", "transient"}
IsError(s) == s \in {"busy", "transient", "fatal", "notfound"}

-----------------------------------------------------------------------------
(* The response cache *)

CacheGet(k) == IF k \in DOMAIN cache /\ netNow <= cache[k].expires
               THEN cache[k] ELSE None
\* the sum of the sizes of the entries
Bytes(c) == Cardinality(UNION {{k} \X (1..c[k].size) : k \in DOMAIN c})
Fits(c, n) == Cardinality(DOMAIN c) <= CacheEntries /\ n <= CacheBytes
\* drop an oldest entry (any of them) until the bounds hold
EvictTo(c, n, drop) ==
  /\ drop \subseteq DOMAIN c
  /\ LET keep == DOMAIN c \ drop IN
     /\ \A k \in drop, j \in keep : c[k].at <= c[j].at
     /\ cache' = [k \in keep |-> c[k]]
     /\ total' = n - Bytes([k \in drop |-> c[k]])
     /\ Fits(cache', total')
     /\ drop # {} =>
          \E k \in drop : /\ \A j \in drop : c[j].at <= c[k].at
                          /\ ~Fits([j \in keep \cup {k} |-> c[j]],
                                   total' + c[k].size)
CachePut(k, e) ==
  IF e.size > CacheBytes THEN UNCHANGED <<cache, total>>
  ELSE LET old == IF k \in DOMAIN cache THEN cache[k].size ELSE 0
           c == [j \in DOMAIN cache \cup {k} |-> IF j = k THEN e ELSE cache[j]]
       IN \E drop \in SUBSET DOMAIN c : EvictTo(c, total - old + e.size, drop)

-----------------------------------------------------------------------------
NetworkInit ==
  /\ netTask = [t \in TaskIds |-> Fresh]
  /\ active = [c \in NetCallers |-> 0]
  /\ streams = {} /\ cancelled = {} /\ closed = {}
  /\ cache = <<>> /\ total = 0
  /\ jars = [c \in NetCallers |-> [h \in Hosts |-> None]]
  /\ stats = [c \in NetCallers |-> [requests |-> 0, errors |-> 0]]
  /\ contacted = {}
  /\ frames = [t \in TaskIds |-> <<>>]
  /\ netNow = 0

Go(t, pc) == netTask' = [netTask EXCEPT ![t].pc = pc]
SetTask(t, k) == netTask' = [netTask EXCEPT ![t] = k]
EndTask(t, how) == SetTask(t, [netTask[t] EXCEPT !.pc = "end", !.end = how])
Send(t, f) == frames' = [frames EXCEPT ![t] = Append(@, f)]
KeepStores == UNCHANGED <<cache, total, jars, stats>>
KeepStreams == UNCHANGED <<streams, cancelled, closed>>

AtCap(c) == HttpLimit > 0 /\ active[c] >= HttpLimit
\* requests that use the network; the others are never capped
Capped(r) == r.action \in {"http", "stream", "unknown"}

\* accept, in the loop: a caller at its cap is refused before a task exists
Accept(t) ==
  /\ Is(t, "idle")
  /\ \E r \in HttpRequests :
       LET refused == Capped(r) /\ AtCap(r.caller) IN
       /\ SetTask(t, [netTask[t] EXCEPT !.req = r, !.pc = IF refused THEN "done" ELSE "spawned"])
       /\ IF refused THEN Send(t, "error") ELSE UNCHANGED frames
  /\ KeepStores /\ KeepStreams /\ UNCHANGED <<active, contacted, netNow>>

\* on_action_stream / on_action up to the check inside acquire
OnHttpAction(t) ==
  /\ Is(t, "spawned")
  /\ LET r == netTask[t].req IN
     \/ /\ r.action \in {"stats", "unknown"}
        /\ Go(t, "done")
        /\ Send(t, IF r.action = "stats" THEN "reply" ELSE "error")
     \/ /\ r.action \in {"http", "stream"} /\ AtCap(r.caller)
        /\ Go(t, "done") /\ Send(t, "error")
     \/ /\ r.action \in {"http", "stream"} /\ ~AtCap(r.caller)
        /\ Go(t, "checked") /\ UNCHANGED frames
  /\ KeepStores /\ KeepStreams /\ UNCHANGED <<active, contacted, netNow>>

\* the second half of acquire takes the lock again: the count may have moved
Acquire(t) ==
  /\ Is(t, "checked")
  /\ active' = IF HttpLimit > 0 THEN [active EXCEPT ![Caller(t)] = @ + 1] ELSE active
  /\ LET r == netTask[t].req IN
     IF ~ParseOk(r) THEN EndTask(t, "fatal")
     ELSE Go(t, IF r.action = "http" /\ r.ttl > 0 THEN "lookup" ELSE "precheck")
  /\ KeepStores /\ KeepStreams /\ UNCHANGED <<contacted, frames, netNow>>

\* run_http_request: a fresh entry answers without touching the network
CacheLookup(t) ==
  /\ Is(t, "lookup")
  /\ LET e == CacheGet(CacheKey(netTask[t].req)) IN
     IF e = None THEN Go(t, "precheck")
     ELSE SetTask(t, [netTask[t] EXCEPT !.pc = "end", !.end = "ok", !.hit = e])
  /\ KeepStores /\ KeepStreams /\ UNCHANGED <<active, contacted, frames, netNow>>

\* precheck_host, then the snapshot of the caller's cookies for the host
Precheck(t) ==
  /\ Is(t, "precheck")
  /\ LET r == netTask[t].req h == netTask[t].req.chain[1] IN
     \E found \in Answers(h) :
       IF LiteralOk(h) /\ (h.lit \/ Resolve(h, found) # {})
       THEN SetTask(t, [netTask[t] EXCEPT !.pc = "fetch",
                      !.att = IF r.cookies /\ r.action = "http"
                              THEN jars[r.caller][h] ELSE None])
       ELSE EndTask(t, "fatal")
  /\ KeepStores /\ KeepStreams /\ UNCHANGED <<active, contacted, frames, netNow>>

\* what an attempt ends with; a transient failure or a busy server is tried
\* again from the first hop while retries are left (fetch_with_stats)
NoResponse == {"transient", "fatal"}
Settle(t, s) ==
  LET k == netTask[t]
      seen == [k EXCEPT !.status = s, !.set = k.set \/ s \notin NoResponse]
      next == CASE k.req.action = "stream" /\ s \notin NoResponse ->
                     [seen EXCEPT !.pc = "accept"]
                [] k.req.action = "http" /\ IsRetryable(s)
                   /\ k.attempt < Retries(k.req) ->
                     [seen EXCEPT !.attempt = k.attempt + 1, !.hop = 1]
                [] OTHER -> [seen EXCEPT !.pc = "end", !.end = s]
  IN SetTask(t, next)

\* one hop of one attempt: connect, then redirect or answer (fetch_once,
\* open_stream, redirect_policy)
FetchHop(t) ==
  /\ Is(t, "fetch")
  /\ LET k == netTask[t]  chain == k.req.chain  h == chain[k.hop] IN
     \E found \in Answers(h) :
       LET ips == IF BuildOk(k.req) THEN Reach(h, found) ELSE {} IN
       /\ contacted' = contacted \cup ({h} \X ips)
       /\ \/ ips = {} /\ Settle(t, IF BuildOk(k.req) THEN "transient" ELSE "fatal")
          \/ /\ ips # {} /\ k.hop < Len(chain)
             /\ IF k.hop > Redirects(k.req) THEN Settle(t, "redirect")
                ELSE IF LiteralOk(chain[k.hop + 1])
                     THEN netTask' = [netTask EXCEPT ![t].hop = @ + 1]
                     ELSE Settle(t, "fatal")
          \/ /\ ips # {} /\ k.hop = Len(chain)
             /\ \E s \in HttpKinds : Settle(t, s)
  /\ KeepStores /\ KeepStreams /\ UNCHANGED <<active, frames, netNow>>

\* run_stream: register the switch, then accept with the head (which may fail)
StreamAccept(t) ==
  /\ Is(t, "accept")
  /\ streams' = streams \cup {t}
  /\ \/ Go(t, "body") /\ Send(t, "accept")
     \/ EndTask(t, "fatal") /\ UNCHANGED frames
  /\ KeepStores /\ UNCHANGED <<active, cancelled, closed, contacted, netNow>>

\* one round of run_stream's select: a used switch, a chunk, or an end
StreamBody(t) ==
  /\ Is(t, "body")
  /\ \/ t \in cancelled /\ EndTask(t, "cancelled") /\ UNCHANGED frames
     \/ /\ Len(frames[t]) <= HttpChunks
        /\ Send(t, "chunk") /\ UNCHANGED netTask
     \/ \E s \in {"ok", "transient", "fatal"} : EndTask(t, s) /\ UNCHANGED frames
  /\ KeepStores /\ KeepStreams /\ UNCHANGED <<active, contacted, netNow>>

\* on_message(SessionClose): the caller stops a stream that was accepted
SessionClose(t) ==
  /\ "accept" \in Range(frames[t]) /\ t \notin closed
  /\ closed' = closed \cup {t}
  /\ streams' = streams \ {t}
  /\ cancelled' = IF t \in streams THEN cancelled \cup {t} ELSE cancelled
  /\ KeepStores /\ UNCHANGED <<netTask, active, contacted, frames, netNow>>

Count(c, bad) ==
  [stats EXCEPT ![c] = [requests |-> stats[c].requests + 1,
                        errors |-> stats[c].errors + (IF bad THEN 1 ELSE 0)]]
Release(c) == [active EXCEPT ![c] = IF HttpLimit > 0 THEN @ - 1 ELSE @]

\* mistake: a cancelled stream keeps its slot, and its switch
StreamFinishKept(t) ==
  /\ Is(t, "end") /\ netTask[t].req.action = "stream"
  /\ LET k == netTask[t] IN
     /\ stats' = Count(k.req.caller, IsError(k.end) \/ IsError(k.status))
     /\ active' = IF k.end = "cancelled" THEN active ELSE Release(k.req.caller)
     /\ frames' = IF k.end = "cancelled" THEN frames
                  ELSE [frames EXCEPT ![t] = Append(@, "close")]
     /\ Go(t, "done")
  /\ UNCHANGED <<streams, cancelled, closed, cache, total, jars, contacted, netNow>>
\* the ends: jar and cache (http only), counters, the slot's drop, the reply
Finish(t) ==
  /\ Is(t, "end") /\ netTask[t].req.action = "http"
  /\ LET k == netTask[t]  r == k.req  h == r.chain[1]
     IN
     /\ jars' = IF ~(k.set /\ r.cookies) THEN jars
                ELSE [jars EXCEPT ![r.caller] = [jars[r.caller] EXCEPT ![h] = t]]
     /\ IF k.hit = None /\ r.ttl > 0 /\ IsCacheable(k.end)
        THEN CachePut(CacheKey(r), [at |-> netNow, expires |-> netNow + r.ttl,
                               size |-> r.size, by |-> t])
        ELSE UNCHANGED <<cache, total>>
     /\ stats' = Count(r.caller, IsError(k.end))
     /\ active' = Release(r.caller)
     /\ Send(t, IF k.end \in NoResponse THEN "error" ELSE "reply")
     /\ Go(t, "done")
  /\ KeepStreams /\ UNCHANGED <<contacted, netNow>>

\* stream_http_request after run_stream: nothing more for a cancelled session
StreamFinish(t) ==
  /\ Is(t, "end") /\ netTask[t].req.action = "stream"
  /\ LET k == netTask[t] IN
     /\ streams' = streams \ {t}
     /\ stats' = Count(k.req.caller, IsError(k.end) \/ IsError(k.status))
     /\ active' = Release(k.req.caller)
     /\ frames' = [frames EXCEPT ![t] =
          CASE k.end = "cancelled" -> @
            [] k.end = "ok" -> Append(@, "close")
            [] OTHER -> Append(@, "error")]
     /\ Go(t, "done")
  /\ UNCHANGED <<cancelled, closed, cache, total, jars, contacted, netNow>>

NetworkTick ==
  /\ netNow < HttpTime /\ netNow' = netNow + 1
  /\ \E t \in TaskIds : netTask[t].pc # "done"
  /\ UNCHANGED <<netTask, active, streams, cancelled, closed, cache, total,
                 jars, stats, contacted, frames>>

NetworkStep(t) ==
  \/ Accept(t) \/ OnHttpAction(t) \/ Acquire(t) \/ CacheLookup(t)
  \/ Precheck(t) \/ FetchHop(t) \/ StreamAccept(t) \/ StreamBody(t)
  \/ SessionClose(t) \/ Finish(t) \/ StreamFinish(t)
NetworkNext == (\E t \in TaskIds : NetworkStep(t)) \/ NetworkTick
NetworkSpec == NetworkInit /\ [][NetworkNext]_networkVars

-----------------------------------------------------------------------------
NetworkTypeOK ==
  /\ \A t \in TaskIds : netTask[t].pc \in
       {"idle", "spawned", "checked", "lookup", "precheck", "fetch", "accept",
        "body", "end", "done"}
  /\ active \in [NetCallers -> 0..Cardinality(TaskIds)]
  /\ streams \cup cancelled \cup closed \subseteq TaskIds
  /\ total \in 0..CacheBytes /\ netNow \in 0..HttpTime

\* Every slot is given back on every way out: a caller's count is the number
\* of its requests that are between acquire and the drop of the guard.
SlotsExact == HttpLimit > 0 => \A c \in NetCallers :
  active[c] = Cardinality({t \in Holding : Caller(t) = c})
\* network_stats counts each request that got a slot once, when it ends.
StatsExact == \A c \in NetCallers :
  stats[c].requests =
    Cardinality({t \in TaskIds : Is(t, "done") /\ netTask[t].end # "none"
                               /\ Caller(t) = c})
\* The byte count follows the entries through replacement and eviction, and
\* a hit or an attached cookie was stored by the same caller's request.
CacheExact ==
  /\ total = Bytes(cache) /\ Fits(cache, total)
  /\ \A t \in TaskIds : LET k == netTask[t] IN
       /\ k.hit # None => /\ CacheKey(netTask[k.hit.by].req) = CacheKey(k.req)
                          /\ netTask[k.hit.by].end = "ok"
       /\ k.att # None => Caller(k.att) = Caller(t)
\* No connection of any hop or retry reaches an address the policy forbids,
\* whatever names resolve to after the first check.
ContactsPermitted == \A c \in contacted : Permits(c[1], c[2])

Terminal == {"close", "error", "reply"}
\* A stream's frames are an acceptance, chunks and one end, the end is
\* missing only when its caller closed it, and no cancel switch outlives its
\* task.
StreamsOrderly == \A t \in TaskIds :
  /\ t \in streams => netTask[t].pc \in {"body", "end"}
  /\ \A i \in DOMAIN frames[t] :
       /\ frames[t][i] \in Terminal => i = Len(frames[t]) /\ Is(t, "done")
       /\ frames[t][i] = "chunk" => i > 1 /\ frames[t][1] = "accept"
  /\ Is(t, "done") /\ t \notin closed =>
       frames[t] # <<>> /\ Last(frames[t]) \in Terminal
  /\ netTask[t].end = "cancelled" => t \in closed

\* Requests leave only for addresses the operator allows, a caller's slots are
\* freed on every way out, and the frames of a stream are sent whole and in order.
NetworkInv == SlotsExact /\ StatsExact /\ CacheExact /\ ContactsPermitted /\ StreamsOrderly
=============================================================================
