------------------------------- MODULE Monitors -------------------------------
(* What watches: uptime, rss and metrics.                                   *)
(* The parts share no state; each has its own initial states and steps.     *)
EXTENDS Integers, Sequences, FiniteSets, SequencesExt

\* the order of the database's string keys, for ids below 100: "10" before "9"
KeyRank(i) == IF i < 10 THEN 20 * i ELSE 2 * i + 1
\* the sort of a trim: by time stamp alone, and stable over the keys' order
Before(stamps, i, j) == \/ stamps[i] < stamps[j]
                        \/ stamps[i] = stamps[j] /\ KeyRank(i) < KeyRank(j)
Newer(i, ts, d) == ts > d.ts \/ (ts = d.ts /\ KeyRank(i) > KeyRank(d.id))
NewestFirst(stamps, n) == SubSeq(SetToSortSeq(DOMAIN stamps, LAMBDA i, j : Before(stamps, j, i)),
                                 1, Cardinality(DOMAIN stamps) - n)
\* what a trim down to the newest n takes
TooMany(stamps, n) == SubSeq(SetToSortSeq(DOMAIN stamps, LAMBDA i, j : Before(stamps, i, j)),
                             1, Cardinality(DOMAIN stamps) - n)

-----------------------------------------------------------------------------
(* uptime: the watched targets, the outage state of each and the background   *)
(* scan that checks them.  Requests and scans are tasks of their own, so a    *)
(* scan that outlasts the interval runs beside the next one.                  *)

CONSTANTS Utasks, Urls,
          Watched,              \* urls of the targets a database may hold at the start, a sequence
          Numbered,             \* ids given out before: to checks, and to samples of metrics
          Stamps,               \* what the system clock may say, in any order
          Threshold,            \* fail_threshold
          MaxChecks,            \* max_checks
          MaxTargets,           \* bound of the targets added
          MaxRuns, MaxFaults    \* bounds; a target held at the start counts as a run
VARIABLES targets,     \* id -> url
          outages,     \* id -> [streak, alerting], the state: keys
          checks,      \* id -> time stamp, the stored checks
          ids,         \* [t, c]: the counters of target and check ids
          utask,       \* task -> the request or scan it runs
          gone,        \* ids uptime_remove deleted
          failed,      \* id -> failed background checks so far
          alarmed,     \* ids with a check_failed published since their last good check
          doubled,     \* check_failed published twice in one outage
          early,       \* check_failed published before Threshold failures
          told,        \* ids whose stored outage has been announced
          unsaid,      \* ids whose event a failed or lost call, or a crash, has dropped
          overlapped,  \* two scans ran at once
          uruns, ufaults
uptimeVars == <<targets, outages, checks, ids, utask, gone, failed, alarmed, doubled, early, told, unsaid, overlapped, uruns, ufaults>>

Idle == [op |-> "idle", todo |-> <<>>, states |-> <<>>, ok |-> FALSE, st |-> <<>>, ev |-> "", events |-> <<>>, url |-> "", id |-> 0, at |-> 0, surplus |-> <<>>]
Healthy == [streak |-> 0, alerting |-> FALSE]
Sorted(S) == SetToSortSeq(S, <)
\* the database of an earlier run: its targets without an outage, the last checks
UptimeInit == /\ targets \in {<<>>, Watched} /\ outages = <<>>
              /\ ids = [t |-> Len(targets), c |-> Numbered]
              /\ checks = [n \in (Numbered - MaxChecks + 1)..Numbered |-> CHOOSE m \in Stamps : TRUE]
              /\ utask = [k \in Utasks |-> Idle] /\ gone = {} /\ failed = [i \in 1..MaxTargets + Len(Watched) |-> 0] /\ alarmed = {}
              /\ doubled = FALSE /\ early = FALSE /\ told = {} /\ unsaid = {}
              /\ overlapped = FALSE
              /\ uruns = Len(targets) /\ ufaults = 0
Without(f, i) == [j \in DOMAIN f \ {i} |-> f[j]]
With(f, i, v) == [j \in DOMAIN f \cup {i} |-> IF j = i THEN v ELSE f[j]]
news == <<told, unsaid>>
history == <<gone, failed, alarmed, doubled, early, news>>
\* the outages a scan has still to announce, and what is left unsaid when it ends
Pending(t) == {e.id : e \in {t.events[n] : n \in {m \in DOMAIN t.events : t.events[m].type = "check_failed"}}}
Abandoned(t) == unsaid' = unsaid \cup Pending(t) /\ UNCHANGED told
Goto(k, r) == utask' = [utask EXCEPT ![k] = r]
End(k) == Goto(k, Idle)
\* a database call: carried out, carried out with the answer lost, or failed
Outcome(o) == /\ o # "ok" => ufaults < MaxFaults
              /\ ufaults' = IF o = "ok" THEN ufaults ELSE ufaults + 1
Done(o) == o \in {"ok", "late"}
-----------------------------------------------------------------------------
Scanning(t) == t.url = "" /\ t.op \notin {"idle", "remove", "forget"}
\* serve: a request or the interval's tick becomes a task
Launch(k, r) ==
  /\ utask[k].op = "idle" /\ uruns < MaxRuns /\ uruns' = uruns + 1 /\ Goto(k, r)
  /\ overlapped' = (overlapped \/ (r.op = "scan" /\ \E j \in Utasks : Scanning(utask[j])))
  /\ UNCHANGED <<targets, outages, checks, ids, history, ufaults>>
Request(k) == \/ \E u \in Urls : Launch(k, [Idle EXCEPT !.op = "add", !.url = u])
              \/ \E i \in 1..ids.t : Launch(k, [Idle EXCEPT !.op = "remove", !.id = i])
              \/ \E u \in Urls : Launch(k, [Idle EXCEPT !.op = "probe", !.url = u])
Tick(k) == Launch(k, [Idle EXCEPT !.op = "scan"])

\* uptime_add: a listed url is answered with its target; then an id, then the record
Add(k, o) ==
  /\ utask[k].op = "add" /\ Outcome(o)
  /\ IF o # "ok" \/ \E i \in DOMAIN targets : targets[i] = utask[k].url THEN End(k)
     ELSE Goto(k, [utask[k] EXCEPT !.op = "id"])
  /\ UNCHANGED <<targets, outages, checks, ids, history, overlapped, uruns>>
NewId(k, o) ==
  /\ utask[k].op = "id" /\ ids.t < MaxTargets /\ Outcome(o)
  /\ ids' = IF Done(o) THEN [ids EXCEPT !.t = @ + 1] ELSE ids
  /\ IF o = "ok" THEN Goto(k, [utask[k] EXCEPT !.op = "put", !.id = ids.t + 1]) ELSE End(k)
  /\ UNCHANGED <<targets, outages, checks, history, overlapped, uruns>>
PutTarget(k, o) ==
  /\ utask[k].op = "put" /\ Outcome(o) /\ End(k)
  /\ targets' = IF Done(o) THEN With(targets, utask[k].id, utask[k].url) ELSE targets
  /\ UNCHANGED <<outages, checks, ids, history, overlapped, uruns>>
\* uptime_remove: the target, then, whatever comes of it, its state
RemoveTarget(k, o) ==
  /\ utask[k].op = "remove" /\ Outcome(o)
  /\ targets' = IF Done(o) THEN Without(targets, utask[k].id) ELSE targets
  /\ gone' = IF Done(o) /\ utask[k].id \in DOMAIN targets THEN gone \cup {utask[k].id} ELSE gone
  /\ IF o = "ok" THEN Goto(k, [utask[k] EXCEPT !.op = "forget"]) ELSE End(k)
  /\ UNCHANGED <<outages, checks, ids, failed, alarmed, doubled, early, news, overlapped, uruns>>
Forget(k, o) ==
  /\ utask[k].op = "forget" /\ Outcome(o) /\ End(k)
  /\ outages' = IF Done(o) THEN Without(outages, utask[k].id) ELSE outages
  /\ UNCHANGED <<targets, checks, ids, history, overlapped, uruns>>

\* scan_all: the targets and then all states are read before the first check
ScanTargets(k, o) ==
  /\ utask[k].op = "scan" /\ Outcome(o)
  /\ IF o # "ok" THEN End(k)
     ELSE Goto(k, [utask[k] EXCEPT !.op = "states", !.todo = Sorted(DOMAIN targets)])
  /\ UNCHANGED <<targets, outages, checks, ids, history, overlapped, uruns>>
ScanStates(k, o) ==
  /\ utask[k].op = "states" /\ Outcome(o)
  /\ IF o # "ok" THEN End(k) ELSE Goto(k, [utask[k] EXCEPT !.op = "probe", !.states = outages])
  /\ UNCHANGED <<targets, outages, checks, ids, history, overlapped, uruns>>
\* do_check: a 2xx answer is good; uptime_check asks about a url, a scan about its next target
Probe(k, ok) ==
  /\ utask[k].op = "probe" /\ (utask[k].todo # <<>> \/ utask[k].url # "")
  /\ Goto(k, [utask[k] EXCEPT !.op = "number", !.ok = ok])
  /\ IF utask[k].url # "" THEN UNCHANGED <<failed, alarmed>>
     ELSE LET i == Head(utask[k].todo) IN
          /\ failed' = IF ok THEN failed ELSE [failed EXCEPT ![i] = @ + 1]
          /\ alarmed' = IF ok THEN alarmed \ {i} ELSE alarmed
  /\ UNCHANGED <<targets, outages, checks, ids, gone, doubled, early, news, overlapped, uruns, ufaults>>
\* advance: the state one check on, and the event of a transition
Advance(st, ok) ==
  IF ok THEN [st |-> Healthy, ev |-> IF st.alerting THEN "recovered" ELSE ""]
  ELSE LET n == st.streak + 1 IN
       LET fires == ~st.alerting /\ n >= Threshold IN
       [st |-> [streak |-> n, alerting |-> st.alerting \/ fires], ev |-> IF fires THEN "check_failed" ELSE ""]
\* next_id, then the clock is read; a failure abandons the scan with the events
\* it has gathered
NumberCheck(k, o, now) ==
  /\ utask[k].op = "number" /\ Outcome(o) /\ (o # "ok" => now = 0) /\ (o = "ok" => now \in Stamps)
  /\ ids' = IF Done(o) THEN [ids EXCEPT !.c = @ + 1] ELSE ids
  /\ IF o # "ok" THEN Abandoned(utask[k]) ELSE UNCHANGED news
  /\ LET t == [utask[k] EXCEPT !.id = ids.c + 1, !.at = now] IN
     IF o # "ok" THEN End(k)
     ELSE IF t.url # "" THEN Goto(k, [t EXCEPT !.op = "log", !.ev = IF t.ok THEN "" ELSE "check_failed"])
     ELSE LET i == Head(t.todo) IN
          LET before == IF i \in DOMAIN t.states THEN t.states[i] ELSE Healthy IN
          LET next == Advance(before, t.ok) IN
          Goto(k, [t EXCEPT !.op = IF next.st = before THEN "log" ELSE "save", !.st = next.st, !.ev = next.ev])
  /\ UNCHANGED <<targets, outages, checks, gone, failed, alarmed, doubled, early, overlapped, uruns>>
\* put_state before the event is kept: a failed write drops the event
StateSaved(k, o) ==
  LET t == utask[k]
      i == Head(t.todo)
  IN /\ utask[k].op = "save" /\ Outcome(o)
     /\ outages' = IF Done(o) THEN With(outages, i, t.st) ELSE outages
     /\ told' = IF Done(o) /\ ~t.st.alerting THEN told \ {i} ELSE told
     /\ unsaid' = IF Done(o) /\ ~t.st.alerting THEN unsaid \ {i}
                  ELSE IF o = "late" /\ t.ev # "" THEN unsaid \cup {i} ELSE unsaid
     /\ UNCHANGED <<targets, checks, ids, gone, failed, alarmed, doubled, early, overlapped, uruns>>
SaveAnyway(k, o) == StateSaved(k, o) /\ Goto(k, [utask[k] EXCEPT !.op = "log"])
SaveState(k, o) ==
  StateSaved(k, o) /\ Goto(k, [utask[k] EXCEPT !.op = "log", !.ev = IF o = "ok" THEN @ ELSE ""])
\* put_check, best effort
LogCheck(k, o) ==
  /\ utask[k].op = "log" /\ Outcome(o)
  /\ checks' = IF Done(o) THEN With(checks, utask[k].id, utask[k].at) ELSE checks
  /\ LET t == utask[k] IN
     IF t.url # "" THEN Goto(k, [t EXCEPT !.op = "trim"])
     ELSE Goto(k, [t EXCEPT !.op = "probe", !.todo = Tail(@),
                            !.events = IF t.ev = "" THEN @ ELSE Append(@, [id |-> Head(t.todo), type |-> t.ev])])
  /\ UNCHANGED <<targets, outages, ids, history, overlapped, uruns>>
\* trim_checks: the oldest beyond max_checks, deleted one by one up to a failure
Surplus == TooMany(checks, MaxChecks)
Trim(k, o) ==
  /\ utask[k].op = "trim" \/ (utask[k].op = "probe" /\ utask[k].url = "" /\ utask[k].todo = <<>>)
  /\ Outcome(o)
  /\ Goto(k, [utask[k] EXCEPT !.op = "prune", !.surplus = IF o = "ok" THEN Surplus ELSE <<>>])
  /\ UNCHANGED <<targets, outages, checks, ids, history, overlapped, uruns>>
Prune(k, o) ==
  /\ utask[k].op = "prune" /\ utask[k].surplus # <<>> /\ Outcome(o)
  /\ checks' = IF Done(o) THEN Without(checks, Head(utask[k].surplus)) ELSE checks
  /\ Goto(k, [utask[k] EXCEPT !.surplus = IF o = "ok" THEN Tail(@) ELSE <<>>])
  /\ UNCHANGED <<targets, outages, ids, history, overlapped, uruns>>
\* the events of a finished scan go out in order; uptime_check's own is about no target
Publish(k) ==
  /\ utask[k].op = "prune" /\ utask[k].surplus = <<>>
  /\ IF utask[k].events = <<>> THEN End(k) /\ UNCHANGED <<alarmed, doubled, early, told>>
     ELSE LET e == Head(utask[k].events) IN
          /\ Goto(k, [utask[k] EXCEPT !.events = Tail(@)])
          /\ doubled' = (doubled \/ (e.type = "check_failed" /\ e.id \in alarmed))
          /\ early' = (early \/ (e.type = "check_failed" /\ failed[e.id] < Threshold))
          /\ alarmed' = IF e.type = "check_failed" THEN alarmed \cup {e.id} ELSE alarmed
          /\ told' = IF e.type = "check_failed" THEN told \cup {e.id} ELSE told
  /\ UNCHANGED <<targets, outages, checks, ids, gone, failed, unsaid, overlapped, uruns, ufaults>>
\* a crash and restart: every task is gone, the database stays
Carried(t) == Pending(t) \cup IF t.op = "log" /\ t.todo # <<>> /\ t.ev = "check_failed"
                              THEN {Head(t.todo)} ELSE {}
Restart ==
  /\ ufaults < MaxFaults /\ ufaults' = ufaults + 1 /\ utask' = [k \in Utasks |-> Idle]
  /\ unsaid' = unsaid \cup UNION {Carried(utask[k]) : k \in Utasks}
  /\ UNCHANGED <<targets, outages, checks, ids, gone, failed, alarmed, doubled, early, told, overlapped, uruns>>

UptimeNext == \/ \E k \in Utasks : Request(k) \/ Tick(k) \/ Publish(k) \/ \E ok \in BOOLEAN : Probe(k, ok)
              \/ \E k \in Utasks, o \in {"ok", "late", "failed"} :
                   \/ Add(k, o) \/ NewId(k, o) \/ PutTarget(k, o) \/ RemoveTarget(k, o) \/ Forget(k, o)
                   \/ ScanTargets(k, o) \/ ScanStates(k, o) \/ SaveState(k, o)
                   \/ LogCheck(k, o) \/ Trim(k, o) \/ Prune(k, o)
                   \/ \E now \in Stamps \cup {0} : NumberCheck(k, o, now)
              \/ Restart
UptimeSpec == UptimeInit /\ [][UptimeNext]_uptimeVars
-----------------------------------------------------------------------------
(* A scan reads all states first, writes each back and publishes at the end,  *)
(* with removals, failing calls and other scans in between.  A removed target *)
(* never comes back and a new one starts without an outage; no outage is      *)
(* reported before fail_threshold failed checks; unless two scans ran at once *)
(* an outage is reported at most once, whatever writes failed, and one that   *)
(* is stored as alerting was reported, is about to be, or lost its event to a *)
(* call that failed or lost its answer later in the same scan, or to a crash; *)
(* and trimming keeps the newest max_checks checks.                           *)
UptimeInv ==
  /\ gone \cap DOMAIN targets = {}
  /\ \A i \in DOMAIN outages : i \in DOMAIN targets \cup gone
  /\ ~early /\ (~overlapped => ~doubled)
  /\ ~overlapped => \A i \in DOMAIN outages : outages[i].alerting =>
       i \in told \cup unsaid \cup UNION {Carried(utask[k]) : k \in Utasks}
  /\ \A k \in Utasks : LET s == utask[k].surplus IN
       \A j \in DOMAIN s : s[j] \in DOMAIN checks =>
         Cardinality({c \in DOMAIN checks : Before(checks, s[j], c)}) >= MaxChecks

-----------------------------------------------------------------------------
(* rss: feeds, their articles and the fetch that files new ones.  Every       *)
(* request is a task of its own on a database it reaches by calls, so what a  *)
(* fetch has read may be stale when it writes.                                *)

CONSTANTS Rtasks, FeedUrls,
          Channels,        \* what a feed may answer: [title, links]; "" is an item without a link
          MaxFeeds, MaxArticles, MaxAsks, MaxLost    \* bounds
VARIABLES feeds,       \* id -> [url, title]
          articles,    \* id -> [feed, link, read]
          rids,        \* [f, a]: the id counters
          rtask,       \* task -> the request it runs
          removed,     \* ids of feeds whose rss_remove was answered
          twoFetches,  \* two fetches ran at once
          crossed,     \* feeds removed while a fetch or a mark was on its way
          asks, lost
feedsVars == <<feeds, articles, rids, rtask, removed, twoFetches, crossed, asks, lost>>

Free == [op |-> "idle", url |-> "", id |-> 0, rest |-> <<>>, links |-> <<>>, title |-> "", old |-> <<>>, drop |-> {}, read |-> FALSE]
FeedsInit == /\ feeds = <<>> /\ articles = <<>> /\ rids = [f |-> 0, a |-> 0] /\ rtask = [k \in Rtasks |-> Free]
             /\ removed = {} /\ twoFetches = FALSE /\ crossed = {} /\ asks = 0 /\ lost = 0
Set(f, i, v) == [j \in DOMAIN f \cup {i} |-> IF j = i THEN v ELSE f[j]]
Unset(f, i) == [j \in DOMAIN f \ {i} |-> f[j]]
FeedGoto(k, t) == rtask' = [rtask EXCEPT ![k] = t]
\* a call: carried out, carried out with the answer lost, or failed
Call(o) == /\ o # "ok" => lost < MaxLost
           /\ lost' = IF o = "ok" THEN lost ELSE lost + 1
Took(o) == o \in {"ok", "late"}
Fetching(t) == t.op \in {"all", "load", "http", "item", "aid", "file"}
-----------------------------------------------------------------------------
Ask(k, t) ==
  /\ rtask[k].op = "idle" /\ asks < MaxAsks /\ asks' = asks + 1 /\ FeedGoto(k, t)
  /\ twoFetches' = (twoFetches \/ (Fetching(t) /\ \E j \in Rtasks : Fetching(rtask[j])))
  /\ UNCHANGED <<feeds, articles, rids, removed, crossed, lost>>
FeedRequest(k) == \/ \E u \in FeedUrls : Ask(k, [Free EXCEPT !.op = "add", !.url = u])
                  \/ \E i \in 1..rids.f : Ask(k, [Free EXCEPT !.op = "remove", !.id = i]) \/ Ask(k, [Free EXCEPT !.op = "load", !.id = i])
                  \/ Ask(k, [Free EXCEPT !.op = "all"])
                  \/ \E a \in 1..rids.a, b \in BOOLEAN : Ask(k, [Free EXCEPT !.op = "mark", !.id = a, !.read = b])
\* rss_add: list, id, record
AddFeed(k, o) ==
      /\ rtask[k].op = "add" /\ Call(o)
      /\ FeedGoto(k, IF o # "ok" \/ \E i \in DOMAIN feeds : feeds[i].url = rtask[k].url THEN Free ELSE [rtask[k] EXCEPT !.op = "fid"])
      /\ UNCHANGED <<feeds, articles, rids, removed, twoFetches, crossed, asks>>
FeedId(k, o) ==
  /\ rtask[k].op = "fid" /\ rids.f < MaxFeeds /\ Call(o)
  /\ rids' = IF Took(o) THEN [rids EXCEPT !.f = @ + 1] ELSE rids
  /\ FeedGoto(k, IF o = "ok" THEN [rtask[k] EXCEPT !.op = "put", !.id = rids.f + 1] ELSE Free)
  /\ UNCHANGED <<feeds, articles, removed, twoFetches, crossed, asks>>
PutFeed(k, o) ==
  /\ rtask[k].op = "put" /\ Call(o) /\ FeedGoto(k, Free)
  /\ feeds' = IF Took(o) THEN Set(feeds, rtask[k].id, [url |-> rtask[k].url, title |-> rtask[k].url]) ELSE feeds
  /\ UNCHANGED <<articles, rids, removed, twoFetches, crossed, asks>>
\* rss_remove: the feed, then the articles listed after it, best effort
RemoveFeed(k, o) ==
  /\ rtask[k].op = "remove" /\ Call(o)
  /\ LET i == rtask[k].id IN
     /\ feeds' = IF Took(o) THEN Unset(feeds, i) ELSE feeds
     /\ crossed' = IF \E j \in Rtasks : Fetching(rtask[j]) /\ rtask[j].op \notin {"all", "load"} THEN crossed \cup {i} ELSE crossed
     /\ FeedGoto(k, IF o = "ok" /\ i \in DOMAIN feeds THEN [rtask[k] EXCEPT !.op = "sweep"] ELSE Free)
  /\ UNCHANGED <<articles, rids, removed, twoFetches, asks>>
Sweep(k, o) ==
  /\ rtask[k].op = "sweep" /\ Call(o)
  /\ FeedGoto(k, IF o # "ok" THEN Free
                 ELSE [rtask[k] EXCEPT !.op = "purge", !.drop = {a \in DOMAIN articles : articles[a].feed = rtask[k].id}])
  /\ UNCHANGED <<feeds, articles, rids, removed, twoFetches, crossed, asks>>
Purge(k, o) ==
  /\ rtask[k].op = "purge" /\ rtask[k].drop # {} /\ Call(o)
  /\ LET a == Min(rtask[k].drop) IN
     /\ articles' = IF Took(o) THEN Unset(articles, a) ELSE articles
     /\ FeedGoto(k, [rtask[k] EXCEPT !.drop = @ \ {a}])
     /\ crossed' = IF o = "failed" \/ \E j \in Rtasks : rtask[j].op = "marked" /\ rtask[j].id = a THEN crossed \cup {rtask[k].id} ELSE crossed
  /\ UNCHANGED <<feeds, rids, removed, twoFetches, asks>>
Removed(k) ==
  /\ rtask[k].op = "purge" /\ rtask[k].drop = {} /\ FeedGoto(k, Free) /\ removed' = removed \cup {rtask[k].id}
  /\ UNCHANGED <<feeds, articles, rids, twoFetches, crossed, asks, lost>>
\* rss_fetch_all: the feeds as listed now, in order, up to the first failure
FetchAll(k, o) ==
  /\ rtask[k].op = "all" /\ Call(o)
  /\ LET order == SetToSortSeq(DOMAIN feeds, <) IN
     FeedGoto(k, IF o # "ok" \/ feeds = <<>> THEN Free
                 ELSE [rtask[k] EXCEPT !.op = "http", !.rest = [j \in DOMAIN order |-> <<order[j], feeds[order[j]]>>]])
  /\ UNCHANGED <<feeds, articles, rids, removed, twoFetches, crossed, asks>>
LoadFeed(k, o) ==
  /\ rtask[k].op = "load" /\ Call(o)
  /\ LET i == rtask[k].id IN
     FeedGoto(k, IF o = "ok" /\ i \in DOMAIN feeds THEN [rtask[k] EXCEPT !.op = "http", !.rest = <<<<i, feeds[i]>>>>] ELSE Free)
  /\ UNCHANGED <<feeds, articles, rids, removed, twoFetches, crossed, asks>>
\* fetch_feed: a 2xx answer that parses, or the request ends
Http(k, ch) ==
  /\ rtask[k].op = "http" /\ rtask[k].rest # <<>>
  /\ LET i == Head(rtask[k].rest)[1] IN
     FeedGoto(k, [rtask[k] EXCEPT !.op = "item", !.id = i, !.old = Head(rtask[k].rest)[2], !.rest = Tail(@), !.links = ch.links, !.title = ch.title])
  /\ UNCHANGED <<feeds, articles, rids, removed, twoFetches, crossed, asks, lost>>
HttpEnd(k) ==
  /\ rtask[k].op = "http" /\ FeedGoto(k, Free)
  /\ UNCHANGED <<feeds, articles, rids, removed, twoFetches, crossed, asks, lost>>
\* find_article_by_link looks at the articles of every feed
KnownHere(k, link) == \E a \in DOMAIN articles : articles[a].link = link /\ articles[a].feed = rtask[k].id
Known(k, link) == \E a \in DOMAIN articles : articles[a].link = link
Item(k, o) ==
  /\ rtask[k].op = "item" /\ rtask[k].links # <<>> /\ Call(o)
  /\ LET link == Head(rtask[k].links) IN
     FeedGoto(k, IF o # "ok" /\ link # "" THEN Free
                 ELSE IF link = "" \/ Known(k, link) THEN [rtask[k] EXCEPT !.links = Tail(@)] ELSE [rtask[k] EXCEPT !.op = "aid"])
  /\ UNCHANGED <<feeds, articles, rids, removed, twoFetches, crossed, asks>>
ArticleId(k, o) ==
  /\ rtask[k].op = "aid" /\ rids.a < MaxArticles /\ Call(o)
  /\ rids' = IF Took(o) THEN [rids EXCEPT !.a = @ + 1] ELSE rids
  /\ FeedGoto(k, IF o = "ok" THEN [rtask[k] EXCEPT !.op = "file", !.drop = {rids.a + 1}] ELSE Free)
  /\ UNCHANGED <<feeds, articles, removed, twoFetches, crossed, asks>>
File(k, o) ==
  /\ rtask[k].op = "file" /\ Call(o)
  /\ LET a == Min(rtask[k].drop) IN
     articles' = IF Took(o) THEN Set(articles, a, [feed |-> rtask[k].id, link |-> Head(rtask[k].links), read |-> FALSE]) ELSE articles
  /\ FeedGoto(k, IF o = "ok" THEN [rtask[k] EXCEPT !.op = "item", !.links = Tail(@), !.drop = {}] ELSE Free)
  /\ UNCHANGED <<feeds, rids, removed, twoFetches, crossed, asks>>
\* the feed as it was read is written back under its new title, best effort
Retitle(k, o) ==
  /\ rtask[k].op = "item" /\ rtask[k].links = <<>>
  /\ LET t == rtask[k] IN
     IF t.title = "" \/ t.title = t.old.title THEN o = "ok" /\ UNCHANGED <<feeds, lost>>
     ELSE Call(o) /\ feeds' = IF Took(o) THEN Set(feeds, t.id, [t.old EXCEPT !.title = t.title]) ELSE feeds
  /\ FeedGoto(k, [rtask[k] EXCEPT !.op = "http"])
  /\ UNCHANGED <<articles, rids, removed, twoFetches, crossed, asks>>
\* rss_mark_read: the article is read, changed and written back
LoadArticle(k, o) ==
  /\ rtask[k].op = "mark" /\ Call(o)
  /\ FeedGoto(k, IF o = "ok" /\ rtask[k].id \in DOMAIN articles
                 THEN [rtask[k] EXCEPT !.op = "marked", !.old = [articles[rtask[k].id] EXCEPT !.read = rtask[k].read]] ELSE Free)
  /\ UNCHANGED <<feeds, articles, rids, removed, twoFetches, crossed, asks>>
MarkRead(k, o) ==
  /\ rtask[k].op = "marked" /\ Call(o) /\ FeedGoto(k, Free)
  /\ articles' = IF Took(o) THEN Set(articles, rtask[k].id, rtask[k].old) ELSE articles
  /\ UNCHANGED <<feeds, rids, removed, twoFetches, crossed, asks>>

FeedsNext == \/ \E k \in Rtasks : FeedRequest(k) \/ Removed(k) \/ HttpEnd(k) \/ \E ch \in Channels : Http(k, ch)
             \/ \E k \in Rtasks, o \in {"ok", "late", "failed"} :
                  \/ AddFeed(k, o) \/ FeedId(k, o) \/ PutFeed(k, o) \/ RemoveFeed(k, o) \/ Sweep(k, o) \/ Purge(k, o)
                  \/ FetchAll(k, o) \/ LoadFeed(k, o) \/ Item(k, o) \/ ArticleId(k, o) \/ File(k, o) \/ Retitle(k, o)
                  \/ LoadArticle(k, o) \/ MarkRead(k, o)
FeedsSpec == FeedsInit /\ [][FeedsNext]_feedsVars
-----------------------------------------------------------------------------
(* A fetch looks for each link, takes an id and files the article in calls of *)
(* its own, and a removal sweeps the articles after it deleted the feed.      *)
(* Unless two fetches ran at once every link is filed once, over all feeds    *)
(* and whatever calls failed; and a feed whose removal crossed no fetch and   *)
(* no mark is gone with all its articles and stays gone.                      *)
FeedsInv ==
  /\ ~twoFetches => \A a, b \in DOMAIN articles : articles[a].link = articles[b].link => a = b
  /\ \A i \in removed \ crossed : i \notin DOMAIN feeds /\ \A a \in DOMAIN articles : articles[a].feed # i

-----------------------------------------------------------------------------
(* metrics: the sampler, the bounded store of samples and the threshold       *)
(* alerts.  Every tick of the interval is a task; the alerts are behind a     *)
(* lock that all tasks share.                                                 *)

CONSTANTS Mtasks,
          Rules,                \* [metric, op, limit], op in {"<", ">"}
          Samples, Margin,      \* what the host may show, NoValue for a metric it does not report; the hysteresis
          MaxSamples,           \* max_samples
          MaxTicks, MaxTime, MaxErrs   \* bounds
VARIABLES samples,     \* id -> time stamp
          sampled,     \* the id counter
          mtask,       \* task -> what it does
          raised,      \* rule -> its alert is active
          seen,        \* the samples evaluated in this process, in order
          announced,   \* rule -> events published in this process
          trimmed,     \* samples trim deleted: [id, ts]
          mnow, ticks, errs
metricsVars == <<samples, sampled, mtask, raised, seen, announced, trimmed, mnow, ticks, errs>>

NoValue == -1
Quiet == [op |-> "idle", id |-> 0, ts |-> 0, s |-> <<>>, surplus |-> <<>>]
\* the samples and the counter of an earlier run
MetricsInit == /\ samples = [n \in (Numbered - MaxSamples + 1)..Numbered |-> 0] /\ sampled = Numbered
               /\ mtask = [k \in Mtasks |-> Quiet] /\ trimmed = {}
               /\ raised = [r \in DOMAIN Rules |-> FALSE] /\ seen = <<>> /\ announced = [r \in DOMAIN Rules |-> <<>>]
               /\ mnow = 0 /\ ticks = 0 /\ errs = 0
MetricGoto(k, t) == mtask' = [mtask EXCEPT ![k] = t]
Answer(o) == (o # "ok" => errs < MaxErrs) /\ errs' = IF o = "ok" THEN errs ELSE errs + 1
alerts == <<raised, seen, announced>>
-----------------------------------------------------------------------------
Breached(r, v) == IF r.op = "<" THEN v < r.limit ELSE v > r.limit
Cleared(r, v) == IF r.op = "<" THEN v >= r.limit + Margin ELSE v <= r.limit - Margin
Charging(r, s) == s.charging /\ r.metric = "battery"
\* the interval's tick
SampleTick(k) ==
        /\ mtask[k].op = "idle" /\ ticks < MaxTicks /\ ticks' = ticks + 1 /\ MetricGoto(k, [Quiet EXCEPT !.op = "id"])
        /\ UNCHANGED <<samples, sampled, alerts, trimmed, mnow, errs>>
Pass == /\ mnow < MaxTime /\ mnow' = mnow + 1
        /\ UNCHANGED <<samples, sampled, mtask, alerts, trimmed, ticks, errs>>
\* sample_and_store: an id, then the host's figures under the time of now
Sample(k, o, s) ==
  /\ mtask[k].op = "id" /\ Answer(o)
  /\ sampled' = IF o = "failed" THEN sampled ELSE sampled + 1
  /\ MetricGoto(k, IF o # "ok" THEN Quiet
                   ELSE [mtask[k] EXCEPT !.op = "put", !.id = sampled + 1, !.ts = mnow, !.s = s])
  /\ UNCHANGED <<samples, alerts, trimmed, mnow, ticks>>
\* a sample that was not stored, as far as the task knows, is not evaluated
Put(k, o) ==
  /\ mtask[k].op = "put" /\ Answer(o)
  /\ samples' = IF o = "failed" THEN samples ELSE [i \in DOMAIN samples \cup {mtask[k].id} |-> IF i = mtask[k].id THEN mtask[k].ts ELSE samples[i]]
  /\ MetricGoto(k, IF o = "ok" THEN [mtask[k] EXCEPT !.op = "trim"] ELSE Quiet)
  /\ UNCHANGED <<sampled, alerts, trimmed, mnow, ticks>>
\* trim: the oldest beyond max_samples, by time stamp, as listed now
TrimSamples(k, o) ==
         /\ mtask[k].op = "trim" /\ Answer(o)
         /\ MetricGoto(k, [mtask[k] EXCEPT !.op = "prune",
                    !.surplus = IF o = "ok" THEN TooMany(samples, MaxSamples) ELSE <<>>])
         /\ UNCHANGED <<samples, sampled, alerts, trimmed, mnow, ticks>>
PruneSamples(k, o) ==
         /\ mtask[k].op = "prune" /\ mtask[k].surplus # <<>> /\ Answer(o)
         /\ LET i == Head(mtask[k].surplus) IN
            IF i \in DOMAIN samples /\ o # "failed"
            THEN samples' = [j \in DOMAIN samples \ {i} |-> samples[j]] /\ trimmed' = trimmed \cup {[id |-> i, ts |-> samples[i]]}
            ELSE UNCHANGED <<samples, trimmed>>
         /\ MetricGoto(k, [mtask[k] EXCEPT !.surplus = IF o = "ok" THEN Tail(@) ELSE <<>>])
         /\ UNCHANGED <<sampled, alerts, mnow, ticks>>
\* Alerts::evaluate under the lock: one event when a rule is breached, one when it has
\* cleared by the margin; a metric without a value leaves its rule alone
Event(r, s) ==
  LET rule == Rules[r] v == s.figures[rule.metric] IN
  IF v = NoValue THEN ""
  ELSE IF ~raised[r] /\ Breached(rule, v) /\ ~Charging(rule, s) THEN "threshold"
  ELSE IF raised[r] /\ (Cleared(rule, v) \/ Charging(rule, s)) THEN "threshold_cleared" ELSE ""
Evaluate(k) ==
  /\ mtask[k].op = "prune" /\ mtask[k].surplus = <<>> /\ MetricGoto(k, Quiet)
  /\ LET s == mtask[k].s IN
     /\ seen' = Append(seen, s)
     /\ raised' = [r \in DOMAIN Rules |-> IF Event(r, s) = "" THEN raised[r] ELSE Event(r, s) = "threshold"]
     /\ announced' = [r \in DOMAIN Rules |-> IF Event(r, s) = "" THEN announced[r] ELSE Append(announced[r], Event(r, s))]
  /\ UNCHANGED <<samples, sampled, trimmed, mnow, ticks, errs>>
\* the alerts are kept in memory only
RestartMetrics ==
         /\ errs < MaxErrs /\ errs' = errs + 1 /\ mtask' = [k \in Mtasks |-> Quiet] /\ seen' = <<>>
         /\ raised' = [r \in DOMAIN Rules |-> FALSE] /\ announced' = [r \in DOMAIN Rules |-> <<>>]
         /\ UNCHANGED <<samples, sampled, trimmed, mnow, ticks>>

MetricsNext == \/ \E k \in Mtasks : SampleTick(k) \/ Evaluate(k)
               \/ Pass \/ RestartMetrics
               \/ \E k \in Mtasks, o \in {"ok", "late", "failed"} :
                    \/ \E s \in Samples : Sample(k, o, s)
                    \/ Put(k, o) \/ TrimSamples(k, o) \/ PruneSamples(k, o)
MetricsSpec == MetricsInit /\ [][MetricsNext]_metricsVars
-----------------------------------------------------------------------------
Hot(r, s) == s.figures[Rules[r].metric] # NoValue /\ Breached(Rules[r], s.figures[Rules[r].metric]) /\ ~Charging(Rules[r], s)
Cool(r, s) == s.figures[Rules[r].metric] # NoValue /\ (Cleared(Rules[r], s.figures[Rules[r].metric]) \/ Charging(Rules[r], s))
(* Samples of ticks that overlap are stored, trimmed and evaluated in any     *)
(* order.  A rule is active exactly when some evaluated sample breached it    *)
(* and none after that was back past the limit by the margin; its events      *)
(* alternate, beginning with "threshold"; and no overlap of two trims ever    *)
(* deletes a sample that is among the newest max_samples.                     *)
MetricsInv ==
  /\ \A r \in DOMAIN Rules :
       /\ raised[r] = \E j \in DOMAIN seen : Hot(r, seen[j]) /\ \A i \in j + 1..Len(seen) : ~Cool(r, seen[i])
       /\ \A j \in DOMAIN announced[r] : announced[r][j] = IF j % 2 = 1 THEN "threshold" ELSE "threshold_cleared"
       /\ raised[r] = (Len(announced[r]) % 2 = 1)
  /\ \A d \in trimmed : Cardinality({i \in DOMAIN samples : Newer(i, samples[i], d)}) >= MaxSamples
=============================================================================
