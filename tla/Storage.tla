------------------------------- MODULE Storage -------------------------------
(* What holds the user's data: files and secrets.                           *)
(* The parts share no state; each has its own initial states and steps.     *)
EXTENDS Integers, Sequences, FiniteSets, FiniteSetsExt, SequencesExt

-----------------------------------------------------------------------------
(* filesystem: requests on paths inside the configured roots.  The tree is   *)
(* the host's: directories, files with a datum, symbolic links.  Requests    *)
(* are spawned tasks that check and then call the system, which may fail     *)
(* half way; others add links and directories while none is in flight.       *)

CONSTANTS Roots,              \* the canonical roots of FILES_PLUGIN_ALLOWED_ROOTS
          Ftasks,             \* requests in flight
          Tree,               \* the tree at the start: path -> node
          Paths,              \* the paths requests name, ".." among the components
          LinkPaths, Targets, \* where others make links, and what those point to
          MaxFops             \* bound
VARIABLES tree,        \* canonical path -> [kind, to, data]
          trash,       \* <<name, copy>> -> [dir, data, to]
          infos,       \* the entries that have a .trashinfo
          outside,     \* the part of the tree outside the roots as others left it
          spent,       \* data a request was asked to destroy
          raced,       \* data replaced by a rename that had found its destination free
          shown,       \* data from outside the roots that fs_read has returned
          ftask,       \* the requests between check and system call
          fops
filesVars == <<tree, trash, infos, outside, spent, raced, shown, ftask, fops>>

NoPath == <<"">>
Node(k, t, d) == [kind |-> k, to |-> t, data |-> d]
Parent(p) == SubSeq(p, 1, Len(p) - 1)
IsDir(p) == p \in DOMAIN tree /\ tree[p].kind = "dir"
Sub(p) == {q \in DOMAIN tree : IsPrefix(p, q)}
Data(ps) == {tree[q].data : q \in {x \in ps : tree[x].kind = "file"}}
In(p) == \E r \in Roots : IsPrefix(r, p)
Part(t) == [p \in {q \in DOMAIN t : ~In(q)} |-> t[p]]
-----------------------------------------------------------------------------
\* canonicalize: every component exists, links are followed; a link points to
\* a canonical path, or to nothing
Walk(cur, n) ==
  IF cur = NoPath \/ ~IsDir(cur) THEN NoPath
  ELSE IF n = ".." THEN IF cur = <<>> THEN cur ELSE Parent(cur)
  ELSE LET q == Append(cur, n) IN
       IF q \notin DOMAIN tree THEN NoPath
       ELSE IF tree[q].kind # "link" THEN q
       ELSE IF tree[q].to \in DOMAIN tree THEN tree[q].to ELSE NoPath
Canon(p) == FoldLeft(Walk, <<>>, p)
\* Sandbox::resolve: the deepest ancestor that exists is made canonical, the
\* rest is joined as text and may not climb; the result lies inside a root
ResolveText(p) == IF ".." \notin Range(p) /\ In(p) THEN (IF Canon(p) # NoPath THEN Canon(p) ELSE p) ELSE NoPath
Resolve(p) ==
  LET k == Max({i \in 0..Len(p) : Canon(SubSeq(p, 1, i)) # NoPath})
      rest == SubSeq(p, k + 1, Len(p))
      r == Canon(SubSeq(p, 1, k)) \o rest
  IN IF ".." \in Range(rest) \/ ~In(r) THEN NoPath ELSE r
\* is_root compares with the first root, in sorted order, that contains the path
Outermost == {r \in Roots : \A y \in Roots : IsPrefix(y, r) => y = r}
IsRoot(r) == r \in Outermost
\* Path::exists follows links; a canonical path that is a link dangles
Exists(r) == r \in DOMAIN tree /\ tree[r].kind # "link"
\* the answers of resolve: what a request goes on with
Resolved == {Resolve(p) : p \in Paths} \ {NoPath}

NoTask == [op |-> "", r |-> <<>>, to |-> <<>>, flag |-> FALSE, kind |-> "", copy |-> 0]
FilesInit == /\ tree = Tree /\ outside = Part(Tree) /\ trash = <<>> /\ infos = {}
             /\ spent = {} /\ raced = {} /\ shown = {} /\ ftask = [t \in Ftasks |-> NoTask] /\ fops = 0
Put(ps, n, t) == [p \in ps \cup DOMAIN t |-> IF p \in ps THEN n ELSE t[p]]
Without(ps, t) == [p \in DOMAIN t \ ps |-> t[p]]
\* create_dir_all: what exists on the way must be a directory
Missing(q) == {p \in Prefixes(q) : p \notin DOMAIN tree}
CanMake(q) == \A p \in Prefixes(q) : p \in DOMAIN tree => IsDir(p)

\* fs_list and fs_read: a directory's entries show no data
Read(r) ==
  /\ Exists(r) /\ ~IsDir(r) /\ shown' = shown \cup ({tree[r].data} \cap {outside[p].data : p \in DOMAIN outside})
  /\ UNCHANGED <<tree, trash, infos, outside, spent, raced, ftask, fops>>

\* a request checks what it has resolved, and makes its system calls later:
\* requests are spawned tasks.  A link is moved only while no other is between
\* the two, check-then-use across a link being a stated limit of the plugin
Kind(r) == IF r \in DOMAIN tree THEN tree[r].kind ELSE ""
Idle == {t \in Ftasks : ftask[t].op = "" /\ fops < MaxFops}
Quiet == \A t \in Ftasks : ftask[t].op = ""
Begin(t, op, r, to, flag, copy) ==
  /\ fops' = fops + 1
  /\ ftask' = [ftask EXCEPT ![t] = [op |-> op, r |-> r, to |-> to, flag |-> flag, kind |-> Kind(r), copy |-> copy]]
  /\ UNCHANGED <<tree, trash, infos, outside, spent, raced, shown>>
BeginWrite(t, r, parents) ==
  ~IsRoot(r) /\ Kind(r) \in {"", "file"} /\ (parents \/ IsDir(Parent(r))) /\ Begin(t, "write", r, <<>>, parents, 0)
BeginMkdir(t, r, parents) == ~Exists(r) /\ Begin(t, "mkdir", r, <<>>, parents, 0)
BeginDelete(t, r) == ~IsRoot(r) /\ r \in DOMAIN tree /\ Begin(t, "delete", r, <<>>, FALSE, 0)
\* trash_move looks for the first free copy of the name; an entry that is a
\* dangling link does not count as there
FreeCopy(n) == Min({k \in 0..Cardinality(DOMAIN trash) :
                 <<n, k>> \notin DOMAIN trash \/ trash[<<n, k>>].to \notin DOMAIN tree \cup {<<>>}})
BeginTrash(t, r) == ~IsRoot(r) /\ r \in DOMAIN tree /\ Begin(t, "trash", r, <<>>, FALSE, FreeCopy(Last(r)))
BeginRename(t, f, to, overwrite) ==
  /\ ~IsRoot(f) /\ ~IsRoot(to) /\ f \in DOMAIN tree /\ (Exists(to) => overwrite) /\ IsDir(Parent(to))
  /\ (Kind(f) = "link" => Quiet) /\ Begin(t, "rename", f, to, overwrite, 0)

\* the system calls; the tree may have changed since the check
End(t, op) == ftask[t].op = op /\ ftask' = [ftask EXCEPT ![t] = NoTask] /\ UNCHANGED <<outside, shown, fops>>
Fails(t, op) == End(t, op) /\ UNCHANGED <<tree, trash, infos, spent, raced>>
\* fs_write: the target is truncated in place, and a failed write leaves it cut
Write(t) ==
  /\ End(t, "write")
  /\ LET r == ftask[t].r IN
     /\ Kind(r) \in {"", "file"} /\ (IF ftask[t].flag THEN CanMake(Parent(r)) ELSE IsDir(Parent(r)))
     /\ \E d \in {"cut", "new"} :
          tree' = Put({r}, Node("file", <<>>, d), Put(Missing(Parent(r)), Node("dir", <<>>, ""), tree))
     /\ spent' = spent \cup Data({r} \cap DOMAIN tree)
  /\ UNCHANGED <<trash, infos, raced>>
Mkdir(t) ==
  /\ End(t, "mkdir")
  /\ LET r == ftask[t].r IN
     /\ r \notin DOMAIN tree /\ (IF ftask[t].flag THEN CanMake(r) ELSE IsDir(Parent(r)))
     /\ tree' = Put(Missing(r), Node("dir", <<>>, ""), tree)
  /\ UNCHANGED <<trash, infos, spent, raced>>
\* remove_dir_all or remove_file, whole or stopped by an error with some of the
\* entries gone
Remnants(r) == {keep \in SUBSET Sub(r) : \A q \in keep : \A x \in Sub(r) : IsPrefix(x, q) => x \in keep}
\* fs_delete with to_trash = false; which of the two calls was settled by the check
Delete(t) ==
  /\ End(t, "delete")
  /\ LET r == ftask[t].r IN
     /\ r \in DOMAIN tree /\ (Kind(r) = "dir") = (ftask[t].kind = "dir")
     /\ \E keep \in Remnants(r) : tree' = Without(Sub(r) \ keep, tree)
     /\ spent' = spent \cup Data(Sub(r))
  /\ UNCHANGED <<trash, infos, raced>>
\* trash_move: rename(2) replaces an entry that took the copy meanwhile; the
\* information is written after the move, if at all
Trash(t, told) ==
  /\ End(t, "trash")
  /\ LET r == ftask[t].r
         e == <<Last(r), ftask[t].copy>> IN
     /\ r \in DOMAIN tree /\ (e \in DOMAIN trash => Kind(r) # "dir" /\ ~trash[e].dir)
     /\ trash' = Put({e}, [dir |-> Kind(r) = "dir", data |-> Data(Sub(r)), to |-> tree[r].to], trash)
     /\ infos' = IF told THEN infos \cup {e} ELSE infos
     /\ tree' = Without(Sub(r), tree)
     /\ raced' = IF e \in DOMAIN trash THEN raced \cup trash[e].data ELSE raced
  /\ UNCHANGED spent
\* fs_rename and fs_move: with overwrite an existing destination is removed
\* first, whatever becomes of the rename; without, rename(2) replaces a file
\* that appeared since the check
Moved(f, t, base) ==
  LET src == {q \in DOMAIN base : IsPrefix(f, q)}
      dst == {t \o SubSeq(q, Len(f) + 1, Len(q)) : q \in src}
  IN [p \in (DOMAIN base \ src) \cup dst |-> IF p \in dst THEN base[f \o SubSeq(p, Len(t) + 1, Len(p))] ELSE base[p]]
CanMove(f, to, base) ==
  /\ f \in DOMAIN base /\ Parent(to) \in DOMAIN base /\ base[Parent(to)].kind = "dir" /\ (IsPrefix(f, to) => f = to)
  /\ to \in DOMAIN base => base[to].kind # "dir" /\ base[f].kind # "dir"
Rename(t, failed) ==
  /\ End(t, "rename")
  /\ LET f == ftask[t].r
         to == ftask[t].to
         own == ftask[t].flag /\ Exists(to) IN
     \E keep \in (IF own THEN Remnants(to) ELSE {{}}) :
       LET base == IF own THEN Without(Sub(to) \ keep, tree) ELSE tree
           goes == keep = {} /\ ~failed /\ CanMove(f, to, base)
       IN /\ spent' = IF own THEN spent \cup Data(Sub(to)) ELSE spent
          /\ raced' = IF goes /\ ~own /\ f # to THEN raced \cup Data({to} \cap DOMAIN tree) ELSE raced
          /\ tree' = IF goes THEN Moved(f, to, Without({to} \ {f}, base)) ELSE base
  /\ UNCHANGED <<trash, infos>>
\* others: a link inside the roots, a directory outside them
Others ==
  /\ Quiet /\ fops < MaxFops /\ fops' = fops + 1
  /\ \/ \E p \in LinkPaths, t \in Targets :
          p \notin DOMAIN tree /\ IsDir(Parent(p)) /\ tree' = Put({p}, Node("link", t, ""), tree)
     \/ \E t \in Targets : t \notin DOMAIN tree /\ ~In(t) /\ tree' = Put({t}, Node("dir", <<>>, ""), tree)
  /\ outside' = Part(tree') /\ UNCHANGED <<trash, infos, spent, raced, shown, ftask>>

FilesNext == \/ \E r \in Resolved : \/ Read(r)
                                    \/ \E t \in Idle : BeginDelete(t, r) \/ BeginTrash(t, r)
                                    \/ \E t \in Idle, b \in BOOLEAN : BeginWrite(t, r, b) \/ BeginMkdir(t, r, b)
                                    \/ \E t \in Idle, to \in Resolved, b \in BOOLEAN : BeginRename(t, r, to, b)
             \/ \E t \in Ftasks : Write(t) \/ Mkdir(t) \/ Delete(t)
             \/ \E t \in Ftasks, b \in BOOLEAN : Trash(t, b) \/ Rename(t, b)
             \/ \E t \in Ftasks, op \in {"write", "mkdir", "delete", "trash"} : Fails(t, op)
             \/ Others
FilesSpec == FilesInit /\ [][FilesNext]_filesVars
-----------------------------------------------------------------------------
\* "Refused when `path` is an allowed root itself": no request removes, moves or
\* replaces a configured root that lies in no other one.  is_root is asked of the
\* outermost root alone, so a root inside another may be deleted or renamed.
RootsStay == \A r \in Outermost : IsDir(r)

(* Sandbox::resolve is applied to a path and the system calls to its answer,  *)
(* through links others make, dangling ones that come alive, requests that    *)
(* overlap and requests that stop half way.  Whatever the sequence: the part  *)
(* of the host outside the roots is as others left it and none of its data is *)
(* ever returned; the outermost roots stay; a datum disappears only when a    *)
(* request was asked to overwrite or destroy it or a rename found its         *)
(* destination free too early; what went to the trash is there, and no        *)
(* information is left of an entry that is not.                               *)
FilesInv ==
  /\ Part(tree) = outside /\ shown = {}
  /\ RootsStay
  /\ LET all == {Tree[p].data : p \in DOMAIN Tree} \ {""} IN
     all \subseteq spent \cup raced \cup Data(DOMAIN tree) \cup UNION {trash[e].data : e \in DOMAIN trash}
  /\ infos \subseteq DOMAIN trash

-----------------------------------------------------------------------------
(* secrets: one encrypted vault file per calling plugin.  Every request is a  *)
(* spawned task; decrypted vaults are cached, each behind its lock, and a     *)
(* mutation rewrites the caller's file through a temporary one.               *)

CONSTANTS Stasks, Plugins, Names, Values,  \* tasks, callers ("" is none), secret names and values
          MaxSets, MaxRestarts             \* bounds
VARIABLES stask,       \* task -> [pc, caller, op, name, value, vault, fd]
          vaults,      \* vault objects: [owner, map, lock], in the order of creation
          registry,    \* caller -> the vault object cached for it, 0 if none
          data,        \* contents of the files made so far: a map, Short or Torn
          disk, tmp,   \* caller -> the file at its path and at its temporary path, 0 if none
          stored,      \* caller, name -> the value the last answered mutation left there
          settled,     \* caller -> no mutation has failed since the last restart, or was cut off by it
          split,       \* callers that have had two vault objects at a time
          got,         \* [caller, name, value] answered by secret_get
          starts, sets
secretsVars == <<stask, vaults, registry, data, disk, tmp, stored, settled, split, got, starts, sets>>

NoValue == <<>>
Empty == [n \in Names |-> NoValue]
Short == [n \in {"short"} |-> NoValue]
Torn == [n \in {"torn"} |-> NoValue]
NoRequest == [pc |-> "idle", caller |-> "", op |-> "", name |-> "", value |-> NoValue, vault |-> 0, fd |-> 0]
Callers == Plugins \ {""}
SecretsInit == /\ stask = [t \in Stasks |-> NoRequest] /\ vaults = <<>> /\ registry = [c \in Callers |-> 0]
               /\ data = <<>> /\ disk = [c \in Callers |-> 0] /\ tmp = disk
               /\ stored = [c \in Callers |-> Empty] /\ settled = [c \in Callers |-> TRUE]
               /\ split = {} /\ got = {} /\ starts = 0 /\ sets = 0
\* Vault::load_or_create; a file that does not decrypt is an error, never a reset
Readable(c) == disk[c] # 0 => DOMAIN data[disk[c]] = Names
Loaded(c) == IF disk[c] = 0 THEN Empty ELSE data[disk[c]]
To(t, r) == stask' = [stask EXCEPT ![t] = r]
Disk == <<data, disk, tmp>>

\* Handler::handle: sanitize_caller_id refuses an empty caller; the registry is
\* looked up under its lock, a vault not found there is loaded outside it
Request(t, c, op, n, v) ==
  /\ stask[t].pc = "idle" /\ sets < MaxSets /\ sets' = sets + 1 /\ c # ""
  /\ To(t, [pc |-> IF registry[c] = 0 THEN "load" ELSE "lock", caller |-> c, op |-> op, name |-> n,
            value |-> v, vault |-> registry[c], fd |-> 0])
  /\ UNCHANGED <<vaults, registry, Disk, stored, settled, split, got, starts>>
Load(t) ==
  /\ stask[t].pc = "load" /\ Readable(stask[t].caller)
  /\ vaults' = Append(vaults, [owner |-> stask[t].caller, map |-> Loaded(stask[t].caller), lock |-> FALSE])
  /\ To(t, [stask[t] EXCEPT !.pc = "cache", !.vault = Len(vaults')])
  /\ split' = IF \E i \in DOMAIN vaults : vaults[i].owner = stask[t].caller THEN split \cup {stask[t].caller} ELSE split
  /\ UNCHANGED <<registry, Disk, stored, settled, got, starts, sets>>
Unreadable(t) ==
  /\ stask[t].pc = "load" /\ ~Readable(stask[t].caller) /\ To(t, NoRequest)
  /\ UNCHANGED <<vaults, registry, Disk, stored, settled, split, got, starts, sets>>
\* the insert replaces what another task cached meanwhile
Cache(t) ==
  /\ stask[t].pc = "cache" /\ registry' = [registry EXCEPT ![stask[t].caller] = stask[t].vault]
  /\ To(t, [stask[t] EXCEPT !.pc = "lock"])
  /\ UNCHANGED <<vaults, Disk, stored, settled, split, got, starts, sets>>
\* secret_get and secret_list, under the vault's lock
Get(t) ==
  /\ stask[t].pc = "lock" /\ stask[t].op = "get" /\ ~vaults[stask[t].vault].lock /\ To(t, NoRequest)
  /\ LET v == vaults[stask[t].vault].map[stask[t].name] IN
     got' = IF v = NoValue THEN got ELSE got \cup {[caller |-> stask[t].caller, name |-> stask[t].name, value |-> v]}
  /\ UNCHANGED <<vaults, registry, Disk, stored, settled, split, starts, sets>>
\* secret_set and secret_delete change the map first; a delete of nothing ends
Mutate(t) ==
  /\ stask[t].pc = "lock" /\ stask[t].op = "set" /\ ~vaults[stask[t].vault].lock
  /\ LET old == vaults[stask[t].vault].map[stask[t].name] IN
     IF stask[t].value = NoValue /\ old = NoValue THEN To(t, NoRequest) /\ UNCHANGED vaults
     ELSE /\ vaults' = [vaults EXCEPT ![stask[t].vault].map[stask[t].name] = stask[t].value, ![stask[t].vault].lock = TRUE]
          /\ To(t, [stask[t] EXCEPT !.pc = "open"])
  /\ UNCHANGED <<registry, Disk, stored, settled, split, got, starts, sets>>
OpenInPlace(t) ==
  LET c == stask[t].caller IN
  /\ stask[t].pc = "open"
  /\ IF disk[c] = 0 THEN data' = Append(data, Short) /\ tmp' = [tmp EXCEPT ![c] = Len(data')]
     ELSE data' = [data EXCEPT ![disk[c]] = Short] /\ tmp' = [tmp EXCEPT ![c] = disk[c]]
  /\ To(t, [stask[t] EXCEPT !.pc = "write", !.fd = tmp'[c]])
  /\ UNCHANGED <<vaults, registry, disk, stored, settled, split, got, starts, sets>>
\* atomic_write: the temporary file is created or truncated, written, renamed
Open(t) ==
  LET c == stask[t].caller IN
  /\ stask[t].pc = "open"
  /\ IF tmp[c] = 0 THEN data' = Append(data, Short) /\ tmp' = [tmp EXCEPT ![c] = Len(data')]
     ELSE data' = [data EXCEPT ![tmp[c]] = Short] /\ UNCHANGED tmp
  /\ To(t, [stask[t] EXCEPT !.pc = "write", !.fd = tmp'[c]])
  /\ UNCHANGED <<vaults, registry, disk, stored, settled, split, got, starts, sets>>
\* two writers of one file: the longer text keeps its tail
WriteTmp(t) ==
  /\ stask[t].pc = "write"
  /\ \E d \in {vaults[stask[t].vault].map, Torn} :
       /\ d = Torn => data[stask[t].fd] # Short
       /\ data' = [data EXCEPT ![stask[t].fd] = d]
  /\ To(t, [stask[t] EXCEPT !.pc = "rename"])
  /\ UNCHANGED <<vaults, registry, disk, tmp, stored, settled, split, got, starts, sets>>
Leave(t, ok) ==
  /\ vaults' = [vaults EXCEPT ![stask[t].vault].lock = FALSE] /\ To(t, NoRequest)
  /\ IF ok THEN stored' = [stored EXCEPT ![stask[t].caller][stask[t].name] = stask[t].value] /\ UNCHANGED settled
     ELSE settled' = [settled EXCEPT ![stask[t].caller] = FALSE] /\ UNCHANGED stored
  /\ UNCHANGED <<registry, split, got, starts, sets>>
RenameTmp(t) ==
  LET c == stask[t].caller IN
  /\ stask[t].pc = "rename"
  /\ IF tmp[c] # 0 THEN disk' = [disk EXCEPT ![c] = tmp[c]] /\ tmp' = [tmp EXCEPT ![c] = 0] /\ UNCHANGED data /\ Leave(t, TRUE)
     ELSE UNCHANGED Disk /\ Leave(t, FALSE)
\* any step of the write may fail; the map keeps the change it was asked for
PersistFails(t) == stask[t].pc \in {"open", "write"} /\ UNCHANGED Disk /\ Leave(t, FALSE)
\* the process stops at any point and comes back with no vault loaded
Restart ==
  /\ starts < MaxRestarts /\ starts' = starts + 1
  /\ stask' = [t \in Stasks |-> NoRequest] /\ vaults' = <<>> /\ registry' = [c \in Callers |-> 0]
  /\ settled' = [c \in Callers |-> settled[c] /\ \A t \in Stasks : stask[t].caller = c => stask[t].pc \notin {"open", "write", "rename"}]
  /\ UNCHANGED <<Disk, stored, split, got, sets>>

SecretsNext == \/ \E t \in Stasks, c \in Plugins, n \in Names : Request(t, c, "get", n, NoValue)
               \/ \E t \in Stasks, c \in Plugins, n \in Names :
                    \E v \in {<<c, x>> : x \in Values} \cup {NoValue} : Request(t, c, "set", n, v)
               \/ \E t \in Stasks : \/ Load(t) \/ Unreadable(t) \/ Cache(t) \/ Get(t) \/ Mutate(t)
                                    \/ Open(t) \/ WriteTmp(t) \/ RenameTmp(t) \/ PersistFails(t)
               \/ Restart
SecretsSpec == SecretsInit /\ [][SecretsNext]_secretsVars
-----------------------------------------------------------------------------

(* Handler::get_vault loads outside the registry's lock, so the first two     *)
(* requests of a caller may each have a vault object of their own.  Whenever  *)
(* they do not: the file is a whole vault although writes fail and the        *)
(* process stops at any step, and it holds what every answered mutation left. *)
(* In any case a caller is answered only from its own secrets.                *)
SecretsInv ==
  /\ \A c \in Callers \ split :
       /\ disk[c] # 0 => DOMAIN data[disk[c]] = Names
       /\ settled[c] /\ (\A t \in Stasks : stask[t].caller # c) => Loaded(c) = stored[c]
  /\ \A g \in got : g.value[1] = g.caller
=============================================================================
