------------------------------ MODULE MediaStore ------------------------------
(***************************************************************************)
(* The media store (pkg/media/store.go): refs to files that channels have  *)
(* downloaded, or that the send_file tool was asked for, kept by scope and *)
(* deleted, with their files, by the cleaner when they are old or by a     *)
(* release of their scope.  Maps change under the lock; files are checked  *)
(* before it is taken and deleted after it is let go.  A reload puts a new *)
(* store in the place of the old one (gateway/helpers.go).                 *)
(*                                                                         *)
(* Downloads have names of their own; send_file registers a file of the    *)
(* workspace as often as it is asked to.  Metadata are left out, and so is *)
(* a file that cannot be deleted, which only stays.                        *)
(***************************************************************************)
EXTENDS Naturals, FiniteSets, Functions

CONSTANTS
  Downloads,    \* paths that are written once, by a channel
  OwnFiles,     \* paths of the workspace, which exist
  Scopes,
  MaxRefs       \* bound: refs that are made

ASSUME MediaAssumption ==
  MaxRefs \in Nat /\ Downloads \intersect OwnFiles = {} /\ "none" \notin Downloads \union OwnFiles

VARIABLES
  refs,          \* ref -> path
  refToScope,    \* ref -> scope
  scopeToRefs,   \* scope -> refs
  expired,       \* refs older than MaxAge
  made,          \* how many refs were made
  files,         \* paths that exist
  storing,       \* a Store between its check and the lock; old: its store was replaced
  deleting,      \* files that the cleaner and a release are about to delete
  forgotten,     \* refs of stores that a reload has replaced
  pathOf         \* the path of every ref that was ever made

mediaVars == <<refs, refToScope, scopeToRefs, expired, made, files, storing, deleting,
               forgotten, pathOf>>

Deleters == {"cleaner", "release"}
Storing(p, s) == [path |-> p, scope |-> s, old |-> FALSE]
NotStoring == Storing("none", "none")
NoRefs == [r \in {} |-> "none"]

MediaInit ==
  /\ refs = NoRefs /\ refToScope = NoRefs /\ pathOf = NoRefs
  /\ scopeToRefs = [s \in Scopes |-> {}]
  /\ expired = {} /\ made = 0 /\ forgotten = {}
  /\ files = OwnFiles /\ storing = NotStoring
  /\ deleting = [d \in Deleters |-> {}]

Registered(p) == {r \in DOMAIN pathOf : pathOf[r] = p}

\* A download is written and registered once.
Download(p, s) ==
  /\ storing = NotStoring /\ p \notin files /\ Registered(p) = {} /\ made < MaxRefs
  /\ files' = files \union {p}
  /\ storing' = Storing(p, s)
  /\ UNCHANGED <<refs, refToScope, scopeToRefs, expired, made, deleting, forgotten, pathOf>>

\* Store finds that the file exists...
StoreStats(p, s) ==
  /\ storing = NotStoring /\ p \in files /\ made < MaxRefs
  /\ storing' = Storing(p, s)
  /\ UNCHANGED <<refs, refToScope, scopeToRefs, expired, made, files, deleting, forgotten, pathOf>>

\* ...and makes the ref, in the store it was called on.
StoreAdds ==
  /\ storing # NotStoring
  /\ made' = made + 1
  /\ pathOf' = [r \in DOMAIN pathOf \union {made'} |-> IF r = made' THEN storing.path ELSE pathOf[r]]
  /\ \/ /\ ~storing.old
        /\ refs' = [r \in DOMAIN refs \union {made'} |-> IF r = made' THEN storing.path ELSE refs[r]]
        /\ refToScope' = [r \in DOMAIN refToScope \union {made'} |->
                            IF r = made' THEN storing.scope ELSE refToScope[r]]
        /\ scopeToRefs' = [scopeToRefs EXCEPT ![storing.scope] = @ \union {made'}]
        /\ UNCHANGED forgotten
     \/ /\ storing.old
        /\ forgotten' = forgotten \union {made'}
        /\ UNCHANGED <<refs, refToScope, scopeToRefs>>
  /\ storing' = NotStoring
  /\ UNCHANGED <<expired, files, deleting>>

MaxAgePasses(r) ==
  /\ r \in DOMAIN refs \ expired
  /\ expired' = expired \union {r}
  /\ UNCHANGED <<refs, refToScope, scopeToRefs, made, files, storing, deleting, forgotten, pathOf>>

\* The first phase of d: the refs of gone leave the maps, their files are kept
\* in mind.
TakeOut(d, gone) ==
  /\ deleting[d] = {} /\ gone # {}
  /\ deleting' = [deleting EXCEPT ![d] = {refs[r] : r \in gone}]
  /\ refs' = Restrict(refs, DOMAIN refs \ gone)
  /\ refToScope' = Restrict(refToScope, DOMAIN refToScope \ gone)
  /\ scopeToRefs' = [s \in Scopes |-> scopeToRefs[s] \ gone]
  /\ UNCHANGED <<expired, made, files, storing, forgotten, pathOf>>

\* Mutant of ReleaseAll: the scope goes, its refs stay.
ReleaseAllKeepsRefs(s) ==
  /\ deleting["release"] = {} /\ scopeToRefs[s] # {}
  /\ deleting' = [deleting EXCEPT !["release"] = {refs[r] : r \in scopeToRefs[s]}]
  /\ scopeToRefs' = [scopeToRefs EXCEPT ![s] = {}]
  /\ UNCHANGED <<refs, refToScope, expired, made, files, storing, forgotten, pathOf>>

ReleaseAll(s) == TakeOut("release", scopeToRefs[s])

CleanExpired == TakeOut("cleaner", expired \intersect DOMAIN refs)

\* The second phase, file by file.
DeleteFile(d, p) ==
  /\ p \in deleting[d]
  /\ deleting' = [deleting EXCEPT ![d] = @ \ {p}]
  /\ files' = files \ {p}
  /\ UNCHANGED <<refs, refToScope, scopeToRefs, expired, made, storing, forgotten, pathOf>>

\* The old cleaner stops, after a second phase it may be in; the new store
\* starts empty.
ReplaceStore ==
  /\ DOMAIN refs # {} \/ storing # NotStoring
  /\ forgotten' = forgotten \union DOMAIN refs
  /\ storing' = IF storing = NotStoring THEN storing ELSE [storing EXCEPT !.old = TRUE]
  /\ refs' = NoRefs /\ refToScope' = NoRefs
  /\ scopeToRefs' = [s \in Scopes |-> {}]
  /\ UNCHANGED <<expired, made, files, deleting, pathOf>>

MediaNext ==
  \/ \E s \in Scopes : \/ \E p \in Downloads : Download(p, s)
                       \/ \E p \in OwnFiles : StoreStats(p, s)
                       \/ ReleaseAll(s)
  \/ StoreAdds \/ CleanExpired \/ ReplaceStore
  \/ \E r \in 1 .. MaxRefs : MaxAgePasses(r)
  \/ \E d \in Deleters, p \in Downloads \union OwnFiles : DeleteFile(d, p)

MediaSpec == MediaInit /\ [][MediaNext]_mediaVars

-----------------------------------------------------------------------------
\* The three maps agree; a ref whose file was registered only once resolves to
\* a file that exists, whoever deletes meanwhile; and a download stays on disk
\* only as long as some ref or some deletion knows it, or its store was
\* replaced: no other step leaks it.
FilesFollowRefs ==
  /\ DOMAIN refs = DOMAIN refToScope
  /\ \A s \in Scopes : scopeToRefs[s] = {r \in DOMAIN refs : refToScope[r] = s}
  /\ \A r \in DOMAIN refs : Registered(refs[r]) = {r} => refs[r] \in files
  /\ \A p \in Downloads \intersect files :
       \/ p = storing.path
       \/ \E r \in DOMAIN refs : refs[r] = p
       \/ \E d \in Deleters : p \in deleting[d]
       \/ \E r \in forgotten : pathOf[r] = p

=============================================================================
