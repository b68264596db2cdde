------------------------------ MODULE FileTree ------------------------------
(***************************************************************************)
(* FileManager: files and folders kept as entries of a cache, each with    *)
(* the id of its parent, a folder also with the list of its children.      *)
(* There is no transaction: an operation is a sequence of get, set and     *)
(* invalidate calls.  A client is one caller of a FileManager: agenda[c]   *)
(* are the calls it has still to make, draft[c] what it has read and is    *)
(* about to set, frames[c] the calls of delete_file it is in, the          *)
(* innermost first.                                                        *)
(*                                                                         *)
(* "remote": CacheClient.  Several clients share the entries, a get        *)
(* returns a copy, and any call may fail, which no caller notices.         *)
(* "local": LocalCacheClient.  One client, no failures, but a get returns  *)
(* the stored dict itself: what is done to it is done to the cache.        *)
(***************************************************************************)
EXTENDS Naturals, Sequences, FiniteSets, SequencesExt

CONSTANTS Clients,
          Usable,      \* ids the caller supplies: UUIDs
          Generated,   \* ids _generate_id makes; _VALID_ID_RE matches none
          Root,        \* '0'
          Modes,       \* of {"remote", "local"}
          MaxOps,      \* bound: operations
          MaxDepth,    \* Python's recursion limit, in nested delete_file calls
          Nothing

Ids == Usable \cup Generated

VARIABLES
  mode,
  store,     \* store[x]: the metadata of cache entry file:x, Nothing if none
  agenda, draft, frames,
  born,      \* ids that have been created
  ops,       \* operations begun
  clean,     \* history: no call failed or recursed too deep, no operation was
             \* given a parent that is no folder or lies below the file itself,
             \* no folder was listed locally, and no two overlapping operations
             \* touched one entry
  touched,   \* history: entries the operation of c has touched or names
  asked,     \* history: what c was last asked to delete, and whether recursively
  doomed,    \* history: the entries that were to go in c's recursive delete,
             \* none if another operation touched one of them meanwhile
  placed     \* history: <<x, p>> if x was once to be created in p or moved there

treeHistory == <<clean, touched, asked, doomed, placed>>
treeVars == <<mode, store, agenda, draft, frames, born, ops, treeHistory>>

\* In local mode a listed folder holds its children's dicts instead of ids.
Dict(x) == <<x>>
Entry == [parent: Usable \cup {Root}, folder: BOOLEAN,
          objects: Seq(Ids \cup {Dict(x): x \in Ids})]
Task == ({"link", "unlink"} \X Usable \X Ids)
        \cup ({"write"} \X Ids \X Entry)
        \cup ({"move", "reparent"} \X Usable \X (Usable \cup {Root}))
        \cup ({"update", "drop", "list"} \X Usable \X {Nothing})
        \cup ({"delete"} \X Ids \X BOOLEAN)
Draft == [file: Ids, entry: Entry]
\* loop: the children are deleted first; turn: the number of the next one.
Frame == [file: Usable, parent: Usable \cup {Root}, loop: BOOLEAN,
          list: Seq(Ids \cup {Dict(x): x \in Ids}), turn: Nat]

ASSUME FileTreeAssumption ==
  /\ Usable \cap Generated = {} /\ \A x \in Ids: Dict(x) \notin Ids
  /\ Root \notin Ids /\ Nothing \notin Ids \cup Entry \cup Draft \cup (Ids \X BOOLEAN)
  /\ Modes \subseteq {"remote", "local"}
  /\ MaxOps \in Nat /\ MaxDepth \in Nat

TreeTypeOK ==
          /\ mode \in Modes
          /\ store \in [Ids -> Entry \cup {Nothing}]
          /\ agenda \in [Clients -> Seq(Task)]
          /\ draft \in [Clients -> Draft \cup {Nothing}]
          /\ frames \in [Clients -> Seq(Frame)]
          /\ born \subseteq Ids
          /\ ops \in 0..MaxOps
          /\ clean \in BOOLEAN
          /\ touched \in [Clients -> SUBSET (Ids \cup {Root})]
          /\ asked \in [Clients -> (Ids \X BOOLEAN) \cup {Nothing}]
          /\ doomed \in [Clients -> SUBSET Ids]
          /\ placed \subseteq Ids \X (Usable \cup {Root})

TreeInit ==
        /\ mode \in Modes
        /\ store = [x \in Ids |-> Nothing]
        /\ agenda = [c \in Clients |-> <<>>]
        /\ draft = [c \in Clients |-> Nothing]
        /\ frames = [c \in Clients |-> <<>>]
        /\ born = {}
        /\ ops = 0
        /\ clean = TRUE
        /\ touched = [c \in Clients |-> {}]
        /\ asked = [c \in Clients |-> Nothing]
        /\ doomed = [c \in Clients |-> {}]
        /\ placed = {}

-----------------------------------------------------------------------------
(* Helpers. *)

Exists(x) == x \in Ids /\ store[x] # Nothing
IsFolder(x) == Exists(x) /\ store[x].folder
Busy(c) == agenda[c] # <<>> \/ draft[c] # Nothing \/ frames[c] # <<>>
Elements(e) == ToSet(e.objects)

\* x and what parent_id places below it: the smallest set closed under children.
Closed(set) == \A y \in Ids: Exists(y) /\ store[y].parent \in set => y \in set
Subtree(x) == {y \in Ids: \A set \in SUBSET Ids: x \in set /\ Closed(set) => y \in set}

\* What was ever to be below x, wherever it is now.
EverClosed(set) == \A link \in placed: link[2] \in set => link[1] \in set
EverBelow(x) == {y \in Ids: \A set \in SUBSET Ids: x \in set /\ EverClosed(set) => y \in set}

\* The first call of the agenda and the ones after it.
Now(c, do) == agenda[c] # <<>> /\ draft[c] = Nothing /\ Head(agenda[c])[1] = do
Subject(c) == Head(agenda[c])[2]
Argument(c) == Head(agenda[c])[3]
Later(c) == Tail(agenda[c])
Continue(c, todo) == agenda' = [agenda EXCEPT ![c] = todo]
Unless(test, call) == IF test THEN <<>> ELSE <<call>>

\* What get_file may return: an id _validate_id rejects is not even asked for.
Gets(x) == IF x \notin Usable \/ ~Exists(x) THEN {Nothing}
           ELSE IF mode = "remote" THEN {store[x], Nothing} ELSE {store[x]}

(* History: client c touches x; ok says that the call did not fail. *)
Touches(c, x, ok) ==
  /\ touched' = [touched EXCEPT ![c] = @ \cup {x}]
  /\ clean' = /\ clean /\ ok
              /\ \A d \in Clients \ {c}: Busy(d) => x \notin touched[d]
  /\ doomed' = [d \in Clients |-> IF d # c /\ Busy(d) /\ x \in doomed[d] THEN {} ELSE doomed[d]]
  /\ UNCHANGED <<mode, born, ops, asked, placed>>

\* The get of x returned e, which is wrong if the call failed.
Read(c, x, e) == Touches(c, x, e # Nothing \/ ~Exists(x) \/ x \notin Usable)

-----------------------------------------------------------------------------
(* The operations as their callers start them. *)

Start(c, named, todo, sound, request, goal) ==
  /\ ~Busy(c)
  /\ mode = "local" => \A d \in Clients: ~Busy(d)
  /\ ops < MaxOps
  /\ ops' = ops + 1
  /\ Continue(c, todo)
  /\ touched' = [touched EXCEPT ![c] = named \ {Root}]
  /\ clean' = /\ clean /\ sound
              /\ \A d \in Clients \ {c}: Busy(d) => touched[d] \cap named \subseteq {Root}
  /\ asked' = [asked EXCEPT ![c] = request]
  /\ doomed' = [d \in Clients |->
                  IF d = c THEN IF \E b \in Clients: Busy(b) /\ touched[b] \cap goal # {}
                                THEN {} ELSE goal
                  ELSE IF Busy(d) /\ doomed[d] \cap named # {} THEN {} ELSE doomed[d]]
  /\ UNCHANGED <<mode, store, draft, frames>>

SoundParent(p) == p = Root \/ IsFolder(p)

\* create_file and create_folder; a generated parent_id is a ValueError.
CreateFile(c, x, p, folder) ==
  /\ x \notin born /\ p \in (born \cap Usable) \cup {Root}
  /\ Start(c, {x, p},
           <<<<"write", x, [parent |-> p, folder |-> folder, objects |-> <<>>]>>>>
             \o Unless(p = Root, <<"link", p, x>>),
           SoundParent(p), Nothing, {})
  /\ born' = born \cup {x}
  /\ placed' = placed \cup {<<x, p>>}

UpdateFile(c, x) ==
  /\ x \in born \cap Usable
  /\ Start(c, {x}, <<<<"update", x, Nothing>>>>, TRUE, Nothing, {})
  /\ UNCHANGED <<born, placed>>

DeleteFile(c, x, recursive) ==
  /\ x \in born \cap Usable
  /\ Start(c, {x}, <<<<"delete", x, recursive>>>>, TRUE, <<x, recursive>>,
           IF recursive /\ Exists(x) THEN Subtree(x) ELSE {})
  /\ UNCHANGED <<born, placed>>

MoveFile(c, x, p) ==
  /\ x \in born \cap Usable /\ p \in (born \cap Usable) \cup {Root}
  /\ Start(c, {x, p}, <<<<"move", x, p>>>>, SoundParent(p) /\ p \notin Subtree(x), Nothing, {})
  /\ placed' = placed \cup {<<x, p>>}
  /\ UNCHANGED born

\* list_folder and get_file(expand_children=True) change nothing remotely.
ListFolder(c, x) ==
  /\ mode = "local" /\ x \in born \cap Usable
  /\ Start(c, {x}, <<<<"list", x, Nothing>>>>, TRUE, Nothing, {})
  /\ UNCHANGED <<born, placed>>

-----------------------------------------------------------------------------
(* The calls.  A set or an invalidate that fails is not noticed. *)

CallSet(c, x, e) ==
                \/ store' = [store EXCEPT ![x] = e] /\ Touches(c, x, TRUE)
                \/ mode = "remote" /\ UNCHANGED store /\ Touches(c, x, FALSE)

DoWrite(c) == /\ Now(c, "write")
              /\ CallSet(c, Subject(c), Argument(c))
              /\ Continue(c, Later(c))
              /\ UNCHANGED <<draft, frames>>

DoSave(c) == /\ draft[c] # Nothing
             /\ CallSet(c, draft[c].file, draft[c].entry)
             /\ draft' = [draft EXCEPT ![c] = Nothing]
             /\ UNCHANGED <<agenda, frames>>

\* The end of a call of delete_file.
Return(c) == Continue(c, Later(c)) /\ frames' = [frames EXCEPT ![c] = Tail(@)]

\* Mutant: the key is used as a prefix pattern that matches every file.
DropAll(c) ==
  /\ Now(c, "drop")
  /\ store' = [x \in Ids |-> Nothing]
  /\ Touches(c, Subject(c), TRUE)
  /\ Return(c)
  /\ UNCHANGED draft

DoDrop(c) == /\ Now(c, "drop")
             /\ CallSet(c, Subject(c), Nothing)
             /\ Return(c)
             /\ UNCHANGED draft

(* _add_to_folder and _remove_from_folder: get the folder, and if it is one
   and its list is to change, set it with the new list.  Locally the list that
   is changed is the one in the cache.  What is removed from a list is the
   first that equals it.                                                    *)
Changed(c, e, objects) ==
  IF mode = "local"
  THEN store' = [store EXCEPT ![Subject(c)].objects = objects] /\ UNCHANGED draft
  ELSE /\ draft' = [draft EXCEPT ![c] = [file |-> Subject(c),
                                         entry |-> [e EXCEPT !.objects = objects]]]
       /\ UNCHANGED store

DoLink(c) ==
  LET f == Subject(c)  x == Argument(c) IN
  /\ Now(c, "link")
  /\ \E e \in Gets(f):
       /\ Read(c, f, e)
       /\ IF e # Nothing /\ e.folder /\ x \notin Elements(e)
          THEN Changed(c, e, Append(e.objects, x))
          ELSE UNCHANGED <<store, draft>>
  /\ Continue(c, Later(c)) /\ UNCHANGED frames

\* Mutant: the child is taken off the list that was read, which is not saved.
UnlinkUnsaved(c) ==
  /\ Now(c, "unlink")
  /\ \E e \in Gets(Subject(c)): Read(c, Subject(c), e)
  /\ Continue(c, Later(c)) /\ UNCHANGED <<store, draft, frames>>

DoUnlink(c) ==
  LET f == Subject(c)  x == Argument(c) IN
  /\ Now(c, "unlink")
  /\ \E e \in Gets(f):
       /\ Read(c, f, e)
       /\ IF e # Nothing /\ e.folder /\ x \in Elements(e)
          THEN \E k \in DOMAIN e.objects:
                 /\ e.objects[k] = x /\ \A j \in 1..(k - 1): e.objects[j] # x
                 /\ Changed(c, e, RemoveAt(e.objects, k))
          ELSE UNCHANGED <<store, draft>>
  /\ Continue(c, Later(c)) /\ UNCHANGED frames

(* update_file sets what it got, however old it is by then. *)
DoUpdate(c) ==
  LET x == Subject(c) IN
  /\ Now(c, "update")
  /\ \E e \in Gets(x):
       /\ Read(c, x, e)
       /\ IF e = Nothing \/ mode = "local" THEN UNCHANGED draft
          ELSE draft' = [draft EXCEPT ![c] = [file |-> x, entry |-> e]]
  /\ Continue(c, Later(c)) /\ UNCHANGED <<store, frames>>

(* move_file: out of the old folder, into the new one, then the entry as it
   was read, with its new parent_id.                                        *)
DoMove(c) ==
  LET x == Subject(c)  p == Argument(c)
      Final(e) == IF mode = "local" THEN <<"reparent", x, p>>
                  ELSE <<"write", x, [e EXCEPT !.parent = p]>>
  IN  /\ Now(c, "move")
      /\ \E e \in Gets(x):
           /\ Read(c, x, e)
           /\ Continue(c, IF e = Nothing THEN <<>>
                          ELSE Unless(e.parent = Root, <<"unlink", e.parent, x>>)
                               \o Unless(p = Root, <<"link", p, x>>) \o <<Final(e)>>)
      /\ UNCHANGED <<store, draft, frames>>

DoReparent(c) ==
  /\ Now(c, "reparent")
  /\ store' = [store EXCEPT ![Subject(c)].parent = Argument(c)]
  /\ Touches(c, Subject(c), TRUE)
  /\ Continue(c, Later(c)) /\ UNCHANGED <<draft, frames>>

(* delete_file reads the entry and loops over its children if it is recursive.
   Nested too deep, or a folder below itself, it ends in a RecursionError.   *)
DoDelete(c) ==
  LET x == Subject(c)  recursive == Argument(c) IN
  /\ Now(c, "delete")
  /\ \E e \in Gets(x):
       IF e = Nothing
       THEN Read(c, x, e) /\ Continue(c, <<>>) /\ UNCHANGED frames
       ELSE IF Len(frames[c]) >= MaxDepth
       THEN Touches(c, x, FALSE) /\ Continue(c, <<>>) /\ frames' = [frames EXCEPT ![c] = <<>>]
       ELSE /\ Read(c, x, e) /\ Continue(c, <<>>)
            /\ frames' = [frames EXCEPT ![c] =
                 <<[file |-> x, parent |-> e.parent, loop |-> e.folder /\ recursive,
                    list |-> e.objects, turn |-> 1]>> \o @]
  /\ UNCHANGED <<store, draft>>

(* The next turn of the loop: the child is deleted.  Remotely the children are
   those of the copy that was read; locally the loop runs over the list in the
   cache, from which the turn before has removed its child.  A dict in the list
   is a TypeError.  After the last child the entry itself goes, out of its
   parent's list first.                                                      *)
Turn(c, recursive) ==
  LET frame == Head(frames[c])  f == frame.file
      list == IF ~frame.loop \/ (mode = "local" /\ ~Exists(f)) THEN <<>>
              ELSE IF mode = "local" THEN store[f].objects ELSE frame.list
      child == list[frame.turn]
      Own == Unless(frame.parent = Root, <<"unlink", frame.parent, f>>)
             \o <<<<"drop", f, Nothing>>>>
  IN  /\ agenda[c] = <<>> /\ draft[c] = Nothing /\ frames[c] # <<>>
      /\ IF frame.turn > Len(list) THEN Continue(c, Own) /\ UNCHANGED frames
         ELSE IF child \notin Ids
         THEN Continue(c, <<>>) /\ frames' = [frames EXCEPT ![c] = <<>>]
         ELSE /\ Continue(c, <<<<"delete", child, recursive>>>>)
              /\ frames' = [frames EXCEPT ![c] =
                              <<[frame EXCEPT !.turn = @ + 1]>> \o Tail(@)]
      /\ Touches(c, f, TRUE)
      /\ UNCHANGED <<store, draft>>

\* Mutant: of the children that are folders only the entry goes.
ShallowTurn(c) == Turn(c, FALSE)

DoTurn(c) == Turn(c, TRUE)

(* get_file(expand_children=True) locally: the list in the cache becomes a list
   of the children's dicts; children that are not found are dropped from it.  *)
DoList(c) ==
  LET f == Subject(c)
      list == IF IsFolder(f) THEN store[f].objects ELSE <<>>
      found == {i \in DOMAIN list: list[i] \in Usable /\ Exists(list[i])}
  IN  /\ Now(c, "list")
      /\ IF list = <<>> \/ ~(ToSet(list) \subseteq Ids) THEN UNCHANGED store
         ELSE \E nth \in [1..Cardinality(found) -> found]:
                /\ \A i, j \in DOMAIN nth: i < j => nth[i] < nth[j]
                /\ store' = [store EXCEPT ![f].objects =
                               [i \in DOMAIN nth |-> Dict(list[nth[i]])]]
      /\ Touches(c, f, list = <<>>)
      /\ Continue(c, Later(c)) /\ UNCHANGED <<draft, frames>>

TreeStep(c) == \/ DoWrite(c) \/ DoSave(c) \/ DoDrop(c) \/ DoLink(c) \/ DoUnlink(c)
               \/ DoUpdate(c) \/ DoMove(c) \/ DoReparent(c)
               \/ DoDelete(c) \/ DoTurn(c) \/ DoList(c)

TreeCall(c) ==
  \/ \E x \in Ids, p \in Usable \cup {Root}, folder \in BOOLEAN: CreateFile(c, x, p, folder)
  \/ \E x \in Usable: UpdateFile(c, x) \/ ListFolder(c, x)
  \/ \E x \in Usable, recursive \in BOOLEAN: DeleteFile(c, x, recursive)
  \/ \E x \in Usable, p \in Usable \cup {Root}: MoveFile(c, x, p)

TreeNext == \E c \in Clients: TreeCall(c) \/ TreeStep(c)

TreeSpec == TreeInit /\ [][TreeNext]_treeVars

-----------------------------------------------------------------------------
(* Properties. *)

Quiet == \A c \in Clients: ~Busy(c)

(* While nothing failed and overlapping operations kept to entries of their
   own, parent_id and the lists agree: a folder lists an entry exactly if the
   entry names it as its parent, and lists it once.                         *)
TreeConsistent ==
  clean /\ Quiet =>
    \A f \in Usable, x \in Ids:
      IsFolder(f) /\ Exists(x) =>
        /\ (store[x].parent = f) <=> (x \in Elements(store[f]))
        /\ Cardinality({i \in DOMAIN store[f].objects: store[f].objects[i] = x}) <= 1

(* With the cache service, of what the folder and the folders in it held
   delete_file(recursive=True) leaves exactly the entries whose ids
   _generate_id made, which get_file refuses to read - when it returns, no
   call failed and no operation overlapping it touched any of that.         *)
RemoteDeleteLeavesGenerated ==
  mode = "remote" /\ clean =>
    \A c \in Clients: ~Busy(c) =>
      /\ {x \in doomed[c]: Exists(x)} = doomed[c] \cap Generated
      /\ \A x \in Ids: Exists(x) /\ store[x].parent \in doomed[c] => x \in doomed[c]

(* A delete removes the entry it was asked for and, if it is recursive, only
   entries that were once put below it, whatever fails or overlaps; and while
   nothing failed and overlapping operations kept to entries of their own, only
   those below it by their own parent_id when they are removed, not one that
   has been moved out.                                                      *)
DeletesOnlySubtree ==
  [][\A x \in Ids: Exists(x) /\ store'[x] = Nothing =>
       \E c \in Clients:
         /\ Busy(c) /\ asked[c] # Nothing
         /\ \/ x = asked[c][1]
            \/ /\ asked[c][2] /\ x \in EverBelow(asked[c][1])
               /\ clean' => x \in Subtree(asked[c][1])]_treeVars
=============================================================================
