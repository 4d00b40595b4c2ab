----------------------------- MODULE PathParser -----------------------------
(***************************************************************************)
(* pathparser_parse (src/fs/path_parser.c): a path becomes a drive number  *)
(* and a linked list of names, one character per step.                     *)
(*                                                                         *)
(* Any kzalloc may fail, and none is checked: NULL is memory like any      *)
(* other, and what is written there is lost.  A name that has no memory    *)
(* reads as the end of the path, and so does a part that has none, in      *)
(* which case its name stays allocated.  What kfree(NULL) does to the heap *)
(* when a name is refused and empty, too, is in KHeap.                     *)
(***************************************************************************)
EXTENDS Integers, Sequences, FiniteSets, SequencesExt

CONSTANTS
  NUTSOS_MAX_PATH,
  Inputs,     \* the paths: sequences of characters
  Digits      \* the characters that are digits

VARIABLES
  path,       \* the argument
  pos,        \* tmp_path: index of the character it points to
  pc,         \* "idle", "char", "part" or "done"
  i,          \* local of pathparser_extract_next_path_part
  name,       \* the characters in result_path_part, or "NULL"
  root,       \* path_root, or NULL: the drive and the names of its parts
  names,      \* name buffers allocated
  parts,      \* path_part structures allocated
  oom         \* history: an allocation failed

vars == <<path, pos, pc, i, name, root, names, parts, oom>>

NULL == [drive |-> "none", parts |-> <<>>]
NoName == <<"NULL">>

(* The character at an index; behind the last comes the terminator.        *)
End == "end"
At(k) == IF k <= Len(path) THEN path[k] ELSE End

Init ==
  /\ path = <<>> /\ pos = 1 /\ pc = "idle"
  /\ i = 0 /\ name = NoName
  /\ root = NULL
  /\ names = 0 /\ parts = 0 /\ oom = FALSE
-----------------------------------------------------------------------------
pathparser_is_path_valid(p) ==
  /\ Len(p) >= 3
  /\ p[1] \in Digits /\ p[2] = ":" /\ p[3] = "/"

(* pathparser_parse, up to its first part: the checks, the drive, the root.*)
pathparser_parse(p) ==
  /\ pc = "idle"
  /\ path' = p
  /\ IF Len(p) > NUTSOS_MAX_PATH \/ ~ pathparser_is_path_valid(p)
     THEN pc' = "done" /\ UNCHANGED <<pos, root, oom>>
     ELSE \/ /\ root' = [drive |-> p[1], parts |-> <<>>]
             /\ pos' = 4
             /\ pc' = "part" /\ UNCHANGED oom
          \/ oom' = TRUE /\ pc' = "done" /\ UNCHANGED <<pos, root>>
  /\ UNCHANGED <<i, name, names, parts>>

(* pathparser_extract_next_path_part gets its buffer.                      *)
NextPart ==
  /\ pc = "part"
  /\ i' = 0 /\ pc' = "char"
  /\ \/ name' = <<>> /\ names' = names + 1 /\ UNCHANGED oom
     \/ name' = NoName /\ oom' = TRUE /\ UNCHANGED names
  /\ UNCHANGED <<path, pos, root, parts>>

(* Stays at the character it has copied.                                   *)
Mut_Copy ==
  /\ pc = "char" /\ At(pos) \notin {"/", End}
  /\ name' = IF name = NoName THEN NoName ELSE <<At(pos)>>
  /\ i' = 1
  /\ UNCHANGED <<path, pos, pc, root, names, parts, oom>>

Copy ==
  /\ pc = "char" /\ At(pos) \notin {"/", End}
  /\ name' = IF name = NoName THEN NoName ELSE Append(name, At(pos))
  /\ pos' = pos + 1 /\ i' = i + 1
  /\ UNCHANGED <<path, pc, root, names, parts, oom>>

(* What is stepped over behind a name.                                     *)
Slash == IF At(pos) = "/" THEN 1 ELSE 0

(* The name ends: without a character its buffer is freed, and a part      *)
(* without a name ends the list.                                           *)
Empty ==
  /\ pc = "char" /\ At(pos) \in {"/", End}
  /\ i = 0 \/ name = NoName
  /\ pos' = pos + Slash
  /\ names' = IF name = NoName THEN names ELSE names - 1
  /\ name' = NoName
  /\ pc' = "done"
  /\ UNCHANGED <<path, i, root, parts, oom>>

(* Does not step over the slash.                                           *)
Mut_Linked ==
  /\ pc = "char" /\ At(pos) \in {"/", End}
  /\ i > 0 /\ name # NoName
  /\ UNCHANGED pos
  /\ root' = [root EXCEPT !.parts = Append(@, name)]
  /\ parts' = parts + 1 /\ pc' = "part"
  /\ name' = NoName
  /\ UNCHANGED <<path, i, names, oom>>

(* pathparser_parse_path_part links the name to the last part.             *)
Linked ==
  /\ pc = "char" /\ At(pos) \in {"/", End}
  /\ i > 0 /\ name # NoName
  /\ pos' = pos + Slash
  /\ root' = [root EXCEPT !.parts = Append(@, name)]
  /\ parts' = parts + 1 /\ pc' = "part"
  /\ name' = NoName
  /\ UNCHANGED <<path, i, names, oom>>

(* It gets no memory for the part: the last one's next is set to NULL.     *)
Lost ==
  /\ pc = "char" /\ At(pos) \in {"/", End}
  /\ i > 0 /\ name # NoName
  /\ pos' = pos + Slash
  /\ oom' = TRUE /\ pc' = "done"
  /\ name' = NoName
  /\ UNCHANGED <<path, i, root, names, parts>>

Step == NextPart \/ Copy \/ Empty \/ Linked \/ Lost
-----------------------------------------------------------------------------
(* A path that begins with a drive and a slash and is not too long.        *)
Legal(p) ==
  /\ Len(p) <= NUTSOS_MAX_PATH
  /\ \E d \in Digits : IsPrefix(<<d, ":", "/">>, p)

(* The names that a path spells: the k-th one stands between the k-th slash*)
(* and the next, or the end; the first empty one ends the list.            *)
Spelt(p) ==
  LET slashes == {k \in 1 .. Len(p) + 1 : k = Len(p) + 1 \/ p[k] = "/"}
      nth(n) == CHOOSE k \in slashes : Cardinality({j \in slashes : j <= k}) = n
      field(n) == SubSeq(p, nth(n) + 1, nth(n + 1) - 1)
      empty == {Cardinality(slashes)} \cup {n \in 1 .. Cardinality(slashes) - 1 : field(n) = <<>>}
      first == CHOOSE n \in empty : \A m \in empty : n <= m
  IN  [k \in 1 .. first - 1 |-> field(k)]

(* The list says what the path says, and may be shorter only when memory   *)
(* ran out.  Every path that is not legal is refused, and no other is.     *)
ListIsPath ==
  pc = "done" =>
    /\ root # NULL => Legal(path) /\ root.drive = path[1] /\ IsPrefix(root.parts, Spelt(path))
    /\ ~ oom /\ Legal(path) => root # NULL /\ root.parts = Spelt(path)

(* When all memory is granted, the buffers in use are those of the list:   *)
(* the one of the name that ended the list has been given back.            *)
NothingBesidesTheList ==
  pc = "done" /\ ~ oom => names = Len(root.parts) /\ parts = Len(root.parts)
=============================================================================
