----------------------------- MODULE JsonDocument -----------------------------
(***************************************************************************)
(* The document of a CJsonParser (JsonParser.cpp) under any sequence of    *)
(* its calls.  A value is known by its type, an array by the types of its  *)
(* items, an object by those of its members.  jsoncpp is modelled by what  *)
(* json/value.h says of it: a value asked for as something it cannot be,   *)
(* or indexed as something it is not, ends the process; operator[] of a    *)
(* value that is not const creates a null member where there is none.      *)
(***************************************************************************)
EXTENDS Naturals, Sequences, FiniteSets

CONSTANTS
    Keys,       \* names of members of the document
    Subkeys,    \* names of members of its members
    Texts,      \* the documents to parse, as values
    MaxItems    \* bound: items of an array

Scalars == {"number", "bool", "string"}
Simple  == Scalars \cup {"null"}
Nothing == "absent"

(* A uniform shape for all values.                                         *)
Value(t, items, members) == [type |-> t, items |-> items, members |-> members]
NoMembers == [x \in Subkeys |-> Nothing]
Plain(t) == Value(t, << >>, NoMembers)

Absent == Plain(Nothing)
Empty  == [k \in Keys |-> Absent]
Root(t, members) == [type |-> t, members |-> members]

VARIABLES
    m_root,     \* m_root: its type and, for an object, its members
    aborted,    \* jsoncpp has ended the process
    last,       \* history: the last call, and the members it names
    created     \* history: null members the parser or a read has created

vars == <<m_root, aborted, last, created>>

Shapes ==
    [type : Simple \cup {"array", "object", Nothing}, items : Seq(Simple),
     members : [Subkeys -> Simple \cup {Nothing}]]

IsValue(v) ==
    /\ v \in Shapes /\ Len(v.items) <= MaxItems
    /\ v.type # "array" => v.items = << >>
    /\ v.type # "object" => v.members = NoMembers

IsDocument(d) ==
    /\ d \in [type : {"null", "object", "array"}, members : [Keys -> Shapes]]
    /\ \A k \in Keys : IsValue(d.members[k])
    /\ d.type # "object" => d.members = Empty

(* The null members of its members.                                        *)
Nulls(d) == {c \in Keys \X Subkeys : d.members[c[1]].members[c[2]] = "null"}

Call(op, k, x) == [op |-> op, key |-> k, sub |-> x]
None == "none"

TypeOK ==
    /\ IsDocument(m_root)
    /\ aborted \in BOOLEAN
    /\ created \subseteq Keys \X Subkeys

Init ==
    /\ m_root = Root("null", Empty)
    /\ aborted = FALSE
    /\ last = Call("Init", None, None) /\ created = {}
------------------------------------------------------------------------------
(* jsoncpp.                                                                *)

(* asInt, asDouble, asBool and asCString of a value; get of a member that  *)
(* is not there gives a default of the right type.                         *)
Convertible(t, as) ==
    \/ t \in {Nothing, as}
    \/ as = "number" /\ t \in {"null", "bool"}
    \/ as = "bool"   /\ t \in {"null", "number", "string", "array", "object"}

(* isMember aborts for a document that is an array.                        *)
IsMember(k) == m_root.type = "object" /\ m_root.members[k] # Absent

(* get of a member of v.                                                   *)
Members(v) == v.type \in {"object", "null"}

Abort ==
    /\ aborted' = TRUE
    /\ UNCHANGED <<m_root, created>>

Done(root) ==
    /\ m_root' = root
    /\ aborted' = FALSE
    /\ created' = {c \in created :
                     /\ root.members[c[1]].members[c[2]] # Nothing
                     /\ root.members[c[1]].members[c[2]]
                            = m_root.members[c[1]].members[c[2]]}

Same == UNCHANGED <<m_root, aborted, created>>

Store(k, v) == Root("object", [m_root.members EXCEPT ![k] = v])

Begin(op, k, x) == ~ aborted /\ last' = Call(op, k, x)
------------------------------------------------------------------------------
(* Faulty variants of definitions below; no specification uses them.       *)

(* A missing member is created by every read of one.                       *)
GetCreates(k, x, as) == m_root.members[k].members[x] = Nothing

(* valData starts empty although the key is there.                         *)
StartEmpty(k, t) == Plain(t)

(* m_root[key1][key2] creates the member, asked for as bool only.          *)
Creates(k, x, as) == as = "bool" /\ m_root.members[k].members[x] = Nothing

(* m_root[key] or, where there is none, a new value of type t.             *)
Start(k, t) ==
    IF m_root.members[k].type \in {Nothing, "null"} THEN Plain(t) ELSE m_root.members[k]

(* size() of a value, 0 for a scalar.                                      *)
Size(v) == IF v.type = "object" THEN Cardinality({x \in Subkeys : v.members[x] # Nothing})
           ELSE Len(v.items)
------------------------------------------------------------------------------
(* The parser creates a member or an item, null, before it reads its value *)
(* and keeps it when the text ends there.  Of f, read up to k: u is there  *)
(* of k, and all of what came before it.                                   *)
Partly(f, k, u, none) ==
    {[j \in DOMAIN f |-> IF j = k THEN u ELSE IF j \in S THEN f[j] ELSE none] :
        S \in SUBSET DOMAIN f}

(* What there is of items when the text ends.                              *)
BegunItems(s) ==
    {SubSeq(s, 1, n) : n \in 0 .. Len(s)}
    \cup {Append(SubSeq(s, 1, n - 1), "null") : n \in 1 .. Len(s)}

(* What there is of v when the text ends before it or in it.               *)
Begun(v) ==
    {Plain("null")}
    \cup {Value("array", s, NoMembers) :
              s \in IF v.type = "array" THEN BegunItems(v.items) ELSE {}}
    \cup UNION {{Value("object", << >>, f) : f \in Partly(v.members, x, "null", Nothing)} :
                     x \in {y \in Subkeys : v.members[y] # Nothing}}

(* InitData and ReadParse, on a new document.  A text that cannot be       *)
(* parsed may leave it with what came before the error.                    *)
ReadParse(text) ==
    /\ Begin("ReadParse", None, None)
    /\ \/ m_root' \in {text, Root("null", Empty)}
       \/ \E k \in Keys :
             /\ text.members[k] # Absent
             /\ \E u \in Begun(text.members[k]) :
                   m_root' \in {Root("object", g) : g \in Partly(text.members, k, u, Absent)}
    /\ created' = Nulls(m_root') /\ UNCHANGED aborted

(* ReadValueInt, ReadValueDouble, ReadValueBool, ReadValueString.          *)
ReadValue(k, as) ==
    /\ Begin("ReadValue", k, None)
    /\ IF m_root.type = "array" \/ (IsMember(k) /\ ~ Convertible(m_root.members[k].type, as))
       THEN Abort ELSE Same

GetReadArrayCount(k) ==
    /\ Begin("GetReadArrayCount", k, None)
    /\ IF m_root.type = "array" THEN Abort ELSE Same

(* Item i, counted from 1; an object has a size, too, but no items.        *)
ReadArray(k, i) ==
    /\ Begin("ReadArray", k, None)
    /\ LET v == m_root.members[k]
       IN  IF \/ m_root.type = "array"
              \/ i <= Size(v) /\ (v.type = "array" => ~ Convertible(v.items[i], "string"))
           THEN Abort ELSE Same

(* ReadArrayValueInt, ReadArrayValueDouble, ReadArrayValueBool and         *)
(* ReadArrayValueString.                                                   *)
ReadArrayValue(k, x, as) ==
    /\ Begin("ReadArrayValue", k, x)
    /\ LET v == m_root.members[k]
       IN  CASE m_root.type = "array" -> Abort
             [] m_root.type # "array" /\ ~ IsMember(k) -> Same
             [] IsMember(k) /\ (~ Members(v) \/ ~ Convertible(v.members[x], as)) -> Abort
             [] IsMember(k) /\ Members(v) /\ Convertible(v.members[x], as) ->
                    IF Creates(k, x, as)
                    THEN /\ m_root' = Store(k, Value("object", << >>,
                                                     [v.members EXCEPT ![x] = "null"]))
                         /\ created' = IF as = "bool" THEN created \cup {<<k, x>>} ELSE created
                         /\ UNCHANGED aborted
                    ELSE Same

(* WriteValueString, WriteValueInt, WriteValueDouble, WriteValueBool and   *)
(* WriteValueLongLong.                                                     *)
WriteValue(k, t) ==
    /\ Begin("WriteValue", k, None)
    /\ IF m_root.type = "array" THEN Abort ELSE Done(Store(k, Plain(t)))

WriteArrayAppend(k) ==
    /\ Begin("WriteArrayAppend", k, None)
    /\ Len(m_root.members[k].items) < MaxItems
    /\ LET v == Start(k, "array")
       IN  IF m_root.type = "array" \/ v.type # "array"
           THEN /\ aborted' = TRUE
                /\ UNCHANGED <<m_root, created>>
           ELSE Done(Store(k, Value("array", Append(v.items, "string"), NoMembers)))

(* WriteArrayValueString, WriteArrayValueInt, WriteArrayValueDouble and    *)
(* WriteArrayValueBool.                                                    *)
WriteArrayValue(k, x, t) ==
    /\ Begin("WriteArrayValue", k, x)
    /\ LET v == Start(k, "object")
       IN  IF m_root.type = "array" \/ v.type # "object"
           THEN /\ aborted' = TRUE
                /\ UNCHANGED <<m_root, created>>
           ELSE Done(Store(k, Value("object", << >>, [v.members EXCEPT ![x] = t])))

Read(k) ==
    \/ \E as \in Scalars : \/ ReadValue(k, as)
                           \/ \E x \in Subkeys : ReadArrayValue(k, x, as)
    \/ GetReadArrayCount(k)
    \/ \E i \in 1 .. MaxItems : ReadArray(k, i)

Write(k) ==
    \/ \E t \in Scalars : \/ WriteValue(k, t)
                          \/ \E x \in Subkeys : WriteArrayValue(k, x, t)
    \/ WriteArrayAppend(k)

Next == (\E text \in Texts : ReadParse(text)) \/ \E k \in Keys : Read(k) \/ Write(k)

Spec == Init /\ [][Next]_vars
------------------------------------------------------------------------------
(* A call leaves every member alone that it does not name: other keys of   *)
(* the document, other members of the same key, and the items that are     *)
(* already in an array.  Only a whole new value replaces them.             *)
LeavesOthers ==
    [][last'.op # "ReadParse" =>
        /\ \A k \in Keys \ {last'.key} : m_root'.members[k] = m_root.members[k]
        /\ last'.op # "WriteValue" =>
             \A k \in Keys :
                /\ \A x \in Subkeys \ {last'.sub} :
                      m_root'.members[k].members[x] = m_root.members[k].members[x]
                /\ SubSeq(m_root'.members[k].items, 1, Len(m_root.members[k].items))
                      = m_root.members[k].items]_vars

(* A null member was null in the parsed text, or was the last one before   *)
(* the text ended, or a read as bool has created it; and a write that      *)
(* names it replaces it.  A read as string of a null member ends the       *)
(* process, where one of a member that is not there gives an empty text.   *)
NullOrigin ==
    /\ TypeOK
    /\ \A k \in Keys, x \in Subkeys :
           m_root.members[k].members[x] = "null" <=> <<k, x>> \in created
==============================================================================
