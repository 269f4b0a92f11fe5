----------------------------- MODULE PhpObjects -----------------------------
(***************************************************************************)
(* The objects and strings the extension hands to a PHP script             *)
(* (ext/kpqc.cpp, ext/kpqc_arginfo.h): reference-counted cells of the      *)
(* request's heap, the script's variables that hold them, and one action   *)
(* per function, method or language construct a statement of the script    *)
(* can apply to them.  A statement runs on one thread without preemption,  *)
(* so it is one step; inside it the code's calls of the Zend API are       *)
(* composed in their order.  Whether the native operation succeeds is      *)
(* KpqcCall's subject and a free choice here.                              *)
(***************************************************************************)
EXTENDS Algorithms, FiniteSets

CONSTANTS
  Scripts, \* [names |-> factory functions it calls, vars |-> its variables]
  MaxCell  \* bound on the cells alive at a time

ASSUME PhpObjectsAssumption ==
  /\ \A s \in Scripts : s.names \subseteq Signatures \cup Kems /\ IsFiniteSet(s.vars)
  /\ MaxCell \in Nat

VARIABLES
  script, \* the script of this request
  heap,   \* the request's heap
  var     \* what each variable of the script holds

objectVars == <<script, heap, var>>

Names == script.names
Vars == script.vars

-----------------------------------------------------------------------------
(* Classes as kpqc_arginfo.h registers them.                               *)

Properties ==
  [SignatureSizes |-> {"publicKey", "secretKey", "signature"},
   KemSizes |-> {"publicKey", "secretKey", "ciphertext", "sharedSecret"},
   KeyPair |-> {"publicKey", "secretKey"},
   EncapsulatedSecret |-> {"ciphertext", "sharedSecret"},
   SignatureAlgorithm |-> {"id", "sizes", "nativeName"},
   KeyEncapsulationAlgorithm |-> {"id", "sizes", "nativeName"}]
Classes == DOMAIN Properties
SizesClasses == {"SignatureSizes", "KemSizes"}
AlgorithmClasses == {"SignatureAlgorithm", "KeyEncapsulationAlgorithm"}

(* Faulty variant of the registration: one flag is forgotten.              *)
NotReadOnly == {<<"KeyPair", "secretKey">>}

(* Properties registered without ZEND_ACC_READONLY: none.                  *)
Writable == {}

PrivateProperties == AlgorithmClasses \X {"nativeName"}
PrivateConstructors == AlgorithmClasses

(* Values and cells.                                                       *)
Null == [type |-> "null"]
Unset == [type |-> "unset"]
Long(n) == [type |-> "long", n |-> n]
Ref(c) == [type |-> "ref", cell |-> c]

(* A string is what it says, about which parameter set, in how many bytes. *)
Text(what, of, len) == [what |-> what, of |-> of, len |-> len]

Cells == 1 .. MaxCell
Free == [kind |-> "free"]
String(text) == [kind |-> "string", rc |-> 1, text |-> text]
Object(class) ==
  [kind |-> "object", rc |-> 1, class |-> class,
   prop |-> [p \in Properties[class] |-> Unset]]

IsObject(h, c) == h[c].kind = "object"
Used(h) == {c \in Cells : h[c].kind # "free"}
Unused(h) == Cells \ Used(h)

(* The cell the allocator takes next; which one is its affair.             *)
Fresh(h) == CHOOSE c \in Unused(h) : TRUE

-----------------------------------------------------------------------------
(* The Zend API the code calls.                                            *)

AddRef(h, v) == IF v.type = "ref" THEN [h EXCEPT ![v.cell].rc = @ + 1] ELSE h

Children(cell) ==
  IF cell.kind = "object"
  THEN {c \in Cells : \E p \in DOMAIN cell.prop : cell.prop[p] = Ref(c)}
  ELSE {}

(* zval_ptr_dtor.  What a dying object holds is released with it; the only *)
(* object another one holds is a sizes object, and that holds no cells.    *)
Release(h, v) ==
  IF v.type # "ref" THEN h
  ELSE IF h[v.cell].rc > 1 THEN [h EXCEPT ![v.cell].rc = @ - 1]
  ELSE LET orphans == Children(h[v.cell])
       IN [c \in Cells |->
             IF c = v.cell \/ (c \in orphans /\ h[c].rc = 1) THEN Free
             ELSE IF c \in orphans THEN [h[c] EXCEPT !.rc = @ - 1]
             ELSE h[c]]

(* object_init_ex, and the strings made by ZVAL_STRINGL or strpprintf: the *)
(* new cell is Fresh(h) and belongs to whoever made it.                    *)
Make(h, cell) == [h EXCEPT ![Fresh(h)] = cell]

(* zend_update_property.  The property takes a reference of its own; a     *)
(* read-only one that is initialised refuses, with an Error.               *)
UpdateProperty(h, o, p, v) ==
  LET old == h[o].prop[p]
  IN IF old = Unset \/ <<h[o].class, p>> \in Writable
     THEN Release(AddRef([h EXCEPT ![o].prop[p] = v], v), old)
     ELSE h

(* zend_update_property_stringl: a temporary string, stored and released.  *)
UpdateString(h, o, p, text) ==
  LET s == Ref(Fresh(h))
  IN Release(UpdateProperty(Make(h, String(text)), o, p, s), s)

(* zend_update_property_long, for each member of sizes.                    *)
UpdateLongs(h, o, sizes) ==
  [h EXCEPT ![o].prop = [p \in DOMAIN @ |->
     IF @[p] = Unset \/ <<h[o].class, p>> \in Writable THEN Long(sizes[p]) ELSE @[p]]]

-----------------------------------------------------------------------------
(* Helpers of ext/kpqc.cpp.                                                *)

(* read_string_property.                                                   *)
ReadString(c, p) == heap[heap[c].prop[p].cell].text

CreateKeyPair(h, name, sizes) ==
  LET o == Fresh(h)
      made == Make(h, Object("KeyPair"))
      half == UpdateString(made, o, "publicKey",
                           Text("publicKey", name, sizes.publicKey))
  IN UpdateString(half, o, "secretKey", Text("secretKey", name, sizes.secretKey))

CreateEncapsulatedSecret(h, name, sizes) ==
  LET o == Fresh(h)
      made == Make(h, Object("EncapsulatedSecret"))
      half == UpdateString(made, o, "ciphertext",
                           Text("ciphertext", name, sizes.ciphertext))
  IN UpdateString(half, o, "sharedSecret",
                  Text("sharedSecret", name, sizes.sharedSecret))

CreateSizes(h, class, sizes) ==
  UpdateLongs(Make(h, Object(class)), Fresh(h), sizes)

(* Faulty variant of the temporary's end: the code forgets to release it.  *)
KeepTemporary(h, v) == h

(* zval_ptr_dtor(&sizes) in both create_*_algorithm.                       *)
DropTemporary(h, v) == Release(h, v)

CreateAlgorithm(h, class, sizesClass, name) ==
  LET a == Algorithm(Accessor(name))
      o == Fresh(h)
      named == UpdateString(Make(h, Object(class)), o, "id", Text("id", a.id, 0))
      s == Ref(Fresh(named))
      held == UpdateProperty(CreateSizes(named, sizesClass, a.sizes), o, "sizes", s)
  IN UpdateString(DropTemporary(held, s), o, "nativeName",
                  Text("nativeName", name, 0))

-----------------------------------------------------------------------------
(* Statements of the script.                                               *)

InitObjects ==
  /\ script \in Scripts
  /\ heap = [c \in Cells |-> Free]
  /\ var = [x \in Vars |-> Null]

(* "$x = <a value the heap h holds>": the old value is released last.      *)
Assign(x, h, v) ==
  /\ var' = [var EXCEPT ![x] = v]
  /\ heap' = Release(h, var[x])
  /\ UNCHANGED script

(* A statement that throws assigns nothing and has released what it made.  *)
Throws == UNCHANGED objectVars

(* Bound: the cells a statement needs at a time must be free.              *)
Room(n) == Cardinality(Unused(heap)) >= n

(* $x holds an object of one of these classes, in cell c.                  *)
Holds(x, c, classes) ==
  /\ var[x] = Ref(c)
  /\ IsObject(heap, c)
  /\ heap[c].class \in classes

(* $x = KpqC\<name>()                                                      *)
Factory(x) ==
  /\ Room(4)
  /\ \E name \in Names :
       Assign(x,
              IF name \in Signatures
              THEN CreateAlgorithm(heap, "SignatureAlgorithm", "SignatureSizes", name)
              ELSE CreateAlgorithm(heap, "KeyEncapsulationAlgorithm", "KemSizes", name),
              Ref(Fresh(heap)))

(* The four public constructors, on values of the script.                  *)
Construct(h, o) ==
  LET given(p) == Text(p, "script", 0)
  IN CASE h[o].class \in SizesClasses ->
            UpdateLongs(h, o, [p \in Properties[h[o].class] |-> 0])
       [] h[o].class = "KeyPair" ->
            UpdateString(UpdateString(h, o, "publicKey", given("publicKey")),
                         o, "secretKey", given("secretKey"))
       [] h[o].class = "EncapsulatedSecret" ->
            UpdateString(UpdateString(h, o, "ciphertext", given("ciphertext")),
                         o, "sharedSecret", given("sharedSecret"))

(* $x = new <class>(...)                                                   *)
New(x) ==
  /\ Room(3)
  /\ \E class \in Classes \ PrivateConstructors :
       Assign(x, Construct(Make(heap, Object(class)), Fresh(heap)), Ref(Fresh(heap)))

(* $x->__construct(...) on an object that is constructed already: every    *)
(* property refuses, one after the other.                                  *)
Reconstruct(x) ==
  /\ Room(1)
  /\ \E c \in Cells :
       /\ Holds(x, c, Classes \ PrivateConstructors)
       /\ heap' = Construct(heap, c)
  /\ UNCHANGED <<script, var>>

-----------------------------------------------------------------------------
(* Methods of the algorithm objects.                                       *)

(* The parameter set an object names, and its algorithm.                   *)
Native(c) == Accessor(ReadString(c, "nativeName").of)
SizesOf(c) == Algorithm(Native(c)).sizes

GenerateKeyPair(x, y) ==
  /\ Room(3)
  /\ \E c \in Cells :
       /\ Holds(x, c, AlgorithmClasses)
       /\ \/ Assign(y, CreateKeyPair(heap, Native(c), SizesOf(c)), Ref(Fresh(heap)))
          \/ Throws

(* return_bytes: a new string of the script's.                             *)
ReturnBytes(y, what, of, len) ==
  Assign(y, Make(heap, String(Text(what, of, len))), Ref(Fresh(heap)))

Sign(x, y) ==
  /\ Room(1)
  /\ \E c \in Cells :
       /\ Holds(x, c, {"SignatureAlgorithm"})
       /\ \/ ReturnBytes(y, "signature", Native(c), SizesOf(c).signature)
          \/ Throws

(* The answer is a Boolean, which no cell holds.                           *)
Verify(x) ==
  /\ \E c \in Cells : Holds(x, c, {"SignatureAlgorithm"})
  /\ UNCHANGED objectVars

Encapsulate(x, y) ==
  /\ Room(3)
  /\ \E c \in Cells :
       /\ Holds(x, c, {"KeyEncapsulationAlgorithm"})
       /\ \/ Assign(y, CreateEncapsulatedSecret(heap, Native(c), SizesOf(c)),
                    Ref(Fresh(heap)))
          \/ Throws

Decapsulate(x, y) ==
  /\ Room(1)
  /\ \E c \in Cells :
       /\ Holds(x, c, {"KeyEncapsulationAlgorithm"})
       /\ \/ ReturnBytes(y, "sharedSecret", Native(c), SizesOf(c).sharedSecret)
          \/ Throws

-----------------------------------------------------------------------------
(* Conversions and the language's own constructs.                          *)

(* RETURN_STR_COPY(id)                                                     *)
IdToString(x, y) ==
  /\ \E c \in Cells :
       /\ Holds(x, c, AlgorithmClasses)
       /\ Assign(y, AddRef(heap, heap[c].prop["id"]), heap[c].prop["id"])

(* RETURN_STR(strpprintf(...)): only the length of the public part shows.  *)
RedactedToString(x, y) ==
  /\ Room(1)
  /\ \E c \in Cells :
       \/ /\ Holds(x, c, {"KeyPair"})
          /\ ReturnBytes(y, "shown", "KeyPair", ReadString(c, "publicKey").len)
       \/ /\ Holds(x, c, {"EncapsulatedSecret"})
          /\ ReturnBytes(y, "shown", "EncapsulatedSecret",
                         ReadString(c, "ciphertext").len)

(* $y = $x->p, for the properties that hold a cell.                        *)
ReadProperty(x, y) ==
  \E c \in Cells :
    /\ Holds(x, c, Classes)
    /\ \E p \in Properties[heap[c].class] :
         IF <<heap[c].class, p>> \in PrivateProperties THEN Throws
         ELSE /\ heap[c].prop[p].type = "ref"
              /\ Assign(y, AddRef(heap, heap[c].prop[p]), heap[c].prop[p])

(* $x->p = $y                                                              *)
WriteProperty(x, y) ==
  /\ \E c \in Cells :
       /\ Holds(x, c, Classes)
       /\ \E p \in Properties[heap[c].class] :
            heap' = IF <<heap[c].class, p>> \in PrivateProperties THEN heap
                    ELSE UpdateProperty(heap, c, p, var[y])
  /\ UNCHANGED <<script, var>>

(* $y = clone $x                                                           *)
Clone(x, y) ==
  /\ Room(1)
  /\ \E c \in Cells :
       /\ Holds(x, c, Classes)
       /\ LET shared == [d \in Cells |-> IF d \in Children(heap[c])
                                         THEN [heap[d] EXCEPT !.rc = @ + 1]
                                         ELSE heap[d]]
          IN Assign(y, Make(shared, [heap[c] EXCEPT !.rc = 1]), Ref(Fresh(heap)))

(* $y = $x                                                                 *)
Copy(x, y) == Assign(y, AddRef(heap, var[x]), var[x])

(* unset($x)                                                               *)
Drop(x) == Assign(x, heap, Null)

NextObjects ==
  \/ \E x \in Vars : Factory(x) \/ New(x) \/ Reconstruct(x) \/ Verify(x) \/ Drop(x)
  \/ \E x, y \in Vars :
       \/ GenerateKeyPair(x, y) \/ Sign(x, y)
       \/ Encapsulate(x, y) \/ Decapsulate(x, y)
       \/ IdToString(x, y) \/ RedactedToString(x, y)
       \/ ReadProperty(x, y) \/ WriteProperty(x, y)
       \/ Clone(x, y) \/ Copy(x, y)

SpecObjects == InitObjects /\ [][NextObjects]_objectVars

-----------------------------------------------------------------------------
(* Who holds cell c: variables of the script, properties of objects.       *)
HoldingVars(c) == {x \in Vars : var[x] = Ref(c)}
HoldingProperties(c) ==
  UNION { {<<o, p>> : p \in {q \in DOMAIN heap[o].prop : heap[o].prop[q] = Ref(c)}} :
          o \in {d \in Cells : IsObject(heap, d)} }

(* Between two statements every cell's count is the number of its holders: *)
(* nothing the extension made is leaked, and nothing is held after it was  *)
(* freed.  The code keeps the counts by hand: it releases the sizes object *)
(* it stored (kpqc.cpp:362, 384), copies the id it returns (632, 698) and  *)
(* gives away strings it made without copying (500, 540).                  *)
RefcountsExact ==
  \A c \in Cells :
    Cardinality(HoldingVars(c)) + Cardinality(HoldingProperties(c))
      = IF heap[c].kind = "free" THEN 0 ELSE heap[c].rc

(* An algorithm object shows the identifier and the sizes of the parameter *)
(* set its methods use, and they are the sizes that set's core works with, *)
(* whoever else holds the sizes object; and whatever a method returned has *)
(* the length its core wrote.  Four tables and the cores' parameters have  *)
(* to agree for this (kpqc.cpp:54-74, 349-386 and the four registries).    *)
Announced ==
  \A c \in Used(heap) :
    IF IsObject(heap, c) THEN
      heap[c].class \in AlgorithmClasses =>
        LET name == ReadString(c, "nativeName").of
            sizes == heap[heap[c].prop["sizes"].cell]
        IN /\ ReadString(c, "id").of = Algorithm(name).id
           /\ sizes.prop = [p \in DOMAIN CoreSizes(name) |->
                              Long(CoreSizes(name)[p])]
    ELSE LET text == heap[c].text
         IN text.of \in Names => text.what = "nativeName"
              \/ text.len = CoreSizes(text.of)[text.what]

(* "Named functions return immutable algorithm objects", "read-only        *)
(* objects" (README.md:63, 157): as long as a cell lives, whatever the     *)
(* script does with it, also calling its constructor again, what it holds  *)
(* stays (kpqc_arginfo.h:236-404).                                         *)
Immutable ==
  [][\A c \in Used(heap) \cap Used(heap') :
       /\ heap'[c].kind = heap[c].kind
       /\ IF IsObject(heap, c)
          THEN heap'[c].class = heap[c].class /\ heap'[c].prop = heap[c].prop
          ELSE heap'[c].text = heap[c].text]_objectVars
=============================================================================
