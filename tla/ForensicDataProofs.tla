-------------------------- MODULE ForensicDataProofs --------------------------
(***************************************************************************)
(* What ForensicData.tla promises for every set of names, texts and        *)
(* artifacts and every width of the integers: caches never disagree with   *)
(* the values they were computed from unless a value was changed in place, *)
(* a record keeps its name, a second reading of it changes nothing, every  *)
(* cast fits its type, and a record that is sent answers as it did.  Then  *)
(* the names of the artifacts that records are of.                         *)
(***************************************************************************)
EXTENDS ForensicData, ArtifactNames, SharedLemmas, FunctionTheorems

\* What there is to assign to, in an InternalField, in a ForensicData, overall.
EntryShape(e) == /\ {"original", "cache"} \subseteq DOMAIN e
                 /\ CacheKind \subseteq DOMAIN e.cache
RecordShape(d) == /\ {"artifact", "fields"} \subseteq DOMAIN d
                  /\ \A n \in DOMAIN d.fields : EntryShape(d.fields[n])
Shape == /\ DOMAIN data = Object
         /\ lent = [o \in Object |-> lent[o]] /\ renamed = [o \in Object |-> renamed[o]]
         /\ \A o \in Object : RecordShape(data[o])

\* A cache knows nothing or the cast of the original.
Coherent(e) == \A k \in CacheKind : \/ e.cache[k] = Nothing
                                    \/ e.cache[k] = Cast(k, e.original)
CachesCoherent ==
  \A o \in Object : \A n \in DOMAIN data[o].fields \ lent[o] : Coherent(data[o].fields[n])

Named(d) == NAME \in DOMAIN d.fields =>
              LET written == d.fields[NAME].original
              IN  written.is = "Text" => \/ written.val = ArtifactName[d.artifact]
                                         \/ d.artifact = ArtifactIn[written.val]
NamesKept == \A o \in Object : ~renamed[o] => Named(data[o])

DataInv == Shape /\ CachesCoherent /\ NamesKept
-----------------------------------------------------------------------------
\* What Make leaves of the invariant: it is enough to look at the new record.
LEMMA MakeKeepsInv ==
  ASSUME NEW o \in Object, NEW d, NEW l, NEW r, DataInv, Make(o, d, l, r),
         RecordShape(d),
         \A n \in DOMAIN d.fields \ l : Coherent(d.fields[n]),
         ~r => Named(d)
  PROVE  DataInv'
<1>1. \A p \in Object : /\ p = o => data'[p] = d /\ lent'[p] = l /\ renamed'[p] = r
                        /\ p # o => /\ data'[p] = data[p] /\ lent'[p] = lent[p]
                                    /\ renamed'[p] = renamed[p]
  BY DEF Make, DataInv, Shape
<1>2. /\ DOMAIN data' = Object
      /\ lent' = [p \in Object |-> lent'[p]] /\ renamed' = [p \in Object |-> renamed'[p]]
  BY DEF Make, DataInv, Shape
<1>3. ASSUME NEW p \in Object  PROVE RecordShape(data'[p])
  BY <1>1 DEF DataInv, Shape
<1>4. ASSUME NEW p \in Object, NEW n \in DOMAIN data'[p].fields \ lent'[p]
      PROVE  Coherent(data'[p].fields[n])
  BY <1>1 DEF DataInv, CachesCoherent
<1>5. ASSUME NEW p \in Object, ~renamed'[p]  PROVE Named(data'[p])
  BY <1>1, <1>5 DEF DataInv, NamesKept
<1>6. QED  BY <1>2, <1>3, <1>4, <1>5 DEF DataInv, Shape, CachesCoherent, NamesKept,
     RecordShape, EntryShape, Coherent, Named, HasField

\* A fresh InternalField is coherent: what Into fills in is the field's own cast.
LEMMA StoreCoherent ==
  ASSUME NEW f
  PROVE  EntryShape(Store(f)) /\ Coherent(Store(f)) /\ Store(f).original = f
<1>1. EntryShape(Store(f)) /\ Store(f).original = f
  BY DEF Store, EntryShape
<1>2. ASSUME NEW k \in CacheKind, k = OwnKind(f)
      PROVE  Cast(k, f) = Some(f.val)
  BY <1>2 DEF OwnKind, Cast, CacheKind, AsF64, AsI64, AsU64, AsIp
<1>3. ASSUME NEW k \in CacheKind
      PROVE  Store(f).cache[k] = IF k = OwnKind(f) THEN Some(f.val) ELSE Nothing
  BY DEF Store
<1>4. QED  BY <1>1, <1>2, <1>3 DEF Coherent

\* A record of fresh fields: ForensicData::default and new, and one just read.
LEMMA FreshRecord ==
  ASSUME NEW d, DOMAIN d = {"artifact", "fields"},
         \A n \in DOMAIN d.fields : \E f : d.fields[n] = Store(f)
  PROVE  RecordShape(d) /\ \A n \in DOMAIN d.fields : Coherent(d.fields[n])
BY StoreCoherent DEF RecordShape

\* Records that nobody filled hold no cache to disagree with.
LEMMA InitInv == Init => DataInv
<1> SUFFICES ASSUME Init PROVE DataInv
  OBVIOUS
<1>1. DOMAIN Blank = {"artifact", "fields"} /\ DOMAIN Blank.fields = {}
  BY DEF Blank
<1>2. /\ DOMAIN data = Object
      /\ lent = [p \in Object |-> lent[p]] /\ renamed = [p \in Object |-> renamed[p]]
      /\ \A o \in Object : data[o] = Blank
  BY DEF Init
<1>3. RecordShape(Blank)
  BY <1>1 DEF RecordShape
<1>4. QED  BY <1>1, <1>2, <1>3 DEF DataInv, Shape, CachesCoherent, NamesKept, Named

\* ForensicData::default fills in the fields of the context, fresh.
LEMMA DefaultKeepsInv ==
  ASSUME DataInv, NEW t \in Thread, NEW o \in Object, Default(t, o)
  PROVE  DataInv'
<1> DEFINE Says(n) == String(CASE n = HOST -> context[t].host
                               [] n = TENANT -> context[t].tenant
                               [] n = NAME -> ArtifactName[context[t].artifact])
           d == [artifact |-> context[t].artifact,
                 fields |-> [n \in {HOST, TENANT, NAME} |-> Store(Says(n))]]
<1>1. Make(o, d, {}, FALSE)
  BY DEF Default
<1>2. /\ DOMAIN d = {"artifact", "fields"} /\ DOMAIN d.fields = {HOST, TENANT, NAME}
      /\ \A n \in DOMAIN d.fields : d.fields[n] = Store(Says(n))
  OBVIOUS
<1>3. RecordShape(d) /\ \A n \in DOMAIN d.fields : Coherent(d.fields[n])
  <2> HIDE DEF d, Says
  <2> QED  BY <1>2, FreshRecord
<1>4. Says(NAME) = String(ArtifactName[context[t].artifact])
  BY DataAssumption
<1>5. d.fields[NAME].original = Says(NAME)
  <2> HIDE DEF d, Says
  <2> QED  BY <1>2, StoreCoherent
<1>6. Named(d)
  <2>1. d.fields[NAME].original.val = ArtifactName[d.artifact]
    BY <1>4, <1>5 DEF String
  <2> HIDE DEF d
  <2> QED  BY <2>1 DEF Named
<1>7. QED
  <2> HIDE DEF d
  <2> QED  BY <1>1, <1>3, <1>6, MakeKeepsInv

\* So does ForensicData::new, with the artifact's own name.
LEMMA NewKeepsInv ==
  ASSUME DataInv, NEW o \in Object, NEW host, NEW a, New(o, host, a)
  PROVE  DataInv'
<1> DEFINE Says(n) == String(IF n = HOST THEN host ELSE ArtifactName[a])
           d == [artifact |-> a, fields |-> [n \in {HOST, NAME} |-> Store(Says(n))]]
<1>1. Make(o, d, {}, FALSE)
  BY DEF New
<1>2. /\ DOMAIN d = {"artifact", "fields"} /\ DOMAIN d.fields = {HOST, NAME}
      /\ \A n \in DOMAIN d.fields : d.fields[n] = Store(Says(n))
  OBVIOUS
<1>3. RecordShape(d) /\ \A n \in DOMAIN d.fields : Coherent(d.fields[n])
  <2> HIDE DEF d, Says
  <2> QED  BY <1>2, FreshRecord
<1>4. Says(NAME) = String(ArtifactName[a])
  BY DataAssumption
<1>5. d.fields[NAME].original = Says(NAME)
  <2> HIDE DEF d, Says
  <2> QED  BY <1>2, StoreCoherent
<1>6. Named(d)
  <2>1. d.fields[NAME].original.val = ArtifactName[d.artifact]
    BY <1>4, <1>5 DEF String
  <2> HIDE DEF d
  <2> QED  BY <2>1 DEF Named
<1>7. QED
  <2> HIDE DEF d
  <2> QED  BY <1>1, <1>3, <1>6, MakeKeepsInv

\* insert replaces a field and its caches at once.
LEMMA InsertKeepsInv ==
  ASSUME DataInv, NEW o \in Object, NEW n, NEW f, Insert(o, n, f)
  PROVE  DataInv'
<1> DEFINE d == [data[o] EXCEPT !.fields = [m \in DOMAIN @ \cup {n} |->
                                             IF m = n THEN Store(f) ELSE @[m]]]
<1>1. Make(o, d, lent[o] \ {n}, renamed[o] \/ n = NAME)
  BY DEF Insert
<1>2. RecordShape(data[o])
  BY DEF DataInv, Shape
<1>3. /\ {"artifact", "fields"} \subseteq DOMAIN d /\ d.artifact = data[o].artifact
      /\ DOMAIN d.fields = DOMAIN data[o].fields \cup {n}
      /\ \A m \in DOMAIN d.fields : d.fields[m] = IF m = n THEN Store(f)
                                                  ELSE data[o].fields[m]
  BY <1>2 DEF RecordShape
<1> HIDE DEF d
<1>4. RecordShape(d)
  BY <1>2, <1>3, StoreCoherent DEF RecordShape
<1>5. \A m \in DOMAIN d.fields \ (lent[o] \ {n}) : Coherent(d.fields[m])
  BY <1>3, StoreCoherent DEF DataInv, CachesCoherent
<1>6. ~(renamed[o] \/ n = NAME) => Named(d)
  BY <1>3 DEF DataInv, NamesKept, Named
<1>7. QED  BY <1>1, <1>4, <1>5, <1>6, MakeKeepsInv

\* field_mut lends a field out: from then on its caches may be stale.
LEMMA FieldMutKeepsInv ==
  ASSUME DataInv, NEW o \in Object, NEW n, NEW f, FieldMut(o, n, f)
  PROVE  DataInv'
<1> DEFINE d == [data[o] EXCEPT !.fields[n].original = f]
<1>1. Make(o, d, lent[o] \cup {n}, renamed[o] \/ n = NAME) /\ n \in DOMAIN data[o].fields
  BY DEF FieldMut, HasField
<1>2. RecordShape(data[o])
  BY DEF DataInv, Shape
<1>3. /\ {"artifact", "fields"} \subseteq DOMAIN d /\ d.artifact = data[o].artifact
      /\ DOMAIN d.fields = DOMAIN data[o].fields
      /\ DOMAIN d.fields[n] = DOMAIN data[o].fields[n]
      /\ d.fields[n].cache = data[o].fields[n].cache
      /\ \A m \in DOMAIN d.fields : m # n => d.fields[m] = data[o].fields[m]
  BY <1>1, <1>2 DEF RecordShape, EntryShape
<1> HIDE DEF d
<1>4. RecordShape(d)
  BY <1>1, <1>2, <1>3 DEF RecordShape, EntryShape
<1>5. \A m \in DOMAIN d.fields \ (lent[o] \cup {n}) : Coherent(d.fields[m])
  BY <1>3 DEF DataInv, CachesCoherent
<1>6. ~(renamed[o] \/ n = NAME) => Named(d)
  BY <1>1, <1>3 DEF DataInv, NamesKept, Named
<1>7. QED  BY <1>1, <1>4, <1>5, <1>6, MakeKeepsInv

\* An accessor that computes a cast stores it in the field's own cache.
LEMMA CastFieldKeepsInv ==
  ASSUME DataInv, NEW o \in Object, NEW n, NEW k \in CacheKind, CastField(o, n, k)
  PROVE  DataInv'
<1> DEFINE c == Cast(k, data[o].fields[n].original)
           d == [data[o] EXCEPT !.fields[n].cache[k] = c]
<1>1. Make(o, d, lent[o], renamed[o]) /\ n \in DOMAIN data[o].fields
  <2>1. data' = [data EXCEPT ![o] = d]
    BY DEF CastField
  <2>2. lent' = [lent EXCEPT ![o] = lent[o]] /\ renamed' = [renamed EXCEPT ![o] = renamed[o]]
    BY DEF CastField, DataInv, Shape
  <2>3. QED  BY <2>1, <2>2 DEF CastField, HasField, Make
<1>2. RecordShape(data[o])
  BY DEF DataInv, Shape
<1>3. /\ {"artifact", "fields"} \subseteq DOMAIN d /\ d.artifact = data[o].artifact
      /\ DOMAIN d.fields = DOMAIN data[o].fields
      /\ DOMAIN d.fields[n] = DOMAIN data[o].fields[n]
      /\ d.fields[n].original = data[o].fields[n].original
      /\ DOMAIN d.fields[n].cache = DOMAIN data[o].fields[n].cache
      /\ \A j \in CacheKind : d.fields[n].cache[j] = IF j = k THEN c
                                                     ELSE data[o].fields[n].cache[j]
      /\ \A m \in DOMAIN d.fields : m # n => d.fields[m] = data[o].fields[m]
  <2> HIDE DEF c
  <2> QED  BY <1>1, <1>2 DEF RecordShape, EntryShape
<1>4. c = Cast(k, d.fields[n].original)
  BY <1>3
<1> HIDE DEF d, c
<1>5. RecordShape(d)
  BY <1>1, <1>2, <1>3 DEF RecordShape, EntryShape
<1>6. \A m \in DOMAIN d.fields \ lent[o] : Coherent(d.fields[m])
  <2> SUFFICES ASSUME NEW m \in DOMAIN d.fields \ lent[o]  PROVE Coherent(d.fields[m])
    OBVIOUS
  <2>1. Coherent(data[o].fields[m])
    BY <1>3 DEF DataInv, CachesCoherent
  <2>2. CASE m = n
    BY <2>1, <2>2, <1>3, <1>4 DEF Coherent
  <2>3. CASE m # n
    BY <2>1, <2>3, <1>3
  <2>4. QED  BY <2>2, <2>3
<1>7. ~renamed[o] => Named(d)
  <2>1. \A m \in DOMAIN d.fields : d.fields[m].original = data[o].fields[m].original
    BY <1>3
  <2>2. QED  BY <1>3, <2>1 DEF DataInv, NamesKept, Named
<1>8. QED  BY <1>1, <1>5, <1>6, <1>7, MakeKeepsInv

\* What a receiver has: fresh fields, and the artifact its name field names.
LEMMA ReceivedRecord ==
  ASSUME NEW d
  PROVE  /\ RecordShape(Received(d)) /\ DOMAIN Received(d).fields = DOMAIN d.fields
         /\ \A n \in DOMAIN d.fields :
              Received(d).fields[n] = Store(FromJson(Json(d.fields[n].original)))
         /\ \A n \in DOMAIN d.fields : Coherent(Received(d).fields[n])
         /\ Received(d).artifact =
              IF NAME \in DOMAIN d.fields /\ FromJson(Json(d.fields[NAME].original)).is = "Text"
              THEN ArtifactIn[FromJson(Json(d.fields[NAME].original)).val] ELSE UnknownArtifact
<1>1. /\ DOMAIN Received(d) = {"artifact", "fields"}
      /\ DOMAIN Received(d).fields = DOMAIN d.fields
      /\ \A n \in DOMAIN d.fields :
           Received(d).fields[n] = Store(FromJson(Json(d.fields[n].original)))
  BY DEF Received
<1>2. Received(d).artifact =
        IF NAME \in DOMAIN d.fields /\ FromJson(Json(d.fields[NAME].original)).is = "Text"
        THEN ArtifactIn[FromJson(Json(d.fields[NAME].original)).val] ELSE UnknownArtifact
  BY DEF Received
<1>3. RecordShape(Received(d)) /\ \A n \in DOMAIN d.fields : Coherent(Received(d).fields[n])
  BY <1>1, FreshRecord
<1>4. QED  BY <1>1, <1>2, <1>3

\* A record that is sent is built again of fresh fields.
LEMMA RelayKeepsInv ==
  ASSUME DataInv, NEW o \in Object, NEW p \in Object, Relay(o, p)
  PROVE  DataInv'
<1>1. Make(p, Received(data[o]), {}, FALSE)
  BY DEF Relay
<1>2. Named(Received(data[o]))
  <2> SUFFICES ASSUME NAME \in DOMAIN Received(data[o]).fields,
                      Received(data[o]).fields[NAME].original.is = "Text"
               PROVE  Received(data[o]).artifact
                        = ArtifactIn[Received(data[o]).fields[NAME].original.val]
    BY DEF Named
  <2>1. Received(data[o]).fields[NAME].original = FromJson(Json(data[o].fields[NAME].original))
    BY ReceivedRecord, StoreCoherent
  <2>2. QED  BY <2>1, ReceivedRecord
<1>3. QED  BY <1>1, <1>2, ReceivedRecord, MakeKeepsInv

\* The invariant is inductive: one step per operation on a record.
LEMMA StepInv == DataInv /\ [Next]_vars => DataInv'
<1> SUFFICES ASSUME DataInv, [Next]_vars  PROVE DataInv'
  OBVIOUS
<1>1. CASE UNCHANGED vars
  BY <1>1 DEF vars, DataInv, Shape, CachesCoherent, NamesKept
<1>2. ASSUME NEW t \in Thread, NEW c, SetContext(t, c)  PROVE DataInv'
  BY <1>2 DEF SetContext, DataInv, Shape, CachesCoherent, NamesKept
<1>3. ASSUME NEW o \in Object, NEW p \in Object, Clone(o, p)  PROVE DataInv'
  <2>1. Make(p, data[o], lent[o], renamed[o])
    BY <1>3 DEF Clone
  <2>2. RecordShape(data[o]) /\ \A n \in DOMAIN data[o].fields \ lent[o] : Coherent(data[o].fields[n])
    BY DEF DataInv, Shape, CachesCoherent
  <2>3. ~renamed[o] => Named(data[o])
    BY DEF DataInv, NamesKept
  <2>4. QED  BY <2>1, <2>2, <2>3, MakeKeepsInv
<1>4. ASSUME NEW i \in Asked  PROVE i[2] \in CacheKind
  BY DataAssumption
<1>5. QED
  BY <1>1, <1>2, <1>3, <1>4, DefaultKeepsInv, NewKeepsInv, InsertKeepsInv, FieldMutKeepsInv,
     CastFieldKeepsInv, RelayKeepsInv DEF Next

\* Whatever is asked, copied and sent, in every order: a field that was not
\* changed in place answers with the cast of the value it holds.
THEOREM CachesNeverLie == Spec => []AnswersHonest
<1>1. DataInv => AnswersHonest
  BY DEF DataInv, CachesCoherent, Coherent, AnswersHonest, Answer
<1>2. QED  BY <1>1, InitInv, StepInv, PTL DEF Spec

\* A record nobody renamed is named after its artifact.
THEOREM NamesAgree == Spec => []ArtifactNamed
<1>1. DataInv => ArtifactNamed
  BY DEF DataInv, NamesKept, Named, ArtifactNamed, HasField
<1>2. QED  BY <1>1, InitInv, StepInv, PTL DEF Spec

\* What is read from JSON is written as it was read.
LEMMA JsonOnce ==
  ASSUME NEW f
  PROVE  FromJson(Json(FromJson(Json(f)))) = FromJson(Json(f))
<1>1. CASE f.is = "Null"
  BY <1>1, ZenonT(60) DEF Json, FromJson
<1>2. CASE f.is \in {"U64", "I64"}
  BY <1>2, ZenonT(60) DEF Json, FromJson
<1>3. CASE f.is = "F64"
  <2>1. CASE f.val \in NotFinite
    <3>1. f.val \notin Finite
      BY <2>1, DataAssumption
    <3>2. Json(f) = [is |-> "null"]
      BY <1>3, <2>1, <3>1 DEF Json
    <3>3. FromJson([is |-> "null"]) = [is |-> "Null"]
      BY DEF FromJson
    <3>4. Json([is |-> "Null"]) = [is |-> "null"]
      BY DEF Json
    <3> QED BY <3>2, <3>3, <3>4
  <2>2. CASE f.val \in Finite
    <3>1. Json(f) = [is |-> "float", val |-> f.val]
      BY <1>3, <2>2, DataAssumption DEF Json
    <3>2. \A v : FromJson([is |-> "float", val |-> v]) = [is |-> "F64", val |-> v]
      BY DEF FromJson
    <3>3. \A v \in Finite : Json([is |-> "F64", val |-> v]) = [is |-> "float", val |-> v]
      BY DataAssumption DEF Json
    <3> QED BY <2>2, <3>1, <3>2, <3>3
  <2>3. CASE f.val \notin Finite \cup NotFinite
    <3>1. Json(f) = [is |-> "string", val |-> f.val]
      BY <1>3, <2>3 DEF Json
    <3>2. \A v : FromJson([is |-> "string", val |-> v]) = [is |-> "Text", val |-> v]
      BY DEF FromJson
    <3>3. \A v : Json([is |-> "Text", val |-> v]) = [is |-> "string", val |-> v]
      BY DEF Json
    <3> QED BY <3>1, <3>2, <3>3
  <2> QED BY <2>1, <2>2, <2>3
<1>4. CASE f.is = "Array"
  BY <1>4 DEF Json, FromJson
<1>5. CASE f.is \notin {"Null", "U64", "I64", "F64", "Array"}
  <2>1. PICK v : Json(f) = [is |-> "string", val |-> v]
    BY <1>5 DEF Json
  <2>2. FromJson(Json(f)) = [is |-> "Text", val |-> v]
    BY <2>1 DEF FromJson
  <2>3. Json([is |-> "Text", val |-> v]) = [is |-> "string", val |-> v]
    BY DEF Json
  <2>4. QED  BY <2>1, <2>2, <2>3
<1>6. QED  BY <1>1, <1>2, <1>3, <1>4, <1>5, SMTT(60)

\* A record that was sent once loses nothing by being sent on.
THEOREM ReadingSettles == Spec => []ReadOnceForAll
<1>1. ASSUME NEW d  PROVE Received(Received(d)) = Received(d)
  <2> DEFINE r == Received(d)
             q == Received(r)
  <2>1. ASSUME NEW n \in DOMAIN d.fields
        PROVE  /\ r.fields[n].original = FromJson(Json(d.fields[n].original))
               /\ q.fields[n] = r.fields[n]
    BY ReceivedRecord, StoreCoherent, JsonOnce
  <2>2. r.artifact = q.artifact
    BY <2>1, ReceivedRecord, JsonOnce, SMTT(60)
  <2>3. /\ r = [artifact |-> r.artifact, fields |-> [n \in DOMAIN d.fields |-> r.fields[n]]]
        /\ q = [artifact |-> q.artifact, fields |-> [n \in DOMAIN d.fields |-> q.fields[n]]]
    BY DEF Received
  <2> HIDE DEF r, q
  <2>4. [n \in DOMAIN d.fields |-> r.fields[n]] = [n \in DOMAIN d.fields |-> q.fields[n]]
    BY <2>1
  <2>5. r = q
    BY <2>2, <2>3, <2>4
  <2>6. QED  BY <2>5 DEF r, q
<1>2. ReadOnceForAll
  BY <1>1 DEF ReadOnceForAll
<1>3. QED  BY <1>2, PTL
-----------------------------------------------------------------------------
\* Twice as many values fit into one bit more.
LEMMA Widths ==
  /\ 2^Bits = 2 * 2^(Bits - 1) /\ 2^(Bits - 1) \in Nat \ {0}
  /\ U64 = 0 .. 2^Bits - 1 /\ I64 = -(2^(Bits - 1)) .. 2^(Bits - 1) - 1
  /\ Finite = -(2^Bits) .. 2^Bits
<1> DEFINE m == Bits - 1
           A == SUBSET (1 .. m)
           B == {x \cup {Bits} : x \in A}
           f == [x \in A |-> x \cup {Bits}]
<1>1. Bits \in Nat \ {0} /\ m \in Nat
  BY DataAssumption
<1>2. /\ IsFiniteSet(1 .. m) /\ Cardinality(1 .. m) = m
      /\ IsFiniteSet(1 .. Bits) /\ Cardinality(1 .. Bits) = Bits
  BY <1>1, FS_Interval
<1>3. /\ IsFiniteSet(A) /\ Cardinality(A) = 2^m
      /\ Cardinality(SUBSET (1 .. Bits)) = 2^Bits
  BY <1>2, FS_SUBSET
<1>4. Bits \notin 1 .. m /\ 1 .. Bits = (1 .. m) \cup {Bits}
  BY <1>1
<1>5. f \in Bijection(A, B)
  <2>1. f \in [A -> B]
    OBVIOUS
  <2>2. ASSUME NEW x \in A, NEW y \in A, f[x] = f[y] PROVE x = y
    BY <1>4, <2>2
  <2>3. \A y \in B : \E x \in A : f[x] = y
    OBVIOUS
  <2> HIDE DEF f, A, B
  <2>4. f \in Injection(A, B)
    BY <2>1, <2>2, Fun_IsInj
  <2>5. f \in Surjection(A, B)
    BY <2>1, <2>3 DEF Surjection
  <2> QED BY <2>4, <2>5 DEF Bijection
<1>6. IsFiniteSet(B) /\ Cardinality(B) = 2^m
  <2>1. ExistsBijection(A, B)
    BY <1>5 DEF ExistsBijection
  <2> HIDE DEF A, B
  <2> QED BY <1>3, <2>1, FS_Bijection
<1>7. SUBSET (1 .. Bits) = A \cup B
  <2>1. ASSUME NEW x \in SUBSET (1 .. Bits) PROVE x \in A \cup B
    <3>1. CASE Bits \in x
      <4>1. x \ {Bits} \in A /\ x = (x \ {Bits}) \cup {Bits}
        BY <1>4, <3>1
      <4> QED BY <4>1
    <3>2. CASE Bits \notin x
      BY <1>4, <3>2
    <3> QED BY <3>1, <3>2
  <2>2. ASSUME NEW x \in A \cup B PROVE x \in SUBSET (1 .. Bits)
    BY <1>4, <2>2
  <2> HIDE DEF A, B
  <2> QED BY <2>1, <2>2
<1>8. A \cap B = {}
  BY <1>4
<1>9. 2^m \in Nat \ {0}
  <2>1. A # {}
    <3>1. {} \in A
      OBVIOUS
    <3> QED BY <3>1
  <2> HIDE DEF A
  <2> QED BY <1>3, <2>1, FS_CardinalityType, FS_EmptySet
<1>10. 2^Bits = 2^m + 2^m
  <2> HIDE DEF A, B, m
  <2>1. Cardinality(A \cup B) = Cardinality(A) + Cardinality(B) - Cardinality(A \cap B)
    BY <1>3, <1>6, FS_Union
  <2>2. Cardinality(A \cap B) = 0 /\ Cardinality(A \cup B) = 2^Bits
    BY <1>3, <1>7, <1>8, FS_EmptySet
  <2> QED BY <1>3, <1>6, <1>9, <2>1, <2>2
<1> QED BY <1>9, <1>10 DEF U64, I64, Finite

\* What a record may hold: originals are fields, and caches values of their type.
CastOf(k) == CASE k = "u64" -> U64 [] k = "i64" -> I64 [] k = "f64" -> F64
               [] k = "ip" -> Ip [] k = "text" -> Text [] k = "array" -> Seq(Text)
Fits(k, c) == c = Invalid \/ \E v \in CastOf(k) : c = Some(v)
EntryTyped(e) == /\ IsField(e.original)
                 /\ \A k \in CacheKind : e.cache[k] = Nothing \/ Fits(k, e.cache[k])
RecordTyped(d) == d.artifact \in Artifact /\ \A n \in DOMAIN d.fields : EntryTyped(d.fields[n])

DataTyped ==
  /\ context \in [Thread -> [host : Text, artifact : Artifact, tenant : Text]]
  /\ \A o \in Object : RecordTyped(data[o])

\* The values of each kind of Field.
LEMMA FieldValues ==
  ASSUME NEW f, IsField(f)
  PROVE  /\ f.is \in Strings \cup {"Null", "Ip", "U64", "Date", "I64", "F64", "Array"}
         /\ f.is \in Strings => f.val \in Text
         /\ f.is = "Ip" => f.val \in Ip
         /\ f.is \in {"U64", "Date"} => f.val \in U64
         /\ f.is = "I64" => f.val \in I64
         /\ f.is = "F64" => f.val \in F64
         /\ f.is = "Array" => f.val \in Seq(Text)
BY DEF IsField, Strings

\* Into<InternalField> of a field that is a number: the casts, with their wraps
\* and their saturation, end where their type does.
LEMMA NumbersFit ==
  ASSUME NEW f, IsField(f)
  PROVE  Fits("u64", AsU64(f)) /\ Fits("i64", AsI64(f)) /\ Fits("f64", AsF64(f))
<1> DEFINE N == 2^Bits
           H == 2^(Bits - 1)
<1>1. N = 2 * H /\ H \in Nat \ {0} /\ U64 = 0 .. N - 1 /\ I64 = -H .. H - 1 /\ Finite = -N .. N
  BY Widths
<1> HIDE DEF N, H
<1>2. U64 \subseteq F64 /\ I64 \subseteq F64 /\ N \in Nat \ {0}
  BY <1>1 DEF F64
<1>3. \A v \in U64 : Signed(v) \in I64
  BY <1>1 DEF Signed, N
<1>4. \A v \in I64 : v % N \in U64
  BY <1>1, <1>2
<1>5. \A v \in F64 : Clamp(v, 0, N - 1) \in U64 /\ Clamp(v, -H, H - 1) \in I64
  <2>1. \A v \in NotFinite : \A low, high :
          Clamp(v, low, high) = 0 \/ Clamp(v, low, high) = low \/ Clamp(v, low, high) = high
    BY DEF NotFinite, Clamp
  <2>2. /\ 0 \in U64 /\ N - 1 \in U64
        /\ 0 \in I64 /\ -H \in I64 /\ H - 1 \in I64
    BY <1>1
  <2>3. ASSUME NEW v \in NotFinite
        PROVE  Clamp(v, 0, N - 1) \in U64 /\ Clamp(v, -H, H - 1) \in I64
    BY <2>1, <2>2
  <2>4. \A v \in Finite : \A low, high :
          Clamp(v, low, high) = IF v < low THEN low ELSE IF v > high THEN high ELSE v
    BY DataAssumption DEF Clamp, NotFinite
  <2>5. ASSUME NEW v \in Finite
        PROVE  Clamp(v, 0, N - 1) \in U64 /\ Clamp(v, -H, H - 1) \in I64
    BY <1>1, <2>4
  <2> QED BY <2>3, <2>5 DEF F64
<1>6. Fits("u64", AsU64(f))
  BY <1>4, <1>5, FieldValues DEF Fits, AsU64, CastOf, N
<1>7. Fits("i64", AsI64(f))
  BY <1>3, <1>5, FieldValues DEF Fits, AsI64, CastOf, H
<1>8. Fits("f64", AsF64(f))
  BY <1>2, FieldValues DEF Fits, AsF64, CastOf
<1> QED BY <1>6, <1>7, <1>8

\* A cast is a value of the type it was asked in, or says there is none.
LEMMA CastFits ==
  ASSUME NEW f, IsField(f), NEW k \in CacheKind
  PROVE  Fits(k, Cast(k, f))
<1>1. Fits("ip", AsIp(f))
  BY FieldValues, DataAssumption DEF Fits, AsIp, CastOf, Strings
<1>2. Fits("text", AsText(f))
  BY FieldValues DEF Fits, AsText, CastOf, Strings
<1>3. Fits("array", AsArray(f))
  <2>1. \A t \in Text : <<t>> \in Seq(Text)
    OBVIOUS
  <2>2. U64 \subseteq F64 /\ I64 \subseteq F64
    BY Widths DEF F64
  <2>3. PICK v : AsArray(f) = Some(v) /\ v \in Seq(Text)
    <3>1. CASE f.is = "Array"
      BY <3>1, FieldValues DEF AsArray
    <3>2. CASE f.is \in {"I64", "U64", "F64"}
      <4>1. NumberText[f.val] \in Text
        BY <2>2, <3>2, FieldValues, DataAssumption
      <4> QED BY <2>1, <3>2, <4>1 DEF AsArray
    <3>3. CASE f.is = "Date"
      <4>1. DateText[f.val] \in Text
        BY <3>3, FieldValues, DataAssumption
      <4> QED BY <2>1, <3>3, <4>1 DEF AsArray
    <3>4. CASE f.is = "Ip"
      <4>1. IpText[f.val] \in Text
        BY <3>4, FieldValues, DataAssumption
      <4> QED BY <2>1, <3>4, <4>1 DEF AsArray
    <3>5. CASE f.is = "Null"
      BY <2>1, <3>5, DataAssumption DEF AsArray
    <3>6. CASE f.is \in Strings
      BY <2>1, <3>6, FieldValues DEF AsArray, Strings
    <3> QED BY <3>1, <3>2, <3>3, <3>4, <3>5, <3>6, FieldValues
  <2> QED BY <2>3 DEF Fits, CastOf
<1> QED BY <1>1, <1>2, <1>3, NumbersFit DEF Cast, CacheKind

\* What Into<InternalField> makes of a field holds values of their types.
LEMMA StoreTyped ==
  ASSUME NEW f, IsField(f)
  PROVE  EntryTyped(Store(f))
<1>1. ASSUME NEW k \in CacheKind, Store(f).cache[k] # Nothing
      PROVE  Store(f).cache[k] = Cast(k, f)
  BY <1>1, StoreCoherent DEF Coherent
<1> QED BY <1>1, CastFits, StoreCoherent DEF EntryTyped

\* What JSON is read as holds values of its type.
LEMMA ReadTyped ==
  ASSUME NEW g, NEW v,
         \/ g = [is |-> "U64", val |-> v] /\ v \in U64
         \/ g = [is |-> "I64", val |-> v] /\ v \in I64
         \/ g = [is |-> "F64", val |-> v] /\ v \in F64
         \/ g = [is |-> "Text", val |-> v] /\ v \in Text
         \/ g = [is |-> "Array", val |-> v] /\ v \in Seq(Text)
  PROVE  IsField(g)
<1>1. CASE g = [is |-> "U64", val |-> v] /\ v \in U64
  <2>1. g.is = "U64" /\ g.val = v /\ g = [is |-> g.is, val |-> g.val]
    BY <1>1
  <2> QED BY <1>1, <2>1 DEF IsField, Strings
<1>2. CASE g = [is |-> "I64", val |-> v] /\ v \in I64
  <2>1. g.is = "I64" /\ g.val = v /\ g = [is |-> g.is, val |-> g.val]
    BY <1>2
  <2> QED BY <1>2, <2>1 DEF IsField, Strings
<1>3. CASE g = [is |-> "F64", val |-> v] /\ v \in F64
  <2>1. g.is = "F64" /\ g.val = v /\ g = [is |-> g.is, val |-> g.val]
    BY <1>3
  <2> QED BY <1>3, <2>1 DEF IsField, Strings
<1>4. CASE g = [is |-> "Text", val |-> v] /\ v \in Text
  <2>1. g.is = "Text" /\ g.val = v /\ g = [is |-> g.is, val |-> g.val]
    BY <1>4
  <2> QED BY <1>4, <2>1 DEF IsField, Strings
<1>5. CASE g = [is |-> "Array", val |-> v] /\ v \in Seq(Text)
  <2>1. g.is = "Array" /\ g.val = v /\ g = [is |-> g.is, val |-> g.val]
    BY <1>5
  <2> QED BY <1>5, <2>1 DEF IsField, Strings
<1> QED BY <1>1, <1>2, <1>3, <1>4, <1>5

\* What JSON is read as is a field again.
LEMMA JsonTyped ==
  ASSUME NEW f, IsField(f)
  PROVE  IsField(FromJson(Json(f)))
<1>1. I64 \cap Nat \subseteq U64 /\ U64 \subseteq Nat /\ I64 \subseteq Int
  BY Widths
<1>2. CASE f.is = "Null"
  <2>1. Json(f) = [is |-> "null"]
    BY <1>2 DEF Json
  <2>2. FromJson([is |-> "null"]) = [is |-> "Null"]
    BY DEF FromJson
  <2>3. ASSUME NEW g, g = [is |-> "Null"] PROVE IsField(g)
    <3>1. g.is = "Null"
      BY <2>3
    <3> QED BY <2>3, <3>1 DEF IsField, Strings
  <2> QED BY <2>1, <2>2, <2>3
<1>3. CASE f.is \in {"U64", "I64"}
  <2>1. Json(f) = [is |-> "integer", val |-> f.val]
    BY <1>3 DEF Json
  <2>2. \A v : FromJson([is |-> "integer", val |-> v]) =
                 [is |-> IF v >= 0 THEN "U64" ELSE "I64", val |-> v]
    BY DEF FromJson
  <2>3. f.val \in U64 \cup I64
    BY <1>3, FieldValues
  <2>4. CASE f.val >= 0
    <3>1. f.val \in U64
      <4>1. CASE f.val \in I64
        <5>1. f.val \in Int
          BY <1>1, <4>1
        <5>2. f.val \in Nat
          BY <2>4, <5>1
        <5> QED BY <1>1, <4>1, <5>2
      <4> QED BY <2>3, <4>1
    <3>2. FromJson(Json(f)) = [is |-> "U64", val |-> f.val]
      BY <2>1, <2>2, <2>4
    <3>3. \A g : g = [is |-> "U64", val |-> f.val] => IsField(g)
      BY <3>1, ReadTyped
    <3> QED BY <3>2, <3>3
  <2>5. CASE ~(f.val >= 0)
    <3>1. f.val \in I64
      <4>1. CASE f.val \in U64
        <5>1. f.val \in Nat
          BY <1>1, <4>1
        <5> QED BY <2>5, <5>1
      <4> QED BY <2>3, <4>1
    <3>2. FromJson(Json(f)) = [is |-> "I64", val |-> f.val]
      BY <2>1, <2>2, <2>5
    <3>3. \A g : g = [is |-> "I64", val |-> f.val] => IsField(g)
      BY <3>1, ReadTyped
    <3> QED BY <3>2, <3>3
  <2> QED BY <2>4, <2>5
<1>4. CASE f.is = "F64"
  <2>1. CASE f.val \in NotFinite
    <3>1. f.val \notin Finite /\ Json(f) = [is |-> "null"]
      BY <1>4, <2>1, DataAssumption DEF Json
    <3>2. FromJson([is |-> "null"]) = [is |-> "Null"]
      BY DEF FromJson
    <3>3. ASSUME NEW g, g = [is |-> "Null"] PROVE IsField(g)
      <4>1. g.is = "Null"
        BY <3>3
      <4> QED BY <3>3, <4>1 DEF IsField, Strings
    <3> QED BY <3>1, <3>2, <3>3
  <2>2. CASE f.val \notin NotFinite
    <3>1. f.val \in Finite /\ f.val \in F64
      BY <1>4, <2>2, FieldValues DEF F64
    <3>2. Json(f) = [is |-> "float", val |-> f.val]
      BY <1>4, <2>2, <3>1 DEF Json
    <3>3. \A v : FromJson([is |-> "float", val |-> v]) = [is |-> "F64", val |-> v]
      BY DEF FromJson
    <3> QED BY <3>1, <3>2, <3>3, ReadTyped
  <2> QED BY <2>1, <2>2
<1>5. CASE f.is = "Array"
  <2>1. Json(f) = [is |-> "array", val |-> f.val]
    BY <1>5 DEF Json
  <2>2. \A v : FromJson([is |-> "array", val |-> v]) = [is |-> "Array", val |-> v]
    BY DEF FromJson
  <2>3. f.val \in Seq(Text)
    BY <1>5, FieldValues
  <2> QED BY <2>1, <2>2, <2>3, ReadTyped
<1>6. CASE f.is \in Strings \cup {"Ip", "Date"}
  <2>1. PICK t \in Text : Json(f) = [is |-> "string", val |-> t]
    BY <1>6, FieldValues, DataAssumption DEF Json, Strings
  <2>2. \A v : FromJson([is |-> "string", val |-> v]) = [is |-> "Text", val |-> v]
    BY DEF FromJson
  <2>3. FromJson(Json(f)) = [is |-> "Text", val |-> t]
    BY <2>1, <2>2, Zenon
  <2>4. \A g : g = [is |-> "Text", val |-> t] => IsField(g)
    BY ReadTyped
  <2> QED BY <2>3, <2>4
<1>7. f.is \in Strings \cup {"Null", "Ip", "U64", "Date", "I64", "F64", "Array"}
  BY FieldValues
<1> QED BY <1>2, <1>3, <1>4, <1>5, <1>6, <1>7

\* What Make leaves of the types: it is enough to look at the new record.
LEMMA MakeKeepsTypes ==
  ASSUME NEW o \in Object, NEW d, NEW l, NEW r, DataInv, DataTyped, Make(o, d, l, r),
         RecordTyped(d), context' = context
  PROVE  DataTyped'
<1>1. \A p \in Object : data'[p] = IF p = o THEN d ELSE data[p]
  BY DEF Make, DataInv, Shape
<1>2. \A p \in Object : RecordTyped(data'[p])
  BY <1>1 DEF DataTyped
<1> QED BY <1>2 DEF DataTyped, RecordTyped, EntryTyped, Fits

\* Texts that the context or an artifact's name put in a record are fields.
LEMMA TextTyped == \A t \in Text : IsField(String(t)) /\ EntryTyped(Store(String(t)))
<1>1. \A t \in Text : IsField(String(t))
  BY DEF String, IsField, Strings
<1> QED BY <1>1, StoreTyped

\* Every operation leaves values of their types in originals and in caches.
LEMMA TypedStep ==
  ASSUME DataInv, DataTyped, [Next]_vars
  PROVE  DataTyped'
<1>1. ASSUME NEW t \in Thread, NEW c \in Contexts, SetContext(t, c) PROVE DataTyped'
  <2>1. c \in [host : Text, artifact : Artifact, tenant : Text]
    BY DataAssumption
  <2>2. context' \in [Thread -> [host : Text, artifact : Artifact, tenant : Text]] /\ data' = data
    BY <1>1, <2>1 DEF SetContext, DataTyped
  <2> QED BY <2>2 DEF DataTyped
<1>2. ASSUME NEW t \in Thread, NEW o \in Object, Default(t, o) PROVE DataTyped'
  <2> DEFINE Says(n) == CASE n = HOST -> context[t].host [] n = TENANT -> context[t].tenant
                          [] n = NAME -> ArtifactName[context[t].artifact]
             d == [artifact |-> context[t].artifact,
                   fields |-> [n \in {HOST, TENANT, NAME} |-> Store(String(Says(n)))]]
  <2>1. /\ context[t].host \in Text /\ context[t].tenant \in Text
        /\ context[t].artifact \in Artifact /\ ArtifactName[context[t].artifact] \in Text
    BY DataAssumption DEF DataTyped
  <2>2. \A n \in {HOST, TENANT, NAME} : Says(n) \in Text
    BY <2>1, DataAssumption
  <2>3. Make(o, d, {}, FALSE) /\ context' = context
    BY <1>2 DEF Default
  <2>4. RecordTyped(d)
    <3>1. /\ d.artifact = context[t].artifact /\ DOMAIN d.fields = {HOST, TENANT, NAME}
          /\ \A n \in {HOST, TENANT, NAME} : d.fields[n] = Store(String(Says(n)))
      OBVIOUS
    <3> HIDE DEF d, Says
    <3> QED BY <2>1, <2>2, <3>1, TextTyped DEF RecordTyped
  <2> HIDE DEF d
  <2> QED BY <2>3, <2>4, MakeKeepsTypes
<1>3. ASSUME NEW o \in Object, NEW c \in Contexts, New(o, c.host, c.artifact) PROVE DataTyped'
  <2> DEFINE Says(n) == IF n = HOST THEN c.host ELSE ArtifactName[c.artifact]
             d == [artifact |-> c.artifact,
                   fields |-> [n \in {HOST, NAME} |-> Store(String(Says(n)))]]
  <2>1. c.host \in Text /\ c.artifact \in Artifact /\ ArtifactName[c.artifact] \in Text
    BY DataAssumption
  <2>2. \A n \in {HOST, NAME} : Says(n) \in Text
    BY <2>1
  <2>3. Make(o, d, {}, FALSE) /\ context' = context
    BY <1>3 DEF New
  <2>4. RecordTyped(d)
    <3>1. /\ d.artifact = c.artifact /\ DOMAIN d.fields = {HOST, NAME}
          /\ \A n \in {HOST, NAME} : d.fields[n] = Store(String(Says(n)))
      OBVIOUS
    <3> HIDE DEF d, Says
    <3> QED BY <2>1, <2>2, <3>1, TextTyped DEF RecordTyped
  <2> HIDE DEF d
  <2> QED BY <2>3, <2>4, MakeKeepsTypes
<1>4. ASSUME NEW o \in Object, NEW n, NEW f, IsField(f), Insert(o, n, f) PROVE DataTyped'
  <2> DEFINE d == [data[o] EXCEPT !.fields = [m \in DOMAIN @ \cup {n} |->
                                               IF m = n THEN Store(f) ELSE @[m]]]
  <2>1. Make(o, d, lent[o] \ {n}, renamed[o] \/ n = NAME) /\ context' = context
    BY <1>4 DEF Insert
  <2>2. RecordTyped(d)
    <3>1. /\ d.artifact = data[o].artifact /\ DOMAIN d.fields = DOMAIN data[o].fields \cup {n}
          /\ \A m \in DOMAIN d.fields : d.fields[m] = IF m = n THEN Store(f) ELSE data[o].fields[m]
      BY DEF DataInv, Shape, RecordShape
    <3>2. RecordTyped(data[o])
      BY DEF DataTyped
    <3> HIDE DEF d
    <3> QED BY <1>4, <3>1, <3>2, StoreTyped DEF RecordTyped
  <2> HIDE DEF d
  <2> QED BY <2>1, <2>2, MakeKeepsTypes
<1>5. ASSUME NEW o \in Object, NEW n, NEW f, IsField(f), FieldMut(o, n, f) PROVE DataTyped'
  <2> DEFINE d == [data[o] EXCEPT !.fields[n].original = f]
  <2>1. Make(o, d, lent[o] \cup {n}, renamed[o] \/ n = NAME) /\ n \in DOMAIN data[o].fields
        /\ context' = context
    BY <1>5 DEF FieldMut, HasField
  <2>2. RecordTyped(d)
    <3>1. /\ d.artifact = data[o].artifact /\ DOMAIN d.fields = DOMAIN data[o].fields
          /\ d.fields[n].original = f /\ d.fields[n].cache = data[o].fields[n].cache
          /\ \A m \in DOMAIN d.fields : m # n => d.fields[m] = data[o].fields[m]
      BY <2>1 DEF DataInv, Shape, RecordShape, EntryShape
    <3>2. RecordTyped(data[o])
      BY DEF DataTyped
    <3> HIDE DEF d
    <3>3. EntryTyped(d.fields[n])
      BY <1>5, <2>1, <3>1, <3>2 DEF RecordTyped, EntryTyped
    <3> QED BY <3>1, <3>2, <3>3 DEF RecordTyped
  <2> HIDE DEF d
  <2> QED BY <2>1, <2>2, MakeKeepsTypes
<1>6. ASSUME NEW o \in Object, NEW n, NEW k \in CacheKind, CastField(o, n, k) PROVE DataTyped'
  <2> DEFINE c == Cast(k, data[o].fields[n].original)
  <2>1. n \in DOMAIN data[o].fields /\ RecordTyped(data[o]) /\ context' = context
    BY <1>6 DEF CastField, HasField, DataTyped
  <2>2. Fits(k, c)
    BY <2>1, CastFits DEF RecordTyped, EntryTyped
  <2>3. data' = [data EXCEPT ![o].fields[n].cache[k] = c]
    BY <1>6 DEF CastField
  <2> HIDE DEF c
  <2>4. /\ data'[o].artifact = data[o].artifact
        /\ DOMAIN data'[o].fields = DOMAIN data[o].fields
        /\ data'[o].fields[n].original = data[o].fields[n].original
        /\ \A j \in CacheKind : data'[o].fields[n].cache[j] = IF j = k THEN c
                                                              ELSE data[o].fields[n].cache[j]
        /\ \A m \in DOMAIN data[o].fields : m # n => data'[o].fields[m] = data[o].fields[m]
        /\ \A p \in Object : p # o => data'[p] = data[p]
    BY <2>1, <2>3 DEF DataInv, Shape, RecordShape, EntryShape
  <2>5. EntryTyped(data'[o].fields[n])
    BY <2>1, <2>2, <2>4 DEF RecordTyped, EntryTyped
  <2>6. RecordTyped(data'[o])
    BY <2>1, <2>4, <2>5 DEF RecordTyped
  <2>7. \A p \in Object : RecordTyped(data'[p])
    BY <2>4, <2>6 DEF DataTyped
  <2> QED BY <2>1, <2>7 DEF DataTyped, RecordTyped, EntryTyped, Fits
<1>7. ASSUME NEW o \in Object, NEW p \in Object, Clone(o, p) PROVE DataTyped'
  BY <1>7, MakeKeepsTypes DEF Clone, DataTyped
<1>8. ASSUME NEW o \in Object, NEW p \in Object, Relay(o, p) PROVE DataTyped'
  <2> DEFINE d == data[o]
  <2>1. Make(p, Received(d), {}, FALSE) /\ context' = context /\ RecordTyped(d)
    BY <1>8 DEF Relay, DataTyped
  <2> HIDE DEF d
  <2>2. \A n \in DOMAIN d.fields : IsField(FromJson(Json(d.fields[n].original)))
    BY <2>1, JsonTyped DEF RecordTyped, EntryTyped
  <2>3. Received(d).artifact \in Artifact
    <3>1. CASE NAME \in DOMAIN d.fields /\ FromJson(Json(d.fields[NAME].original)).is = "Text"
      <4>1. FromJson(Json(d.fields[NAME].original)).val \in Text
        BY <2>2, <3>1, FieldValues DEF Strings
      <4> QED BY <3>1, <4>1, ReceivedRecord, DataAssumption
    <3>2. CASE ~(NAME \in DOMAIN d.fields /\ FromJson(Json(d.fields[NAME].original)).is = "Text")
      BY <3>2, ReceivedRecord, DataAssumption
    <3> QED BY <3>1, <3>2
  <2>4. RecordTyped(Received(d))
    BY <2>2, <2>3, StoreTyped, ReceivedRecord DEF RecordTyped
  <2> QED BY <2>1, <2>4, MakeKeepsTypes
<1>9. CASE UNCHANGED vars
  BY <1>9 DEF vars, DataTyped, RecordTyped, EntryTyped, Fits
<1>10. \A i \in Inputs : IsField(i[2])
  BY DataAssumption
<1>11. \A a \in Asked : a[2] \in CacheKind
  BY DataAssumption
<1> QED BY <1>1, <1>2, <1>3, <1>4, <1>5, <1>6, <1>7, <1>8, <1>9, <1>10, <1>11 DEF Next

\* Blank records hold none.
LEMMA TypedInit == Init => DataTyped
<1> SUFFICES ASSUME Init PROVE DataTyped
  OBVIOUS
<1>1. Blank.artifact = UnknownArtifact /\ DOMAIN Blank.fields = {}
  BY DEF Blank
<1>2. RecordTyped(Blank)
  BY <1>1, DataAssumption DEF RecordTyped
<1>3. /\ context \in [Thread -> [host : Text, artifact : Artifact, tenant : Text]]
      /\ \A o \in Object : data[o] = Blank
  BY DataAssumption DEF Init
<1> QED BY <1>2, <1>3 DEF DataTyped

\* Whatever is asked of whatever was inserted, changed in place, cloned and sent:
\* an answer is of the type it was asked in, and no wrap or saturation leaves a
\* value outside of u64 or i64 (field/mod.rs:142-180), whatever their width.
CastsFit ==
  \A o \in Object : \A n \in DOMAIN data[o].fields, k \in CacheKind : Fits(k, Answer(o, n, k))

THEOREM CastsAlwaysFit == Spec => []CastsFit
<1>1. DataInv /\ DataTyped => CastsFit
  <2> SUFFICES ASSUME DataTyped, NEW o \in Object, NEW n \in DOMAIN data[o].fields,
                      NEW k \in CacheKind
               PROVE  Fits(k, Answer(o, n, k))
    BY DEF CastsFit
  <2>1. EntryTyped(data[o].fields[n])
    BY DEF DataTyped, RecordTyped
  <2> QED BY <2>1, CastFits DEF EntryTyped, Answer
<1>2. (DataInv /\ DataTyped) /\ [Next]_vars => (DataInv /\ DataTyped)'
  BY StepInv, TypedStep
<1> QED BY <1>1, <1>2, InitInv, TypedInit, PTL DEF Spec
-----------------------------------------------------------------------------
\* JSON keeps every cast a field has, but for those of a date, of a float that is
\* NaN or infinite, and of an address that is not read back: an i64 that is sent as
\* a positive integer comes back as a u64.
LEMMA JsonKeepsCasts ==
  ASSUME NEW f, IsField(f), NEW k \in CacheKind, Cast(k, f) # Invalid, Travels(f, k)
  PROVE  Cast(k, FromJson(Json(f))) = Cast(k, f)
<1> USE DEF Travels
<1> DEFINE g == FromJson(Json(f))
<1>1. CASE f.is \in {"Null", "F64", "U64", "Array", "Text"}
  <2>1. f.is = "Null" => f = [is |-> "Null"]
    BY DEF IsField, Strings
  <2>2. f.is # "Null" => f = [is |-> f.is, val |-> f.val]
    BY <1>1 DEF IsField, Strings
  <2>3. f.is = "U64" => f.val >= 0
    BY FieldValues, Widths
  <2>4. f.is = "F64" => f.val \notin NotFinite
    BY DataAssumption
  <2> QED BY <1>1, <2>1, <2>2, <2>3, <2>4 DEF Json, FromJson
<1>2. CASE f.is = "I64"
  <2> DEFINE N == 2^Bits
             H == 2^(Bits - 1)
             v == f.val
  <2>1. N = 2 * H /\ H \in Nat \ {0} /\ I64 = -H .. H - 1
    BY Widths
  <2>2. v \in I64 /\ f = [is |-> "I64", val |-> v]
    BY <1>2, FieldValues DEF IsField, Strings
  <2>3. CASE v >= 0
    <3>1. g = [is |-> "U64", val |-> v]
      BY <1>2, <2>3 DEF Json, FromJson
    <3>2. v % N = v
      <4> HIDE DEF v, N, H
      <4> QED BY <2>1, <2>2, <2>3
    <3>3. Signed(v) = v
      BY <2>2 DEF Signed
    <3> QED BY <1>2, <3>1, <3>2, <3>3 DEF Cast, AsU64, AsI64, AsF64, AsIp, AsText, AsArray, CacheKind, Invalid
  <2>4. CASE ~(v >= 0)
    BY <2>2, <2>4 DEF Json, FromJson
  <2> QED BY <2>3, <2>4
<1>3. CASE f.is \in {"Domain", "User", "AssetID", "Path"}
  <2>1. g = [is |-> "Text", val |-> f.val]
    BY <1>3 DEF Json, FromJson
  <2> QED BY <1>3, <2>1 DEF Cast, AsU64, AsI64, AsF64, AsIp, AsText, AsArray, CacheKind, Invalid
<1>4. CASE f.is = "Ip"
  <2>1. g = [is |-> "Text", val |-> IpText[f.val]]
    BY <1>4 DEF Json, FromJson
  <2>2. f.val # NoIp
    BY <1>4, FieldValues, DataAssumption
  <2> QED BY <1>4, <2>1, <2>2 DEF Cast, AsU64, AsI64, AsF64, AsIp, AsText, AsArray, CacheKind, Invalid
<1>5. f.is \in {"Text", "Domain", "User", "AssetID", "Path", "Null", "Ip", "U64", "I64", "F64", "Array"}
  BY FieldValues DEF Strings
<1> QED BY <1>1, <1>2, <1>3, <1>4, <1>5

\* A record answers a tool that was sent it as it answers the sender, whatever is
\* in the caches of either, for every width of the integers; what does not travel
\* (Travels) is a date, a NaN, an infinity and an address that is not read back.
THEOREM AnswersAlwaysTravel == Spec => []AnswersTravel
<1>1. DataInv /\ DataTyped => AnswersTravel
  <2> SUFFICES ASSUME DataInv, DataTyped, NEW o \in Object, NEW n \in DOMAIN data[o].fields \ lent[o],
                      NEW k \in CacheKind, NEW f, f = data[o].fields[n].original,
                      Answer(o, n, k) # Invalid, Travels(f, k)
               PROVE  Cast(k, Received(data[o]).fields[n].original) = Answer(o, n, k)
    BY DEF AnswersTravel
  <2>1. Answer(o, n, k) = Cast(k, f)
    BY DEF DataInv, CachesCoherent, Coherent, Answer
  <2>2. IsField(f)
    BY DEF DataTyped, RecordTyped, EntryTyped
  <2>3. Received(data[o]).fields[n].original = FromJson(Json(f))
    BY ReceivedRecord, StoreCoherent
  <2> QED BY <2>1, <2>2, <2>3, JsonKeepsCasts
<1>2. (DataInv /\ DataTyped) /\ [Next]_vars => (DataInv /\ DataTyped)'
  BY StepInv, TypedStep
<1> QED BY <1>1, <1>2, InitInv, TypedInit, PTL DEF Spec
-----------------------------------------------------------------------------
(***************************************************************************)
(* The names of src/artifact.rs are read as they were written and settle,  *)
(* for artifacts with any texts and any number of tools.                   *)
(***************************************************************************)
\* A text with one segment more in front.
LEMMA InFront ==
  ASSUME NEW S, NEW t \in Seq(S), t # <<>>, NEW x
  PROVE  LET n == <<x>> \o t
         IN  /\ n \in Seq(S \cup {x}) /\ n # <<>> /\ Len(n) = Len(t) + 1 /\ Len(n) > 1
             /\ Len(t) \in Nat /\ Len(n) # 1
             /\ n[1] = x /\ Tail(n) = t /\ Rest(n) = t
<1> DEFINE T == S \cup {x}
           s == <<x>>
           n == s \o t
<1>1. t \in Seq(T) /\ s \in Seq(T) /\ Len(s) = 1 /\ s[1] = x /\ Len(t) \in Nat /\ Len(t) > 0
  OBVIOUS
<1> HIDE DEF s, T
<1>2. /\ n \in Seq(T) /\ Len(n) = 1 + Len(t) /\ n[1] = x
      /\ \A i \in 1 .. Len(t) : n[i + 1] = t[i]
  BY <1>1, ConcatProperties, SMTT(60)
<1> HIDE DEF n
<1>3. n # <<>> /\ Len(n) > 1 /\ Tail(n) \in Seq(T) /\ Len(Tail(n)) = Len(t)
  BY <1>1, <1>2, HeadTailProperties
<1>4. \A i \in 1 .. Len(t) : Tail(n)[i] = t[i]
  BY <1>2, <1>3, HeadTailProperties
<1>5. Tail(n) = t
  BY <1>1, <1>3, <1>4, SeqEqual
<1> QED BY <1>1, <1>2, <1>3, <1>5 DEF Rest, n, s, T

\* Two segments in front are put there one after the other.
LEMMA TwoInFront ==
  ASSUME NEW S, NEW t \in Seq(S), NEW x, NEW y
  PROVE  <<x, y>> \o t = <<x>> \o (<<y>> \o t)
<1> DEFINE T == S \cup {x, y}
           a == <<x>>
           b == <<y>>
<1>1. t \in Seq(T) /\ a \in Seq(T) /\ b \in Seq(T) /\ x \in T /\ y \in T
  OBVIOUS
<1>2. a \o b = <<x, y>>
  BY <1>1, JoinedTwo
<1> HIDE DEF a, b
<1>3. (a \o b) \o t = a \o (b \o t)
  BY <1>1, ConcatAssociative, SMTT(60)
<1> QED BY <1>2, <1>3 DEF a, b
-----------------------------------------------------------------------------
\* The ends of tuples of up to three.
LEMMA TupleEnds ==
  /\ \A a : Last(<<a>>) = a /\ Front(<<a>>) = <<>>
  /\ \A a, b : Last(<<a, b>>) = b /\ Front(<<a, b>>) = <<a>>
  /\ \A a, b, c : Last(<<a, b, c>>) = c /\ Front(<<a, b, c>>) = <<a, b>>
<1>1. \A a : Last(<<a>>) = a
  BY DEF Last
<1>2. \A a, b : Last(<<a, b>>) = b
  BY DEF Last
<1>3. \A a, b, c : Last(<<a, b, c>>) = c
  BY DEF Last
<1>4. \A a : Front(<<a>>) = <<>>
  BY DEF Front
<1>5. ASSUME NEW a, NEW b PROVE Front(<<a, b>>) = <<a>>
  <2> DEFINE s == <<a, b>>
             t == <<a>>
             S == {a, b}
  <2>1. s \in Seq(S) /\ Len(s) = 2 /\ t \in Seq(S) /\ Len(t) = 1 /\ s[1] = t[1]
    OBVIOUS
  <2> HIDE DEF s, t, S
  <2>2. Front(s) \in Seq(S) /\ Len(Front(s)) = 1 /\ Front(s)[1] = s[1]
    BY <2>1, SubSeqProperties DEF Front
  <2>3. \A i \in 1 .. 1 : Front(s)[i] = t[i]
    BY <2>1, <2>2
  <2>4. Front(s) = t
    BY <2>1, <2>2, <2>3, SeqEqual
  <2> QED BY <2>4 DEF s, t
<1>6. ASSUME NEW a, NEW b, NEW c PROVE Front(<<a, b, c>>) = <<a, b>>
  <2> DEFINE s == <<a, b, c>>
             t == <<a, b>>
             S == {a, b, c}
  <2>1. /\ s \in Seq(S) /\ Len(s) = 3 /\ t \in Seq(S) /\ Len(t) = 2
        /\ s[1] = t[1] /\ s[2] = t[2]
    OBVIOUS
  <2> HIDE DEF s, t, S
  <2>2. /\ Front(s) \in Seq(S) /\ Len(Front(s)) = 2
        /\ Front(s)[1] = s[1] /\ Front(s)[2] = s[2]
    BY <2>1, SubSeqProperties DEF Front
  <2>3. \A i \in 1 .. 2 : Front(s)[i] = t[i]
    BY <2>1, <2>2
  <2>4. Front(s) = t
    BY <2>1, <2>2, <2>3, SeqEqual
  <2> QED BY <2>4 DEF s, t
<1> QED BY <1>1, <1>2, <1>3, <1>4, <1>5, <1>6

\* Paths of different lengths differ, and so do those that differ in a segment.
LEMMA TuplesDiffer ==
  /\ \A a, x, y : <<a>> # <<x, y>>
  /\ \A a, x, y, z : <<a>> # <<x, y, z>>
  /\ \A a, b, x, y, z : <<a, b>> # <<x, y, z>>
  /\ \A a, b, x, y : <<a, b>> = <<x, y>> => a = x /\ b = y
  /\ \A a, b, c, x, y, z : <<a, b, c>> = <<x, y, z>> => a = x /\ b = y /\ c = z
OBVIOUS

\* Which names are not those of their paths.
LEMMA ShownPaths ==
  /\ \A a : Shown(<<a>>) = <<a>>
  /\ \A b : Shown(<<"Windows", b>>) = <<"Windows", b>>
  /\ \A b : b # "Unknown" => Shown(<<"Linux", b>>) = <<"Linux", b>>
  /\ Shown(<<"Linux", "Unknown">>) = <<"Linux", "Log", "Unknown">>
  /\ \A b : Shown(<<"Common", b>>) = <<"Common", b>>
  /\ \A b : Shown(<<"MacOs", b>>) = <<"Mac", b>>
  /\ \A c : c # "ShimCache" => Shown(<<"Windows", "Registry", c>>) = <<"Windows", "Registry", c>>
  /\ Shown(<<"Windows", "Registry", "ShimCache">>) = <<"Windows", "Registry", "InitD">>
  /\ \A c : Shown(<<"Windows", "WinEvt", c>>) = <<"Windows", "WinEvt", c>>
  /\ \A c : Shown(<<"Linux", "Service", c>>) = <<"Linux", "Service", c>>
  /\ \A c : Shown(<<"Common", "WebBrowsing", c>>) = <<"Common", "WebBrowsing", c>>
<1>1. \A a : Shown(<<a>>) = <<a>>
  BY TuplesDiffer DEF Shown
<1>2. \A b : Shown(<<"Windows", b>>) = <<"Windows", b>>
  BY TuplesDiffer DEF Shown
<1>3. \A b : b # "Unknown" => Shown(<<"Linux", b>>) = <<"Linux", b>>
  BY TuplesDiffer DEF Shown
<1>4. Shown(<<"Linux", "Unknown">>) = <<"Linux", "Log", "Unknown">>
  BY TuplesDiffer DEF Shown
<1>5. \A b : Shown(<<"Common", b>>) = <<"Common", b>>
  BY TuplesDiffer DEF Shown
<1>6. \A b : Shown(<<"MacOs", b>>) = <<"Mac", b>>
  BY TuplesDiffer DEF Shown
<1>7. \A c : c # "ShimCache" => Shown(<<"Windows", "Registry", c>>) = <<"Windows", "Registry", c>>
  BY TuplesDiffer DEF Shown
<1>8. Shown(<<"Windows", "Registry", "ShimCache">>) = <<"Windows", "Registry", "InitD">>
  BY DEF Shown
<1>9. \A c : Shown(<<"Windows", "WinEvt", c>>) = <<"Windows", "WinEvt", c>>
  BY TuplesDiffer DEF Shown
<1>10. \A c : Shown(<<"Linux", "Service", c>>) = <<"Linux", "Service", c>>
  BY TuplesDiffer DEF Shown
<1>11. \A c : Shown(<<"Common", "WebBrowsing", c>>) = <<"Common", "WebBrowsing", c>>
  BY TuplesDiffer DEF Shown
<1> QED BY <1>1, <1>2, <1>3, <1>4, <1>5, <1>6, <1>7, <1>8, <1>9, <1>10, <1>11

\* Artifacts without a text are named by their paths.
LEMMA UnitShown ==
  ASSUME NEW path, NEW s, NEW S, s \in Seq(S), Shown(path) = s, Last(s) # "Other"
  PROVE  Display(Plain(path)) = s
<1>1. Display(Plain(path)) = s \o <<>>
  BY DEF Display, Plain, Is
<1>2. s \o <<>> = s
  BY ConcatEmptySeq
<1> QED BY <1>1, <1>2

\* An Other is named by its text, behind what it is an Other of.
LEMMA OtherShown ==
  ASSUME NEW path, Last(Shown(path)) = "Other", NEW t
  PROVE  Display(Is(path, t)) = Front(Shown(path)) \o t
BY DEF Display, Is

\* Artifacts with a text are named by what it follows.
LEMMA TextsShown ==
  ASSUME NEW S, NEW t \in Seq(S)
  PROVE  /\ Display(Is(<<"Windows", "Registry", "Other">>, t)) = <<"Windows", "Registry">> \o t
         /\ Display(Is(<<"Windows", "WinEvt", "Other">>, t)) = <<"Windows", "WinEvt">> \o t
         /\ Display(Is(<<"Windows", "Other">>, t)) = <<"Windows">> \o t
         /\ Display(Is(<<"Linux", "Other">>, t)) = <<"Linux">> \o t
         /\ Display(Is(<<"MacOs", "Other">>, t)) = <<"Mac">> \o t
         /\ Display(Is(<<"Common", "WebBrowsing", "Other">>, t)) =
              <<"Common", "WebBrowsing">> \o t
         /\ Display(Is(<<"Common", "Other">>, t)) = <<"Common">> \o t
         /\ \A l \in LogKinds : Display(Is(<<"Linux", l>>, t)) = <<"Linux", l>> \o t
         /\ Display(Is(<<"Other">>, t)) = t
<1>1. Display(Is(<<"Windows", "Registry", "Other">>, t)) = <<"Windows", "Registry">> \o t
  <2>1. /\ Last(Shown(<<"Windows", "Registry", "Other">>)) = "Other"
        /\ Front(Shown(<<"Windows", "Registry", "Other">>)) = <<"Windows", "Registry">>
    BY ShownPaths, TupleEnds
  <2> QED BY <2>1, OtherShown
<1>2. Display(Is(<<"Windows", "WinEvt", "Other">>, t)) = <<"Windows", "WinEvt">> \o t
  <2>1. /\ Last(Shown(<<"Windows", "WinEvt", "Other">>)) = "Other"
        /\ Front(Shown(<<"Windows", "WinEvt", "Other">>)) = <<"Windows", "WinEvt">>
    BY ShownPaths, TupleEnds
  <2> QED BY <2>1, OtherShown
<1>3. Display(Is(<<"Windows", "Other">>, t)) = <<"Windows">> \o t
  <2>1. /\ Last(Shown(<<"Windows", "Other">>)) = "Other"
        /\ Front(Shown(<<"Windows", "Other">>)) = <<"Windows">>
    BY ShownPaths, TupleEnds
  <2> QED BY <2>1, OtherShown
<1>4. Display(Is(<<"Linux", "Other">>, t)) = <<"Linux">> \o t
  <2>1. /\ Last(Shown(<<"Linux", "Other">>)) = "Other"
        /\ Front(Shown(<<"Linux", "Other">>)) = <<"Linux">>
    BY ShownPaths, TupleEnds
  <2> QED BY <2>1, OtherShown
<1>5. Display(Is(<<"MacOs", "Other">>, t)) = <<"Mac">> \o t
  <2>1. /\ Last(Shown(<<"MacOs", "Other">>)) = "Other"
        /\ Front(Shown(<<"MacOs", "Other">>)) = <<"Mac">>
    BY ShownPaths, TupleEnds
  <2> QED BY <2>1, OtherShown
<1>6. Display(Is(<<"Common", "WebBrowsing", "Other">>, t)) = <<"Common", "WebBrowsing">> \o t
  <2>1. /\ Last(Shown(<<"Common", "WebBrowsing", "Other">>)) = "Other"
        /\ Front(Shown(<<"Common", "WebBrowsing", "Other">>)) = <<"Common", "WebBrowsing">>
    BY ShownPaths, TupleEnds
  <2> QED BY <2>1, OtherShown
<1>7. Display(Is(<<"Common", "Other">>, t)) = <<"Common">> \o t
  <2>1. /\ Last(Shown(<<"Common", "Other">>)) = "Other"
        /\ Front(Shown(<<"Common", "Other">>)) = <<"Common">>
    BY ShownPaths, TupleEnds
  <2> QED BY <2>1, OtherShown
<1>8. ASSUME NEW l \in LogKinds PROVE Display(Is(<<"Linux", l>>, t)) = <<"Linux", l>> \o t
  <2>1. Shown(<<"Linux", l>>) = <<"Linux", l>> /\ Last(<<"Linux", l>>) # "Other"
    BY ShownPaths, TupleEnds DEF LogKinds
  <2> QED BY <2>1 DEF Display, Is
<1>9. Display(Is(<<"Other">>, t)) = <<>> \o t
  <2>1. Last(Shown(<<"Other">>)) = "Other" /\ Front(Shown(<<"Other">>)) = <<>>
    BY ShownPaths, TupleEnds
  <2> QED BY <2>1, OtherShown
<1>10. <<>> \o t = t
  BY ConcatEmptySeq
<1> QED BY <1>1, <1>2, <1>3, <1>4, <1>5, <1>6, <1>7, <1>8, <1>9, <1>10

\* Artifacts without one are named by their paths alone.
LEMMA UnitsShown ==
  /\ Display(Unknown) = <<"Unknown">>
  /\ \A r \in RegistryUnits : Display(Plain(<<"Windows", "Registry", r>>)) =
       <<"Windows", "Registry", IF r = "ShimCache" THEN "InitD" ELSE r>>
  /\ \A e \in EventUnits : Display(Plain(<<"Windows", "WinEvt", e>>)) = <<"Windows", "WinEvt", e>>
  /\ \A w \in WindowsUnits : Display(Plain(<<"Windows", w>>)) = <<"Windows", w>>
  /\ \A b \in BrowsingUnits : Display(Plain(<<"Common", "WebBrowsing", b>>)) =
       <<"Common", "WebBrowsing", b>>
  /\ Display(Plain(<<"Linux", "Unknown">>)) = <<"Linux", "Log", "Unknown">>
  /\ Display(Plain(<<"MacOs", "Unknown">>)) = <<"Mac", "Unknown">>
  /\ Display(Plain(<<"Common", "Unknown">>)) = <<"Common", "Unknown">>
<1>0. /\ \A a : <<a>> \in Seq({a})
      /\ \A a, b : <<a, b>> \in Seq({a, b})
      /\ \A a, b, c : <<a, b, c>> \in Seq({a, b, c})
  OBVIOUS
<1>1. Display(Plain(<<"Unknown">>)) = <<"Unknown">>
  <2> DEFINE p == <<"Unknown">>
             s == <<"Unknown">>
  <2>1. Shown(p) = s
    BY ShownPaths
  <2>2. \E S : s \in Seq(S)
    BY <1>0
  <2>3. Last(s) # "Other"
    BY TupleEnds
  <2> SUFFICES Display(Plain(p)) = s
    OBVIOUS
  <2> HIDE DEF s, p
  <2> QED BY <2>1, <2>2, <2>3, UnitShown
<1>2. ASSUME NEW r \in RegistryUnits
      PROVE  Display(Plain(<<"Windows", "Registry", r>>)) =
               <<"Windows", "Registry", IF r = "ShimCache" THEN "InitD" ELSE r>>
  <2> DEFINE p == <<"Windows", "Registry", r>>
             s == <<"Windows", "Registry", IF r = "ShimCache" THEN "InitD" ELSE r>>
  <2>1. Shown(p) = s
    BY ShownPaths
  <2>2. \E S : s \in Seq(S)
    BY <1>0
  <2>3. Last(s) # "Other"
    BY TupleEnds DEF RegistryUnits
  <2> SUFFICES Display(Plain(p)) = s
    OBVIOUS
  <2> HIDE DEF s, p
  <2> QED BY <2>1, <2>2, <2>3, UnitShown
<1>3. ASSUME NEW e \in EventUnits
      PROVE  Display(Plain(<<"Windows", "WinEvt", e>>)) = <<"Windows", "WinEvt", e>>
  <2> DEFINE p == <<"Windows", "WinEvt", e>>
             s == <<"Windows", "WinEvt", e>>
  <2>1. Shown(p) = s
    BY ShownPaths
  <2>2. \E S : s \in Seq(S)
    BY <1>0
  <2>3. Last(s) # "Other"
    BY TupleEnds DEF EventUnits
  <2> SUFFICES Display(Plain(p)) = s
    OBVIOUS
  <2> HIDE DEF s, p
  <2> QED BY <2>1, <2>2, <2>3, UnitShown
<1>4. ASSUME NEW w \in WindowsUnits
      PROVE  Display(Plain(<<"Windows", w>>)) = <<"Windows", w>>
  <2> DEFINE p == <<"Windows", w>>
             s == <<"Windows", w>>
  <2>1. Shown(p) = s
    BY ShownPaths
  <2>2. \E S : s \in Seq(S)
    BY <1>0
  <2>3. Last(s) # "Other"
    BY TupleEnds DEF WindowsUnits
  <2> SUFFICES Display(Plain(p)) = s
    OBVIOUS
  <2> HIDE DEF s, p
  <2> QED BY <2>1, <2>2, <2>3, UnitShown
<1>5. ASSUME NEW b \in BrowsingUnits
      PROVE  Display(Plain(<<"Common", "WebBrowsing", b>>)) = <<"Common", "WebBrowsing", b>>
  <2> DEFINE p == <<"Common", "WebBrowsing", b>>
             s == <<"Common", "WebBrowsing", b>>
  <2>1. Shown(p) = s
    BY ShownPaths
  <2>2. \E S : s \in Seq(S)
    BY <1>0
  <2>3. Last(s) # "Other"
    BY TupleEnds DEF BrowsingUnits
  <2> SUFFICES Display(Plain(p)) = s
    OBVIOUS
  <2> HIDE DEF s, p
  <2> QED BY <2>1, <2>2, <2>3, UnitShown
<1>6. Display(Plain(<<"Linux", "Unknown">>)) = <<"Linux", "Log", "Unknown">>
  <2> DEFINE p == <<"Linux", "Unknown">>
             s == <<"Linux", "Log", "Unknown">>
  <2>1. Shown(p) = s
    BY ShownPaths
  <2>2. \E S : s \in Seq(S)
    BY <1>0
  <2>3. Last(s) # "Other"
    BY TupleEnds
  <2> SUFFICES Display(Plain(p)) = s
    OBVIOUS
  <2> HIDE DEF s, p
  <2> QED BY <2>1, <2>2, <2>3, UnitShown
<1>7. Display(Plain(<<"MacOs", "Unknown">>)) = <<"Mac", "Unknown">>
  <2> DEFINE p == <<"MacOs", "Unknown">>
             s == <<"Mac", "Unknown">>
  <2>1. Shown(p) = s
    BY ShownPaths
  <2>2. \E S : s \in Seq(S)
    BY <1>0
  <2>3. Last(s) # "Other"
    BY TupleEnds
  <2> SUFFICES Display(Plain(p)) = s
    OBVIOUS
  <2> HIDE DEF s, p
  <2> QED BY <2>1, <2>2, <2>3, UnitShown
<1>8. Display(Plain(<<"Common", "Unknown">>)) = <<"Common", "Unknown">>
  <2> DEFINE p == <<"Common", "Unknown">>
             s == <<"Common", "Unknown">>
  <2>1. Shown(p) = s
    BY ShownPaths
  <2>2. \E S : s \in Seq(S)
    BY <1>0
  <2>3. Last(s) # "Other"
    BY TupleEnds
  <2> SUFFICES Display(Plain(p)) = s
    OBVIOUS
  <2> HIDE DEF s, p
  <2> QED BY <2>1, <2>2, <2>3, UnitShown
<1> QED BY <1>1, <1>2, <1>3, <1>4, <1>5, <1>6, <1>7, <1>8 DEF Unknown
\* Two and three segments, put together or appended.
LEMMA Joined ==
  /\ \A a, b : <<a>> \o <<b>> = <<a, b>> /\ Append(<<a>>, b) = <<a, b>>
  /\ \A a, b, c : <<a, b>> \o <<c>> = <<a, b, c>> /\ Append(<<a, b>>, c) = <<a, b, c>>
<1>1. ASSUME NEW a, NEW b PROVE <<a>> \o <<b>> = <<a, b>> /\ Append(<<a>>, b) = <<a, b>>
  <2>1. a \in {a, b} /\ b \in {a, b}
    OBVIOUS
  <2>2. <<a>> \o <<b>> = <<a, b>>
    BY <2>1, JoinedTwo
  <2>3. <<a>> \in Seq({a, b})
    OBVIOUS
  <2>4. Append(<<a>>, b) = <<a>> \o <<b>>
    BY <2>1, <2>3, AppendIsConcat
  <2> QED BY <2>2, <2>4
<1>2. ASSUME NEW a, NEW b, NEW c
      PROVE  <<a, b>> \o <<c>> = <<a, b, c>> /\ Append(<<a, b>>, c) = <<a, b, c>>
  <2>1. a \in {a, b, c} /\ b \in {a, b, c} /\ c \in {a, b, c}
    OBVIOUS
  <2>2. <<a, b>> \o <<c>> = <<a, b, c>>
    BY <2>1, JoinedThree
  <2>3. <<a, b>> \in Seq({a, b, c})
    OBVIOUS
  <2>4. Append(<<a, b>>, c) = <<a, b>> \o <<c>>
    BY <2>1, <2>3, AppendIsConcat
  <2> QED BY <2>2, <2>4
<1> QED BY <1>1, <1>2

-----------------------------------------------------------------------------
IsText(t) == t # <<>> /\ \E S : t \in Seq(S)
Put(x, t) == <<x>> \o t

\* A text is its first segment in front of its rest, if it has one.
LEMMA PutTaken ==
  /\ \A x, t : IsText(t) => /\ IsText(Put(x, t)) /\ Put(x, t)[1] = x
                             /\ Rest(Put(x, t)) = t
                             /\ Len(Put(x, t)) = Len(t) + 1 /\ Len(Put(x, t)) > 1
                             /\ Len(Put(x, t)) # 1
  /\ \A t : IsText(t) => /\ Len(t) \in Nat \ {0}
                         /\ Len(t) = 1 => t = <<t[1]>>
                         /\ Len(t) > 1 => IsText(Rest(t)) /\ t = Put(t[1], Rest(t))
  /\ \A x : IsText(<<x>>) /\ Len(<<x>>) = 1 /\ Rest(<<x>>) = <<"">>
<1>1. ASSUME NEW x, NEW t, IsText(t)
      PROVE  /\ IsText(Put(x, t)) /\ Put(x, t)[1] = x
             /\ Rest(Put(x, t)) = t
             /\ Len(Put(x, t)) = Len(t) + 1 /\ Len(Put(x, t)) > 1 /\ Len(Put(x, t)) # 1
  <2>1. PICK S : t \in Seq(S)
    BY <1>1 DEF IsText
  <2> QED BY <1>1, <2>1, InFront DEF Put, IsText
<1>2. ASSUME NEW t, IsText(t)
      PROVE  /\ Len(t) \in Nat \ {0}
             /\ Len(t) = 1 => t = <<t[1]>>
             /\ Len(t) > 1 => IsText(Rest(t)) /\ t = Put(t[1], Rest(t))
  <2>0. PICK S : t \in Seq(S)
    BY <1>2 DEF IsText
  <2>1. Len(t) \in Nat \ {0} /\ t[1] \in S /\ t \in Seq(S)
    BY <1>2, <2>0 DEF IsText
  <2>2. ASSUME Len(t) = 1 PROVE t = <<t[1]>>
    <3> DEFINE u == <<t[1]>>
    <3>1. u \in Seq(S) /\ Len(u) = 1 /\ u[1] = t[1]
      BY <2>1
    <3> HIDE DEF u
    <3>2. t = u
      BY <2>1, <2>2, <3>1, SeqEqual
    <3> QED BY <3>2 DEF u
  <2>3. ASSUME Len(t) > 1 PROVE IsText(Rest(t)) /\ t = Put(t[1], Rest(t))
    <3> DEFINE u == Tail(t)
               f == <<t[1]>>
    <3>1. /\ u \in Seq(S) /\ Len(u) = Len(t) - 1 /\ Len(u) \in Nat
          /\ \A i \in 1 .. Len(u) : u[i] = t[i + 1]
      BY <2>1, <2>3, HeadTailProperties
    <3>2. Rest(t) = u
      BY <2>3 DEF Rest
    <3>3. f \in Seq(S) /\ Len(f) = 1 /\ f[1] = t[1]
      BY <2>1
    <3> HIDE DEF u, f
    <3>4. /\ f \o u \in Seq(S) /\ Len(f \o u) = 1 + Len(u)
          /\ (f \o u)[1] = f[1] /\ \A i \in 1 .. Len(u) : (f \o u)[i + 1] = u[i]
      <4>1. Len(u) \in Nat /\ u \in Seq(S)
        BY <3>1
      <4> QED BY <4>1, <3>3, ConcatProperties
    <3>5. \A i \in 1 .. Len(t) : (f \o u)[i] = t[i]
      <4> SUFFICES ASSUME NEW i \in 1 .. Len(t) PROVE (f \o u)[i] = t[i]
        OBVIOUS
      <4>1. CASE i = 1
        BY <3>3, <3>4, <4>1
      <4>2. CASE i # 1
        <5>1. i - 1 \in 1 .. Len(u) /\ (i - 1) + 1 = i
          BY <2>1, <3>1, <4>2
        <5> QED BY <3>1, <3>4, <5>1
      <4> QED BY <4>1, <4>2
    <3>6. f \o u = t
      BY <2>1, <3>1, <3>4, <3>5, SeqEqual
    <3>7. u # <<>>
      BY <2>1, <2>3, <3>1
    <3> QED BY <3>1, <3>2, <3>6, <3>7 DEF IsText, Put, f
  <2> QED BY <2>1, <2>2, <2>3
<1>3. ASSUME NEW x PROVE IsText(<<x>>) /\ Len(<<x>>) = 1 /\ Rest(<<x>>) = <<"">>
  <2>1. ASSUME NEW S, NEW y \in S
        PROVE  <<y>> \in Seq(S) /\ Len(<<y>>) = 1 /\ ~(Len(<<y>>) > 1) /\ <<y>> # <<>>
    OBVIOUS
  <2>2. <<x>> \in Seq({x}) /\ Len(<<x>>) = 1 /\ ~(Len(<<x>>) > 1) /\ <<x>> # <<>>
    BY <2>1
  <2>3. Rest(<<x>>) = <<"">>
    BY <2>2, Zenon DEF Rest
  <2> QED BY <2>2, <2>3, Zenon DEF IsText
<1> QED BY <1>1, <1>2, <1>3

\* Short texts, segment by segment.
LEMMA PutShort ==
  /\ \A x, y : Put(x, <<y>>) = <<x, y>>
  /\ \A x, y, z : Put(x, Put(y, <<z>>)) = <<x, y, z>>
  /\ \A x, y, t : IsText(t) => Put(x, Put(y, t)) = <<x, y>> \o t
<1>1. \A x, y : Put(x, <<y>>) = <<x, y>>
  BY Joined DEF Put
<1>2. \A x, y, t : IsText(t) => Put(x, Put(y, t)) = <<x, y>> \o t
  BY TwoInFront DEF Put, IsText
<1>3. ASSUME NEW x, NEW y, NEW z
      PROVE  Put(x, Put(y, <<z>>)) = <<x, y, z>>
  <2>1. IsText(<<z>>)
    BY PutTaken
  <2>2. <<x, y>> \o <<z>> = <<x, y, z>>
    BY Joined
  <2> QED BY <1>2, <2>1, <2>2
<1> QED BY <1>1, <1>2, <1>3
-----------------------------------------------------------------------------
\* What UnitOr makes of a text: the unit it names, or an Other that carries it.
LEMMA UnitOrs ==
  ASSUME NEW t, IsText(t), NEW U
  PROVE  /\ \A a, b :
              /\ Len(t) = 1 /\ t[1] \in U => UnitOr(<<a, b>>, U, t) = Plain(<<a, b, t[1]>>)
              /\ ~(Len(t) = 1 /\ t[1] \in U) => UnitOr(<<a, b>>, U, t) = Is(<<a, b, "Other">>, t)
         /\ \A a :
              /\ Len(t) = 1 /\ t[1] \in U => UnitOr(<<a>>, U, t) = Plain(<<a, t[1]>>)
              /\ ~(Len(t) = 1 /\ t[1] \in U) => UnitOr(<<a>>, U, t) = Is(<<a, "Other">>, t)
<1>1. ASSUME NEW a, NEW b, Len(t) = 1, t[1] \in U
      PROVE  UnitOr(<<a, b>>, U, t) = Plain(<<a, b, t[1]>>)
  <2>1. t = <<t[1]>>
    BY <1>1, PutTaken
  <2>2. <<a, b>> \o <<t[1]>> = <<a, b, t[1]>>
    BY <2>1, Joined
  <2>3. UnitOr(<<a, b>>, U, t) = Plain(<<a, b>> \o t)
    BY <1>1, Zenon DEF UnitOr
  <2> QED BY <2>1, <2>2, <2>3, Zenon
<1>2. ASSUME NEW a, NEW b, ~(Len(t) = 1 /\ t[1] \in U)
      PROVE  UnitOr(<<a, b>>, U, t) = Is(<<a, b, "Other">>, t)
  <2>1. Append(<<a, b>>, "Other") = <<a, b, "Other">>
    BY Joined
  <2> QED BY <1>2, <2>1, Zenon DEF UnitOr
<1>3. ASSUME NEW a, Len(t) = 1, t[1] \in U
      PROVE  UnitOr(<<a>>, U, t) = Plain(<<a, t[1]>>)
  <2>1. t = <<t[1]>>
    BY <1>3, PutTaken
  <2>2. <<a>> \o <<t[1]>> = <<a, t[1]>>
    BY <2>1, Joined
  <2>3. UnitOr(<<a>>, U, t) = Plain(<<a>> \o t)
    BY <1>3, Zenon DEF UnitOr
  <2> QED BY <2>1, <2>2, <2>3, Zenon
<1>4. ASSUME NEW a, ~(Len(t) = 1 /\ t[1] \in U)
      PROVE  UnitOr(<<a>>, U, t) = Is(<<a, "Other">>, t)
  <2>1. Append(<<a>>, "Other") = <<a, "Other">>
    BY Joined
  <2> QED BY <1>4, <2>1, Zenon DEF UnitOr
<1> QED BY <1>1, <1>2, <1>3, <1>4, Zenon

\* How each system reads what follows its name.
LEMMA ReadBySystem ==
  ASSUME NEW t, IsText(t)
  PROVE  /\ artifact_from_str(Put("Windows", t)) = windows_artifacts_from_str(t)
         /\ artifact_from_str(Put("Linux", t)) = linux_artifacts_from_str(t)
         /\ artifact_from_str(Put("MacOs", t)) = UnitOr(<<"MacOs">>, {"Unknown"}, t)
         /\ artifact_from_str(Put("Common", t)) = common_artifact_from_str(t)
         /\ \A x : x \notin Systems \cup {"Unknown"} =>
              artifact_from_str(Put(x, t)) = Is(<<"Other">>, Put(x, t))
<1>1. ASSUME NEW x
      PROVE  LET n == Put(x, t)
             IN  n[1] = x /\ Rest(n) = t /\ Len(n) > 1 /\ Len(n) # 1
  BY PutTaken
<1>2. artifact_from_str(Put("Windows", t)) = windows_artifacts_from_str(t)
  BY <1>1 DEF artifact_from_str
<1>3. artifact_from_str(Put("Linux", t)) = linux_artifacts_from_str(t)
  BY <1>1 DEF artifact_from_str
<1>4. artifact_from_str(Put("MacOs", t)) = UnitOr(<<"MacOs">>, {"Unknown"}, t)
  BY <1>1 DEF artifact_from_str
<1>5. artifact_from_str(Put("Common", t)) = common_artifact_from_str(t)
  BY <1>1 DEF artifact_from_str
<1>6. ASSUME NEW x, x \notin Systems \cup {"Unknown"}
      PROVE  artifact_from_str(Put(x, t)) = Is(<<"Other">>, Put(x, t))
  <2> DEFINE n == Put(x, t)
  <2>1. /\ n[1] # "Windows" /\ n[1] # "Linux" /\ n[1] # "MacOs" /\ n[1] # "Common"
        /\ n[1] # "Unknown" /\ Len(n) # 1
    BY <1>1, <1>6 DEF Systems
  <2> QED BY <2>1 DEF artifact_from_str
<1> QED BY <1>2, <1>3, <1>4, <1>5, <1>6

\* How the groups of a system are read.
LEMMA ReadByGroup ==
  ASSUME NEW t, IsText(t)
  PROVE  /\ windows_artifacts_from_str(Put("Registry", t)) =
              UnitOr(<<"Windows", "Registry">>, RegistryUnits, t)
         /\ windows_artifacts_from_str(Put("WinEvt", t)) =
              UnitOr(<<"Windows", "WinEvt">>, EventUnits \ {"Setup", "Application"}, t)
         /\ \A l \in LogKinds : linux_artifacts_from_str(Put(l, t)) = Is(<<"Linux", l>>, t)
         /\ linux_artifacts_from_str(Put("Service", t)) =
              UnitOr(Service, ServiceUnits, Put("Service", t))
         /\ common_artifact_from_str(Put("WebBrowsing", t)) =
              UnitOr(<<"Common", "WebBrowsing">>, BrowsingUnits, t)
<1>1. ASSUME NEW x
      PROVE  LET n == Put(x, t)
             IN  n[1] = x /\ Rest(n) = t /\ Len(n) > 1 /\ Len(n) # 1
  BY PutTaken
<1>2. windows_artifacts_from_str(Put("Registry", t)) =
        UnitOr(<<"Windows", "Registry">>, RegistryUnits, t)
  <2>1. "Registry" \notin WindowsUnits
    BY DEF WindowsUnits
  <2> QED BY <1>1, <2>1, SMT DEF windows_artifacts_from_str
<1>3. windows_artifacts_from_str(Put("WinEvt", t)) =
        UnitOr(<<"Windows", "WinEvt">>, EventUnits \ {"Setup", "Application"}, t)
  <2>1. "WinEvt" \notin WindowsUnits
    BY DEF WindowsUnits
  <2> QED BY <1>1, <2>1, SMT DEF windows_artifacts_from_str
<1>4. ASSUME NEW l \in LogKinds PROVE linux_artifacts_from_str(Put(l, t)) = Is(<<"Linux", l>>, t)
  <2>1. l # "Service"
    BY DEF LogKinds
  <2> QED BY <1>1, <1>4, <2>1, SMT DEF linux_artifacts_from_str
<1>5. linux_artifacts_from_str(Put("Service", t)) =
        UnitOr(Service, ServiceUnits, Put("Service", t))
  <2>1. "Service" \notin LogKinds
    BY DEF LogKinds
  <2> QED BY <1>1, <2>1 DEF linux_artifacts_from_str, Service
<1>6. common_artifact_from_str(Put("WebBrowsing", t)) =
        UnitOr(<<"Common", "WebBrowsing">>, BrowsingUnits, t)
  BY <1>1 DEF common_artifact_from_str
<1> QED BY <1>2, <1>3, <1>4, <1>5, <1>6
-----------------------------------------------------------------------------
\* The names of what UnitOr makes are the texts it read, with one exception.
LEMMA UnitOrNamed ==
  ASSUME NEW t, IsText(t)
  PROVE  /\ Display(UnitOr(<<"Windows", "Registry">>, RegistryUnits, t)) =
              Put("Windows", Put("Registry", IF t = <<"ShimCache">> THEN <<"InitD">> ELSE t))
         /\ Display(UnitOr(<<"Windows", "WinEvt">>, EventUnits \ {"Setup", "Application"}, t)) =
              Put("Windows", Put("WinEvt", t))
         /\ Display(UnitOr(<<"Common", "WebBrowsing">>, BrowsingUnits, t)) =
              Put("Common", Put("WebBrowsing", t))
         /\ Display(UnitOr(<<"MacOs">>, {"Unknown"}, t)) = Put("Mac", t)
<1>0. PICK S : t \in Seq(S)
  BY DEF IsText
<1>1. Len(t) = 1 => t = <<t[1]>>
  BY PutTaken
<1>2. Display(UnitOr(<<"Windows", "Registry">>, RegistryUnits, t)) =
        Put("Windows", Put("Registry", IF t = <<"ShimCache">> THEN <<"InitD">> ELSE t))
  <2>1. CASE Len(t) = 1 /\ t[1] \in RegistryUnits
    <3> DEFINE r == t[1]
               x == IF r = "ShimCache" THEN "InitD" ELSE r
    <3>1. UnitOr(<<"Windows", "Registry">>, RegistryUnits, t) =
            Plain(<<"Windows", "Registry", r>>)
      BY <2>1, UnitOrs
    <3>2. Display(Plain(<<"Windows", "Registry", r>>)) = <<"Windows", "Registry", x>>
      BY <2>1, UnitsShown
    <3>3. <<"Windows", "Registry", x>> = Put("Windows", Put("Registry", <<x>>))
      BY PutShort
    <3>4. <<x>> = IF t = <<"ShimCache">> THEN <<"InitD">> ELSE t
      BY <1>1, <2>1
    <3> QED BY <3>1, <3>2, <3>3, <3>4
  <2>2. CASE ~(Len(t) = 1 /\ t[1] \in RegistryUnits)
    <3>1. UnitOr(<<"Windows", "Registry">>, RegistryUnits, t) =
            Is(<<"Windows", "Registry", "Other">>, t)
      BY <2>2, UnitOrs
    <3>2. Display(Is(<<"Windows", "Registry", "Other">>, t)) = <<"Windows", "Registry">> \o t
      BY <1>0, TextsShown
    <3>3. t # <<"ShimCache">>
      BY <2>2 DEF RegistryUnits
    <3> QED BY <3>1, <3>2, <3>3, PutShort
  <2> QED BY <2>1, <2>2
<1>3. Display(UnitOr(<<"Windows", "WinEvt">>, EventUnits \ {"Setup", "Application"}, t)) =
        Put("Windows", Put("WinEvt", t))
  <2> DEFINE U == EventUnits \ {"Setup", "Application"}
  <2>1. CASE Len(t) = 1 /\ t[1] \in U
    <3>1. UnitOr(<<"Windows", "WinEvt">>, U, t) = Plain(<<"Windows", "WinEvt", t[1]>>)
      BY <2>1, UnitOrs
    <3>2. Display(Plain(<<"Windows", "WinEvt", t[1]>>)) = <<"Windows", "WinEvt", t[1]>>
      BY <2>1, UnitsShown
    <3>3. <<"Windows", "WinEvt", t[1]>> = Put("Windows", Put("WinEvt", <<t[1]>>))
      BY PutShort
    <3> QED BY <1>1, <2>1, <3>1, <3>2, <3>3
  <2>2. CASE ~(Len(t) = 1 /\ t[1] \in U)
    <3>1. UnitOr(<<"Windows", "WinEvt">>, U, t) = Is(<<"Windows", "WinEvt", "Other">>, t)
      BY <2>2, UnitOrs
    <3>2. Display(Is(<<"Windows", "WinEvt", "Other">>, t)) = <<"Windows", "WinEvt">> \o t
      BY <1>0, TextsShown
    <3> QED BY <3>1, <3>2, PutShort
  <2> QED BY <2>1, <2>2
<1>4. Display(UnitOr(<<"Common", "WebBrowsing">>, BrowsingUnits, t)) =
        Put("Common", Put("WebBrowsing", t))
  <2>1. CASE Len(t) = 1 /\ t[1] \in BrowsingUnits
    <3>1. UnitOr(<<"Common", "WebBrowsing">>, BrowsingUnits, t) =
            Plain(<<"Common", "WebBrowsing", t[1]>>)
      BY <2>1, UnitOrs
    <3>2. Display(Plain(<<"Common", "WebBrowsing", t[1]>>)) = <<"Common", "WebBrowsing", t[1]>>
      BY <2>1, UnitsShown
    <3>3. <<"Common", "WebBrowsing", t[1]>> = Put("Common", Put("WebBrowsing", <<t[1]>>))
      BY PutShort
    <3> QED BY <1>1, <2>1, <3>1, <3>2, <3>3
  <2>2. CASE ~(Len(t) = 1 /\ t[1] \in BrowsingUnits)
    <3>1. UnitOr(<<"Common", "WebBrowsing">>, BrowsingUnits, t) =
            Is(<<"Common", "WebBrowsing", "Other">>, t)
      BY <2>2, UnitOrs
    <3>2. Display(Is(<<"Common", "WebBrowsing", "Other">>, t)) = <<"Common", "WebBrowsing">> \o t
      BY <1>0, TextsShown
    <3> QED BY <3>1, <3>2, PutShort
  <2> QED BY <2>1, <2>2
<1>5. Display(UnitOr(<<"MacOs">>, {"Unknown"}, t)) = Put("Mac", t)
  <2>1. CASE Len(t) = 1 /\ t[1] \in {"Unknown"}
    <3>1. UnitOr(<<"MacOs">>, {"Unknown"}, t) = Plain(<<"MacOs", t[1]>>)
      BY <2>1, UnitOrs
    <3>2. Display(Plain(<<"MacOs", "Unknown">>)) = <<"Mac", "Unknown">>
      BY UnitsShown
    <3>3. <<"Mac", "Unknown">> = Put("Mac", <<"Unknown">>)
      BY PutShort
    <3>4. t[1] = "Unknown"
      BY <2>1
    <3> QED BY <1>1, <2>1, <3>1, <3>2, <3>3, <3>4
  <2>2. CASE ~(Len(t) = 1 /\ t[1] \in {"Unknown"})
    <3>1. UnitOr(<<"MacOs">>, {"Unknown"}, t) = Is(<<"MacOs", "Other">>, t)
      BY <2>2, UnitOrs
    <3>2. Display(Is(<<"MacOs", "Other">>, t)) = <<"Mac">> \o t
      BY <1>0, TextsShown
    <3> QED BY <3>1, <3>2 DEF Put
  <2> QED BY <2>1, <2>2
<1> QED BY <1>2, <1>3, <1>4, <1>5

\* The other names, segment by segment.
LEMMA OthersNamed ==
  /\ \A t : IsText(t) =>
       /\ Display(Is(<<"Windows", "Other">>, t)) = Put("Windows", t)
       /\ Display(Is(<<"Linux", "Other">>, t)) = Put("Linux", t)
       /\ Display(Is(<<"Common", "Other">>, t)) = Put("Common", t)
       /\ \A l \in LogKinds : Display(Is(<<"Linux", l>>, t)) = Put("Linux", Put(l, t))
       /\ Display(Is(<<"Other">>, t)) = t
  /\ \A w \in WindowsUnits : Display(Plain(<<"Windows", w>>)) = Put("Windows", <<w>>)
  /\ Display(Plain(<<"Linux", "Unknown">>)) = Put("Linux", Put("Log", <<"Unknown">>))
  /\ Display(Plain(<<"Common", "Unknown">>)) = Put("Common", <<"Unknown">>)
<1>1. ASSUME NEW t, IsText(t)
      PROVE  /\ Display(Is(<<"Windows", "Other">>, t)) = Put("Windows", t)
             /\ Display(Is(<<"Linux", "Other">>, t)) = Put("Linux", t)
             /\ Display(Is(<<"Common", "Other">>, t)) = Put("Common", t)
             /\ \A l \in LogKinds : Display(Is(<<"Linux", l>>, t)) = Put("Linux", Put(l, t))
             /\ Display(Is(<<"Other">>, t)) = t
  <2>0. PICK S : t \in Seq(S)
    BY <1>1 DEF IsText
  <2>1. \A l \in LogKinds : Display(Is(<<"Linux", l>>, t)) = <<"Linux", l>> \o t
    BY <2>0, TextsShown
  <2>2. \A l \in LogKinds : Display(Is(<<"Linux", l>>, t)) = Put("Linux", Put(l, t))
    BY <1>1, <2>1, PutShort, ZenonT(60)
  <2> QED BY <2>0, <2>2, TextsShown DEF Put
<1>2. \A w \in WindowsUnits : Display(Plain(<<"Windows", w>>)) = Put("Windows", <<w>>)
  BY UnitsShown, PutShort
<1>3. Display(Plain(<<"Linux", "Unknown">>)) = Put("Linux", Put("Log", <<"Unknown">>))
  BY UnitsShown, PutShort, ZenonT(60)
<1>4. Display(Plain(<<"Common", "Unknown">>)) = Put("Common", <<"Unknown">>)
  BY UnitsShown, PutShort
<1> QED BY <1>1, <1>2, <1>3, <1>4
-----------------------------------------------------------------------------
\* Reading a name and naming what was read.
Renamed(n) == Display(artifact_from_str(n))

\* What follows a first segment is a text, the empty one if nothing does.
LEMMA RestText ==
  ASSUME NEW t, IsText(t)
  PROVE  IsText(Rest(t)) /\ (Len(t) = 1 => Rest(t) = <<"">>)
<1>1. CASE Len(t) = 1
  <2>1. Rest(t) = <<"">>
    BY <1>1, PutTaken
  <2> QED BY <2>1, PutTaken, ZenonT(60)
<1>2. CASE Len(t) # 1
  <2>1. Len(t) \in Nat \ {0}
    BY PutTaken
  <2>2. Len(t) > 1
    BY <1>2, <2>1
  <2> QED BY <1>2, <2>2, PutTaken
<1> QED BY <1>1, <1>2

\* Each way to read a text of Windows.
LEMMA WindowsRead ==
  ASSUME NEW u
  PROVE  /\ u[1] = "Registry" => windows_artifacts_from_str(u) =
              UnitOr(<<"Windows", "Registry">>, RegistryUnits, Rest(u))
         /\ u[1] = "WinEvt" => windows_artifacts_from_str(u) =
              UnitOr(<<"Windows", "WinEvt">>, EventUnits \ {"Setup", "Application"}, Rest(u))
         /\ u[1] \in WindowsUnits => windows_artifacts_from_str(u) = Plain(<<"Windows", u[1]>>)
         /\ u[1] \notin WindowsUnits \cup {"Registry", "WinEvt"} =>
              windows_artifacts_from_str(u) = Is(<<"Windows", "Other">>, Rest(u))
<1>1. "Registry" \notin WindowsUnits /\ "WinEvt" \notin WindowsUnits
  BY DEF WindowsUnits
<1>2. CASE u[1] = "Registry"
  BY <1>1, <1>2, SMT DEF windows_artifacts_from_str
<1>3. CASE u[1] = "WinEvt"
  BY <1>1, <1>3, SMT DEF windows_artifacts_from_str
<1>4. CASE u[1] \in WindowsUnits
  BY <1>1, <1>4, SMT DEF windows_artifacts_from_str
<1>5. CASE u[1] \notin WindowsUnits \cup {"Registry", "WinEvt"}
  BY <1>1, <1>5, SMT DEF windows_artifacts_from_str
<1> QED BY <1>2, <1>3, <1>4, <1>5

\* Each way to read a text of Linux.
LEMMA LinuxRead ==
  ASSUME NEW u, Len(u) \in Nat
  PROVE  /\ Len(u) = 1 => linux_artifacts_from_str(u) = Plain(<<"Linux", "Unknown">>)
         /\ Len(u) > 1 /\ u[1] \in LogKinds =>
              linux_artifacts_from_str(u) = Is(<<"Linux", u[1]>>, Rest(u))
         /\ Len(u) > 1 /\ u[1] = "Service" =>
              linux_artifacts_from_str(u) = UnitOr(Service, ServiceUnits, u)
         /\ Len(u) > 1 /\ u[1] \notin LogKinds \cup {"Service"} =>
              linux_artifacts_from_str(u) = Is(<<"Linux", "Other">>, Rest(u))
<1>0. Len(u) > 1 => Len(u) # 1
  <2>1. \A k \in Nat : k > 1 => k # 1
    OBVIOUS
  <2> QED BY <2>1, Zenon
<1>1. "Service" \notin LogKinds
  BY DEF LogKinds
<1>2. ASSUME Len(u) = 1 PROVE linux_artifacts_from_str(u) = Plain(<<"Linux", "Unknown">>)
  <2>1. ~(Len(u) > 1)
    BY <1>2
  <2> QED BY <1>2, <2>1, SMT DEF linux_artifacts_from_str
<1>3. ASSUME Len(u) > 1, u[1] \in LogKinds
      PROVE  linux_artifacts_from_str(u) = Is(<<"Linux", u[1]>>, Rest(u))
  <2>1. Len(u) # 1 /\ u[1] # "Service"
    BY <1>1, <1>3
  <2> QED BY <1>3, <2>1, SMT DEF linux_artifacts_from_str
<1>4. ASSUME Len(u) > 1, u[1] = "Service"
      PROVE  linux_artifacts_from_str(u) = UnitOr(Service, ServiceUnits, u)
  <2>1. Len(u) # 1 /\ u[1] \notin LogKinds
    BY <1>0, <1>1, <1>4, Zenon
  <2> QED BY <1>4, <2>1, SMT DEF linux_artifacts_from_str, Service
<1>5. ASSUME Len(u) > 1, u[1] \notin LogKinds \cup {"Service"}
      PROVE  linux_artifacts_from_str(u) = Is(<<"Linux", "Other">>, Rest(u))
  <2>1. Len(u) # 1
    BY <1>0, <1>5, Zenon
  <2> QED BY <1>5, <2>1, SMT DEF linux_artifacts_from_str
<1> QED BY <1>2, <1>3, <1>4, <1>5

\* Each way to read a text of what systems have in common.
LEMMA CommonRead ==
  ASSUME NEW u, Len(u) \in Nat
  PROVE  /\ Len(u) = 1 \/ u[1] = "Unknown" =>
              common_artifact_from_str(u) = Plain(<<"Common", "Unknown">>)
         /\ Len(u) > 1 /\ u[1] = "WebBrowsing" => common_artifact_from_str(u) =
              UnitOr(<<"Common", "WebBrowsing">>, BrowsingUnits, Rest(u))
         /\ Len(u) > 1 /\ u[1] \notin {"Unknown", "WebBrowsing"} =>
              common_artifact_from_str(u) = Is(<<"Common", "Other">>, u)
<1>1. CASE Len(u) = 1 \/ u[1] = "Unknown"
  BY <1>1, SMT DEF common_artifact_from_str
<1>2. CASE Len(u) > 1 /\ u[1] = "WebBrowsing"
  BY <1>2, SMT DEF common_artifact_from_str
<1>3. CASE Len(u) > 1 /\ u[1] \notin {"Unknown", "WebBrowsing"}
  BY <1>3, SMT DEF common_artifact_from_str
<1> QED BY <1>1, <1>2, <1>3

\* A name of one segment, or that says so, is that of nothing known.
LEMMA UnknownRead ==
  ASSUME NEW n, Len(n) \in Nat, Len(n) = 1 \/ n[1] = "Unknown"
  PROVE  artifact_from_str(n) = Unknown
<1>1. CASE Len(n) = 1
  <2>1. ~(Len(n) > 1)
    BY <1>1
  <2> QED BY <1>1, <2>1, SMT DEF artifact_from_str
<1>2. CASE n[1] = "Unknown"
  <2>1. /\ n[1] # "Windows" /\ n[1] # "Linux" /\ n[1] # "MacOs" /\ n[1] # "Common"
    BY <1>2
  <2> QED BY <1>2, <2>1, SMT DEF artifact_from_str
<1> QED BY <1>1, <1>2

\* The names that reading and naming leaves alone.
LEMMA Steady ==
  /\ Renamed(<<"Unknown">>) = <<"Unknown">>
  /\ \A t : IsText(t) =>
       /\ LET m == Put("Windows", Put("Registry", t))
          IN  t # <<"ShimCache">> => Renamed(m) = m
       /\ LET m == Put("Windows", Put("WinEvt", t)) IN Renamed(m) = m
       /\ \A l \in LogKinds : LET m == Put("Linux", Put(l, t)) IN Renamed(m) = m
       /\ LET m == Put("Common", Put("WebBrowsing", t)) IN Renamed(m) = m
       /\ \A x : x \notin Systems \cup {"Unknown"} => Renamed(Put(x, t)) = Put(x, t)
  /\ \A w \in WindowsUnits : LET m == Put("Windows", <<w>>) IN Renamed(m) = m
  /\ LET m == Put("Windows", <<"">>) IN Renamed(m) = m
  /\ LET m == Put("Common", <<"Unknown">>) IN Renamed(m) = m
<1>1. Renamed(<<"Unknown">>) = <<"Unknown">>
  <2>1. artifact_from_str(<<"Unknown">>) = Unknown
    BY UnknownRead
  <2> QED BY <2>1, UnitsShown DEF Renamed
<1>2. ASSUME NEW t, IsText(t)
      PROVE  /\ LET m == Put("Windows", Put("Registry", t))
                IN  t # <<"ShimCache">> => Renamed(m) = m
             /\ LET m == Put("Windows", Put("WinEvt", t)) IN Renamed(m) = m
             /\ \A l \in LogKinds : LET m == Put("Linux", Put(l, t)) IN Renamed(m) = m
             /\ LET m == Put("Common", Put("WebBrowsing", t)) IN Renamed(m) = m
             /\ \A x : x \notin Systems \cup {"Unknown"} => Renamed(Put(x, t)) = Put(x, t)
  <2>1. \A x : IsText(Put(x, t))
    BY <1>2, PutTaken
  <2>2. Renamed(Put("Windows", Put("Registry", t))) =
          Put("Windows", Put("Registry", IF t = <<"ShimCache">> THEN <<"InitD">> ELSE t))
    BY <1>2, <2>1, ReadBySystem, ReadByGroup, UnitOrNamed DEF Renamed
  <2>3. LET m == Put("Windows", Put("WinEvt", t)) IN Renamed(m) = m
    <3>1. artifact_from_str(Put("Windows", Put("WinEvt", t))) =
            UnitOr(<<"Windows", "WinEvt">>, EventUnits \ {"Setup", "Application"}, t)
      BY <1>2, <2>1, ReadBySystem, ReadByGroup
    <3> QED BY <1>2, <3>1, UnitOrNamed DEF Renamed
  <2>4. ASSUME NEW l \in LogKinds PROVE LET m == Put("Linux", Put(l, t)) IN Renamed(m) = m
    <3>1. artifact_from_str(Put("Linux", Put(l, t))) = Is(<<"Linux", l>>, t)
      BY <1>2, <2>1, <2>4, ReadBySystem, ReadByGroup
    <3> QED BY <1>2, <2>4, <3>1, OthersNamed DEF Renamed
  <2>5. LET m == Put("Common", Put("WebBrowsing", t)) IN Renamed(m) = m
    BY <1>2, <2>1, ReadBySystem, ReadByGroup, UnitOrNamed DEF Renamed
  <2>6. ASSUME NEW x, x \notin Systems \cup {"Unknown"} PROVE Renamed(Put(x, t)) = Put(x, t)
    BY <1>2, <2>1, <2>6, ReadBySystem, OthersNamed DEF Renamed
  <2> QED BY <2>2, <2>3, <2>4, <2>5, <2>6
<1>3. \A x : IsText(<<x>>) /\ Len(<<x>>) = 1 /\ <<x>>[1] = x /\ 1 \in Nat
  BY PutTaken
<1>4. ASSUME NEW w \in WindowsUnits
      PROVE  LET m == Put("Windows", <<w>>) IN Renamed(m) = m
  <2>1. artifact_from_str(Put("Windows", <<w>>)) = Plain(<<"Windows", w>>)
    BY <1>3, <1>4, ReadBySystem, WindowsRead
  <2> QED BY <2>1, OthersNamed DEF Renamed
<1>5. LET m == Put("Windows", <<"">>) IN Renamed(m) = m
  <2>1. "" \notin WindowsUnits \cup {"Registry", "WinEvt"}
    BY DEF WindowsUnits
  <2>2. artifact_from_str(Put("Windows", <<"">>)) = Is(<<"Windows", "Other">>, Rest(<<"">>))
    BY <1>3, <2>1, ReadBySystem, WindowsRead
  <2>3. Rest(<<"">>) = <<"">>
    BY <1>3, RestText
  <2> QED BY <1>3, <2>2, <2>3, OthersNamed, ZenonT(60) DEF Renamed
<1>6. LET m == Put("Common", <<"Unknown">>) IN Renamed(m) = m
  <2>1. artifact_from_str(Put("Common", <<"Unknown">>)) = Plain(<<"Common", "Unknown">>)
    BY <1>3, ReadBySystem, CommonRead
  <2> QED BY <2>1, OthersNamed DEF Renamed
<1> QED BY <1>1, <1>2, <1>4, <1>5, <1>6
-----------------------------------------------------------------------------
\* The name of a service, which grows with every reading.
Growing(n) == \E u : IsText(u) /\ n = Put("Linux", Put("Service", u))

\* A service stays one and keeps such a name.
LEMMA GrowsOn ==
  ASSUME NEW n, Growing(n)
  PROVE  /\ artifact_from_str(n).path = <<"Linux", "Service", "Other">>
         /\ IsText(Renamed(n)) /\ Growing(Renamed(n))
<1>1. PICK u : IsText(u) /\ n = Put("Linux", Put("Service", u))
  BY DEF Growing
<1> DEFINE t == Put("Service", u)
<1>2. IsText(t) /\ Len(t) # 1 /\ IsText(n)
  BY <1>1, PutTaken
<1>3. artifact_from_str(n) = UnitOr(Service, ServiceUnits, t)
  BY <1>1, <1>2, ReadBySystem, ReadByGroup
<1>4. artifact_from_str(n) = Is(<<"Linux", "Service", "Other">>, t)
  BY <1>2, <1>3, UnitOrs DEF Service
<1>5. PICK S : t \in Seq(S)
  BY <1>2 DEF IsText
<1>6. Display(Is(<<"Linux", "Service", "Other">>, t)) = <<"Linux", "Service">> \o t
  <2>1. /\ Last(Shown(<<"Linux", "Service", "Other">>)) = "Other"
        /\ Front(Shown(<<"Linux", "Service", "Other">>)) = <<"Linux", "Service">>
    BY ShownPaths, TupleEnds
  <2> QED BY <2>1, OtherShown
<1>7. Renamed(n) = Put("Linux", Put("Service", t))
  <2>1. <<"Linux", "Service">> \o t = Put("Linux", Put("Service", t))
    BY <1>2, PutShort
  <2> QED BY <1>4, <1>6, <2>1, Zenon DEF Renamed
<1>8. IsText(Renamed(n))
  <2>1. \A x, y : IsText(y) => IsText(Put(x, y))
    BY PutTaken
  <2> QED BY <1>2, <1>7, <2>1, Zenon
<1> QED BY <1>2, <1>4, <1>7, <1>8 DEF Growing, Is

\* What becomes of a name in one reading.
LEMMA Fate ==
  ASSUME NEW n, IsText(n)
  PROVE  LET m == Renamed(n)
         IN  /\ IsText(m)
             /\ \/ IsPrefix(Service, artifact_from_str(n).path) /\ Growing(m)
                \/ Renamed(m) = m
                \/ Len(m) < Len(n)
<1> DEFINE m == Renamed(n)
           t == Rest(n)
<1>1. Len(n) \in Nat \ {0}
  BY PutTaken
<1>2. \A x, y : IsText(y) => IsText(Put(x, y)) /\ Len(Put(x, y)) = Len(y) + 1 /\ Len(Put(x, y)) # 1
  BY PutTaken
<1>3. \A x : IsText(<<x>>)
  BY PutTaken
<1>4. CASE Len(n) = 1 \/ n[1] = "Unknown"
  <2>1. m = <<"Unknown">>
    BY <1>1, <1>4, UnknownRead, UnitsShown DEF Renamed
  <2> QED BY <2>1, <1>3, Steady
<1>5. CASE Len(n) # 1 /\ n[1] # "Unknown"
  <2>0. \A k \in Nat \ {0} : k # 1 => k > 1
    OBVIOUS
  <2>1. Len(n) > 1
    BY <1>1, <1>5, <2>0, Zenon
  <2>2. IsText(t) /\ n = Put(n[1], t)
    BY <2>1, PutTaken
  <2>3. IsText(Rest(t)) /\ (Len(t) = 1 => Rest(t) = <<"">>) /\ Len(t) \in Nat \ {0}
    BY <2>2, RestText, PutTaken
  <2>4. Len(t) > 1 => t = Put(t[1], Rest(t))
    BY <2>2, PutTaken
  <2>5. Len(t) # 1 => Len(t) > 1
    BY <2>0, <2>3, Zenon
  <2> HIDE DEF t
  <2>12. \A i, j, k, l \in Nat : k = l + 1 /\ j = l + 1 /\ i = j + 1 => k < i
    OBVIOUS
  <2>6. CASE n[1] = "Windows"
    <3>1. artifact_from_str(n) = windows_artifacts_from_str(t)
      BY <2>2, <2>6, ReadBySystem
    <3>2. CASE t[1] = "Registry"
      <4> DEFINE u == IF Rest(t) = <<"ShimCache">> THEN <<"InitD">> ELSE Rest(t)
      <4>1. m = Put("Windows", Put("Registry", u))
        BY <2>3, <3>1, <3>2, WindowsRead, UnitOrNamed DEF Renamed
      <4>2. IsText(u)
        BY <1>3, <2>3
      <4>3. u # <<"ShimCache">>
        OBVIOUS
      <4> HIDE DEF u
      <4>4. IsText(m)
        BY <1>2, <4>1, <4>2
      <4>5. Renamed(m) = m
        BY <4>1, <4>2, <4>3, Steady
      <4> QED BY <4>4, <4>5
    <3>3. CASE t[1] = "WinEvt"
      <4>1. artifact_from_str(n) =
              UnitOr(<<"Windows", "WinEvt">>, EventUnits \ {"Setup", "Application"}, Rest(t))
        BY <3>1, <3>3, WindowsRead
      <4>2. m = Put("Windows", Put("WinEvt", Rest(t)))
        BY <2>3, <4>1, UnitOrNamed DEF Renamed
      <4>3. IsText(m)
        BY <1>2, <2>3, <4>2
      <4>4. Renamed(m) = m
        BY <2>3, <4>2, Steady
      <4> QED BY <4>3, <4>4
    <3>4. CASE t[1] \in WindowsUnits
      <4>1. m = Put("Windows", <<t[1]>>)
        BY <3>1, <3>4, WindowsRead, OthersNamed DEF Renamed
      <4>2. IsText(m)
        BY <1>2, <1>3, <4>1
      <4>3. Renamed(m) = m
        BY <3>4, <4>1, Steady
      <4> QED BY <4>2, <4>3
    <3>5. CASE t[1] \notin WindowsUnits \cup {"Registry", "WinEvt"}
      <4>1. artifact_from_str(n) = Is(<<"Windows", "Other">>, Rest(t))
        BY <3>1, <3>5, WindowsRead
      <4>2. m = Put("Windows", Rest(t)) /\ IsText(m)
        <5>1. m = Put("Windows", Rest(t))
          BY <2>3, <4>1, OthersNamed DEF Renamed
        <5> QED BY <1>2, <2>3, <5>1
      <4>5. Len(Rest(t)) \in Nat /\ Len(m) \in Nat
        BY <2>3, <4>2, PutTaken
      <4>3. CASE Len(t) = 1
        <5>1. m = Put("Windows", <<"">>)
          BY <2>3, <4>2, <4>3
        <5>2. Renamed(m) = m
          BY <5>1, Steady
        <5> QED BY <4>2, <5>2
      <4>4. CASE Len(t) # 1
        <5>1. Len(m) = Len(Rest(t)) + 1 /\ Len(t) = Len(Rest(t)) + 1 /\ Len(n) = Len(t) + 1
          BY <1>2, <2>2, <2>3, <2>4, <2>5, <4>2, <4>4
        <5>2. Len(m) < Len(n)
          BY <1>1, <2>3, <5>1, <4>5, <2>12, Zenon
        <5> QED BY <4>2, <5>2
      <4> QED BY <4>3, <4>4
    <3> QED BY <3>2, <3>3, <3>4, <3>5
  <2>7. CASE n[1] = "Linux"
    <3>1. artifact_from_str(n) = linux_artifacts_from_str(t)
      BY <2>2, <2>7, ReadBySystem
    <3>2. CASE Len(t) = 1
      <4>1. artifact_from_str(n) = Plain(<<"Linux", "Unknown">>)
        BY <2>3, <3>1, <3>2, LinuxRead
      <4>2. m = Put("Linux", Put("Log", <<"Unknown">>))
        BY <4>1, OthersNamed DEF Renamed
      <4>3. IsText(m)
        BY <1>2, <1>3, <4>2
      <4>4. "Log" \in LogKinds
        BY DEF LogKinds
      <4>5. Renamed(m) = m
        BY <1>3, <4>2, <4>4, Steady
      <4> QED BY <4>3, <4>5
    <3>3. CASE Len(t) > 1 /\ t[1] \in LogKinds
      <4>1. artifact_from_str(n) = Is(<<"Linux", t[1]>>, Rest(t))
        BY <2>3, <3>1, <3>3, LinuxRead
      <4>2. m = Put("Linux", Put(t[1], Rest(t)))
        BY <2>3, <3>3, <4>1, OthersNamed, ZenonT(60) DEF Renamed
      <4>3. IsText(m)
        BY <1>2, <2>3, <4>2
      <4>4. Renamed(m) = m
        BY <2>3, <3>3, <4>2, Steady, ZenonT(60)
      <4> QED BY <4>3, <4>4
    <3>4. CASE Len(t) > 1 /\ t[1] = "Service"
      <4>1. Growing(n)
        BY <2>2, <2>3, <2>4, <2>7, <3>4 DEF Growing
      <4>2. artifact_from_str(n).path = <<"Linux", "Service", "Other">> /\ IsText(m) /\ Growing(m)
        BY <4>1, GrowsOn
      <4>3. IsPrefix(Service, <<"Linux", "Service", "Other">>)
        BY DEF IsPrefix, Service
      <4> QED BY <4>2, <4>3
    <3>5. CASE Len(t) > 1 /\ t[1] \notin LogKinds \cup {"Service"}
      <4>1. artifact_from_str(n) = Is(<<"Linux", "Other">>, Rest(t))
        BY <2>3, <3>1, <3>5, LinuxRead
      <4>2. m = Put("Linux", Rest(t)) /\ IsText(m)
        <5>1. m = Put("Linux", Rest(t))
          BY <2>3, <4>1, OthersNamed DEF Renamed
        <5> QED BY <1>2, <2>3, <5>1
      <4>3. Len(m) = Len(Rest(t)) + 1 /\ Len(t) = Len(Rest(t)) + 1 /\ Len(n) = Len(t) + 1
        BY <1>2, <2>2, <2>3, <2>4, <3>5, <4>2
      <4>4. Len(m) < Len(n)
        <5>1. Len(Rest(t)) \in Nat /\ Len(m) \in Nat
          BY <2>3, <4>2, PutTaken
        <5> QED BY <1>1, <2>3, <4>3, <5>1, <2>12, Zenon
      <4> QED BY <4>2, <4>4
    <3> QED BY <2>5, <3>2, <3>3, <3>4, <3>5
  <2>8. CASE n[1] = "MacOs"
    <3>1. m = Put("Mac", t)
      BY <2>2, <2>8, ReadBySystem, UnitOrNamed DEF Renamed
    <3>2. "Mac" \notin Systems \cup {"Unknown"}
      BY DEF Systems
    <3>3. IsText(m)
      BY <1>2, <2>2, <3>1
    <3>4. Renamed(m) = m
      <4>1. Renamed(Put("Mac", t)) = Put("Mac", t)
        BY <2>2, <3>2, Steady
      <4> QED BY <3>1, <4>1, Zenon
    <3> QED BY <3>3, <3>4
  <2>9. CASE n[1] = "Common"
    <3>1. artifact_from_str(n) = common_artifact_from_str(t)
      BY <2>2, <2>9, ReadBySystem
    <3>2. CASE Len(t) = 1 \/ t[1] = "Unknown"
      <4>1. artifact_from_str(n) = Plain(<<"Common", "Unknown">>)
        BY <2>3, <3>1, <3>2, CommonRead
      <4>2. m = Put("Common", <<"Unknown">>)
        BY <4>1, OthersNamed DEF Renamed
      <4>3. IsText(m)
        BY <1>2, <1>3, <4>2
      <4>4. Renamed(m) = m
        BY <4>2, Steady
      <4> QED BY <4>3, <4>4
    <3>3. CASE Len(t) > 1 /\ t[1] = "WebBrowsing"
      <4>1. artifact_from_str(n) = UnitOr(<<"Common", "WebBrowsing">>, BrowsingUnits, Rest(t))
        BY <2>3, <3>1, <3>3, CommonRead
      <4>2. m = Put("Common", Put("WebBrowsing", Rest(t)))
        BY <2>3, <4>1, UnitOrNamed DEF Renamed
      <4>3. IsText(m)
        BY <1>2, <2>3, <4>2
      <4>4. Renamed(m) = m
        BY <2>3, <4>2, Steady
      <4> QED BY <4>3, <4>4
    <3>4. CASE Len(t) > 1 /\ t[1] \notin {"Unknown", "WebBrowsing"}
      <4>1. artifact_from_str(n) = Is(<<"Common", "Other">>, t)
        BY <2>3, <3>1, <3>4, CommonRead
      <4>2. m = n
        BY <2>2, <2>9, <4>1, OthersNamed DEF Renamed
      <4>3. Renamed(m) = m
        BY <4>2
      <4> QED BY <4>2, <4>3
    <3> QED BY <2>5, <3>2, <3>3, <3>4
  <2>10. CASE n[1] \notin Systems \cup {"Unknown"}
    <3>1. m = n
      <4>1. Renamed(Put(n[1], t)) = Put(n[1], t)
        BY <2>2, <2>10, Steady
      <4> QED BY <2>2, <4>1, Zenon
    <3>2. Renamed(m) = m
      BY <3>1
    <3> QED BY <3>1, <3>2
  <2>11. n[1] \in Systems => n[1] \in {"Windows", "Linux", "MacOs", "Common"}
    BY DEF Systems
  <2> QED BY <1>5, <2>6, <2>7, <2>8, <2>9, <2>10, <2>11
<1> QED BY <1>4, <1>5
-----------------------------------------------------------------------------
\* An artifact as the records of the model are built, with a text if it has one.
IsNamed(a) == a = Is(a.path, a.text) /\ (a.text = <<>> \/ IsText(a.text)) /\ IsArtifact(a)

\* What is not among the exceptions, path by path.
LEMMA WellRead ==
  ASSUME NEW a, IsNamed(a), ~Misread(a)
  PROVE  /\ a.path # <<"Windows", "Registry", "ShimCache">>
         /\ a.path # <<"Windows", "WinEvt", "Setup">>
         /\ a.path # <<"Windows", "WinEvt", "Application">>
         /\ a.path # <<"Linux", "Unknown">> /\ a.path # <<"Windows", "Other">>
         /\ a.path # <<"Linux", "Other">>
         /\ \A x : a.path # <<"MacOs", x>>
         /\ \A x : a.path # <<"Linux", "Service", x>>
         /\ a.path = <<"Common", "Other">> =>
              Len(a.text) # 1 /\ a.text[1] \notin {"Unknown", "WebBrowsing"}
         /\ a.path = <<"Other">> => a.text[1] \notin Systems \cup {"Unknown"}
         /\ \A x, y, z : a.path = <<x, y, z>> =>
              ~(Len(a.text) = 1 /\ a.text[1] \in RegistryUnits \cup EventUnits \cup BrowsingUnits)
<1>1. \A x : <<"MacOs", x>>[1] = "MacOs"
  OBVIOUS
<1>2. \A x : IsPrefix(Service, <<"Linux", "Service", x>>)
  BY DEF IsPrefix, Service
<1>3. \A x, y, z : Len(<<x, y, z>>) = 3
  OBVIOUS
<1>4. \A x : a.path # <<"MacOs", x>>
  BY <1>1, Zenon DEF Misread
<1>5. \A x : a.path # <<"Linux", "Service", x>>
  BY <1>2, Zenon DEF Misread
<1>6. \A x, y, z : a.path = <<x, y, z>> =>
        ~(Len(a.text) = 1 /\ a.text[1] \in RegistryUnits \cup EventUnits \cup BrowsingUnits)
  BY <1>3, Zenon DEF Misread
<1> QED BY <1>4, <1>5, <1>6, Zenon DEF Misread

\* What is not among the exceptions is read as it was written.
LEMMA RoundTrip ==
  ASSUME NEW a, IsNamed(a), ~Misread(a)
  PROVE  artifact_from_str(Display(a)) = a
<1> DEFINE p == a.path
           t == a.text
<1>1. a = Is(p, t) /\ (t = <<>> => a = Plain(p))
  BY DEF IsNamed, Plain
<1>2. t # <<>> => IsText(t) /\ Len(t) \in Nat \ {0}
  BY PutTaken DEF IsNamed
<1>3. \A x : IsText(<<x>>) /\ Len(<<x>>) = 1 /\ <<x>>[1] = x /\ Rest(<<x>>) = <<"">>
  BY PutTaken, RestText
<1>4. ASSUME t = <<>>, p = <<"Unknown">> PROVE artifact_from_str(Display(a)) = a
  <2>1. a = Unknown
    BY <1>1, <1>4 DEF Unknown
  <2>2. Len(<<"Unknown">>) \in Nat
    BY <1>3
  <2> QED BY <1>3, <2>1, <2>2, UnitsShown, UnknownRead
<1>5. ASSUME t = <<>>, NEW r \in RegistryUnits, p = <<"Windows", "Registry", r>>
      PROVE  artifact_from_str(Display(a)) = a
  <2>1. r # "ShimCache"
    BY <1>5, WellRead
  <2>2. Display(a) = <<"Windows", "Registry", r>>
    BY <1>1, <1>5, <2>1, UnitsShown
  <2>3. Display(a) = Put("Windows", Put("Registry", <<r>>))
    BY <2>2, PutShort
  <2>4. IsText(Put("Registry", <<r>>))
    BY <1>3, PutTaken
  <2>5. artifact_from_str(Display(a)) = UnitOr(<<"Windows", "Registry">>, RegistryUnits, <<r>>)
    BY <1>3, <2>3, <2>4, ReadBySystem, ReadByGroup
  <2>6. UnitOr(<<"Windows", "Registry">>, RegistryUnits, <<r>>) =
          Plain(<<"Windows", "Registry", r>>)
    <3>1. IsText(<<r>>) /\ Len(<<r>>) = 1 /\ <<r>>[1] = r /\ r \in RegistryUnits
      BY <1>3
    <3>2. UnitOr(<<"Windows", "Registry">>, RegistryUnits, <<r>>) =
            Plain(<<"Windows", "Registry", <<r>>[1]>>)
      BY <3>1, UnitOrs, Zenon
    <3> QED BY <3>1, <3>2, Zenon
  <2> QED BY <1>1, <1>5, <2>5, <2>6, Zenon
<1>6. ASSUME t = <<>>, NEW e \in EventUnits, p = <<"Windows", "WinEvt", e>>
      PROVE  artifact_from_str(Display(a)) = a
  <2> DEFINE U == EventUnits \ {"Setup", "Application"}
  <2>1. e \in U
    BY <1>6, WellRead
  <2>2. Display(a) = <<"Windows", "WinEvt", e>>
    BY <1>1, <1>6, UnitsShown
  <2>3. Display(a) = Put("Windows", Put("WinEvt", <<e>>))
    BY <2>2, PutShort
  <2>4. IsText(Put("WinEvt", <<e>>))
    BY <1>3, PutTaken
  <2>5. artifact_from_str(Display(a)) = UnitOr(<<"Windows", "WinEvt">>, U, <<e>>)
    BY <1>3, <2>3, <2>4, ReadBySystem, ReadByGroup
  <2>6. UnitOr(<<"Windows", "WinEvt">>, U, <<e>>) = Plain(<<"Windows", "WinEvt", e>>)
    <3>1. IsText(<<e>>) /\ Len(<<e>>) = 1 /\ <<e>>[1] = e /\ e \in U
      BY <1>3, <2>1
    <3>2. UnitOr(<<"Windows", "WinEvt">>, U, <<e>>) = Plain(<<"Windows", "WinEvt", <<e>>[1]>>)
      BY <3>1, UnitOrs, Zenon
    <3> QED BY <3>1, <3>2, Zenon
  <2> QED BY <1>1, <1>6, <2>5, <2>6, Zenon
<1>7. ASSUME t = <<>>, NEW b \in BrowsingUnits, p = <<"Common", "WebBrowsing", b>>
      PROVE  artifact_from_str(Display(a)) = a
  <2>2. Display(a) = <<"Common", "WebBrowsing", b>>
    BY <1>1, <1>7, UnitsShown
  <2>3. Display(a) = Put("Common", Put("WebBrowsing", <<b>>))
    BY <2>2, PutShort
  <2>4. IsText(Put("WebBrowsing", <<b>>))
    BY <1>3, PutTaken
  <2>5. artifact_from_str(Display(a)) = UnitOr(<<"Common", "WebBrowsing">>, BrowsingUnits, <<b>>)
    BY <1>3, <2>3, <2>4, ReadBySystem, ReadByGroup
  <2>6. UnitOr(<<"Common", "WebBrowsing">>, BrowsingUnits, <<b>>) =
          Plain(<<"Common", "WebBrowsing", b>>)
    <3>1. IsText(<<b>>) /\ Len(<<b>>) = 1 /\ <<b>>[1] = b /\ b \in BrowsingUnits
      BY <1>3
    <3>2. UnitOr(<<"Common", "WebBrowsing">>, BrowsingUnits, <<b>>) =
            Plain(<<"Common", "WebBrowsing", <<b>>[1]>>)
      BY <3>1, UnitOrs, Zenon
    <3> QED BY <3>1, <3>2, Zenon
  <2> QED BY <1>1, <1>7, <2>5, <2>6, Zenon
<1>8. ASSUME t = <<>>, NEW w \in WindowsUnits, p = <<"Windows", w>>
      PROVE  artifact_from_str(Display(a)) = a
  <2>1. Display(a) = Put("Windows", <<w>>)
    BY <1>1, <1>8, OthersNamed
  <2>2. artifact_from_str(Display(a)) = Plain(<<"Windows", w>>)
    BY <1>3, <1>8, <2>1, ReadBySystem, WindowsRead
  <2> QED BY <1>1, <1>8, <2>2, Zenon
<1>9. ASSUME t = <<>>, p = <<"Common", "Unknown">> PROVE artifact_from_str(Display(a)) = a
  <2>1. Display(a) = Put("Common", <<"Unknown">>)
    BY <1>1, <1>9, OthersNamed
  <2>2. Len(<<"Unknown">>) \in Nat
    BY <1>3
  <2>3. artifact_from_str(Display(a)) = Plain(<<"Common", "Unknown">>)
    BY <1>3, <2>1, <2>2, ReadBySystem, CommonRead
  <2> QED BY <1>1, <1>9, <2>3, Zenon
<1>10. ASSUME IsText(t), p = <<"Windows", "Registry", "Other">>
       PROVE  artifact_from_str(Display(a)) = a
  <2>1. ~(Len(t) = 1 /\ t[1] \in RegistryUnits)
    BY <1>10, WellRead
  <2>2. UnitOr(<<"Windows", "Registry">>, RegistryUnits, t) = a
    <3>1. UnitOr(<<"Windows", "Registry">>, RegistryUnits, t) =
            Is(<<"Windows", "Registry", "Other">>, t)
      BY <1>10, <2>1, UnitOrs, ZenonT(60)
    <3> QED BY <1>1, <1>10, <3>1, Zenon
  <2>3. t # <<"ShimCache">>
    BY <1>3, <2>1 DEF RegistryUnits
  <2>4. Display(a) = Put("Windows", Put("Registry", t))
    BY <1>10, <2>2, <2>3, UnitOrNamed
  <2>5. IsText(Put("Registry", t))
    BY <1>10, PutTaken
  <2> QED BY <1>10, <2>2, <2>4, <2>5, ReadBySystem, ReadByGroup
<1>11. ASSUME IsText(t), p = <<"Windows", "WinEvt", "Other">>
       PROVE  artifact_from_str(Display(a)) = a
  <2> DEFINE U == EventUnits \ {"Setup", "Application"}
  <2>1. ~(Len(t) = 1 /\ t[1] \in U)
    BY <1>11, WellRead
  <2> HIDE DEF U
  <2>2. UnitOr(<<"Windows", "WinEvt">>, U, t) = a
    <3>1. UnitOr(<<"Windows", "WinEvt">>, U, t) = Is(<<"Windows", "WinEvt", "Other">>, t)
      BY <1>11, <2>1, UnitOrs, ZenonT(60)
    <3> QED BY <1>1, <1>11, <3>1, Zenon
  <2>3. Display(a) = Put("Windows", Put("WinEvt", t))
    BY <1>11, <2>2, UnitOrNamed DEF U
  <2>4. IsText(Put("WinEvt", t))
    BY <1>11, PutTaken
  <2> QED BY <1>11, <2>2, <2>3, <2>4, ReadBySystem, ReadByGroup DEF U
<1>12. ASSUME IsText(t), p = <<"Common", "WebBrowsing", "Other">>
       PROVE  artifact_from_str(Display(a)) = a
  <2>1. ~(Len(t) = 1 /\ t[1] \in BrowsingUnits)
    BY <1>12, WellRead
  <2>2. UnitOr(<<"Common", "WebBrowsing">>, BrowsingUnits, t) = a
    <3>1. UnitOr(<<"Common", "WebBrowsing">>, BrowsingUnits, t) =
            Is(<<"Common", "WebBrowsing", "Other">>, t)
      BY <1>12, <2>1, UnitOrs, ZenonT(60)
    <3> QED BY <1>1, <1>12, <3>1, Zenon
  <2>3. Display(a) = Put("Common", Put("WebBrowsing", t))
    BY <1>12, <2>2, UnitOrNamed
  <2>4. IsText(Put("WebBrowsing", t))
    BY <1>12, PutTaken
  <2> QED BY <1>12, <2>2, <2>3, <2>4, ReadBySystem, ReadByGroup
<1>13. ASSUME IsText(t), p = <<"Common", "Other">> PROVE artifact_from_str(Display(a)) = a
  <2>1. Len(t) # 1 /\ t[1] \notin {"Unknown", "WebBrowsing"}
    BY <1>13, WellRead
  <2>2. Len(t) \in Nat \ {0}
    BY <1>13, PutTaken
  <2>3. \A k \in Nat \ {0} : k # 1 => k > 1
    OBVIOUS
  <2>4. Len(t) > 1 /\ Len(t) \in Nat
    BY <2>1, <2>2, <2>3, Zenon
  <2>5. Display(a) = Put("Common", t)
    BY <1>1, <1>13, OthersNamed
  <2>6. artifact_from_str(Display(a)) = common_artifact_from_str(t)
    BY <1>13, <2>5, ReadBySystem
  <2>7. common_artifact_from_str(t) = Is(<<"Common", "Other">>, t)
    BY <2>1, <2>4, CommonRead
  <2> QED BY <1>1, <1>13, <2>6, <2>7, Zenon
<1>14. ASSUME IsText(t), NEW l \in LogKinds, p = <<"Linux", l>>
       PROVE  artifact_from_str(Display(a)) = a
  <2>1. Display(a) = Put("Linux", Put(l, t))
    BY <1>1, <1>14, OthersNamed
  <2>2. IsText(Put(l, t))
    BY <1>14, PutTaken
  <2> QED BY <1>1, <1>14, <2>1, <2>2, ReadBySystem, ReadByGroup
<1>15. ASSUME IsText(t), p = <<"Other">>, Len(t) > 1 PROVE artifact_from_str(Display(a)) = a
  <2>1. t[1] \notin Systems \cup {"Unknown"}
    BY <1>15, WellRead
  <2>2. Display(a) = t
    BY <1>1, <1>15, OthersNamed
  <2>3. IsText(Rest(t)) /\ t = Put(t[1], Rest(t))
    BY <1>15, PutTaken
  <2>4. artifact_from_str(Put(t[1], Rest(t))) = Is(<<"Other">>, Put(t[1], Rest(t)))
    BY <2>1, <2>3, ReadBySystem
  <2> QED BY <1>1, <1>15, <2>2, <2>3, <2>4, Zenon
<1>16. CASE t = <<>>
  <2>1. \/ p = <<"Unknown">>
        \/ \E r \in RegistryUnits : p = <<"Windows", "Registry", r>>
        \/ \E e \in EventUnits : p = <<"Windows", "WinEvt", e>>
        \/ \E w \in WindowsUnits : p = <<"Windows", w>>
        \/ \E s \in ServiceUnits : p = <<"Linux", "Service", s>>
        \/ \E b \in BrowsingUnits : p = <<"Common", "WebBrowsing", b>>
        \/ \E s \in Systems : p = <<s, "Unknown">>
    BY <1>16, Zenon DEF IsNamed, IsArtifact
  <2>2. ~ \E s \in ServiceUnits : p = <<"Linux", "Service", s>>
    BY WellRead
  <2>3. ASSUME NEW s \in Systems, p = <<s, "Unknown">> PROVE artifact_from_str(Display(a)) = a
    <3>1. s \in {"Windows", "Common"}
      BY <2>3, WellRead DEF Systems
    <3>2. "Unknown" \in WindowsUnits
      BY DEF WindowsUnits
    <3> QED BY <1>8, <1>9, <1>16, <2>3, <3>1, <3>2
  <2> QED BY <1>4, <1>5, <1>6, <1>7, <1>8, <1>16, <2>1, <2>2, <2>3, Zenon
<1>17. CASE t # <<>>
  <2>1. \/ \E q \in Others : p = Append(q, "Other")
        \/ \E l \in LogKinds : p = <<"Linux", l>>
        \/ p = <<"Other">> /\ Len(t) > 1
    BY <1>17, Zenon DEF IsNamed, IsArtifact
  <2>2. ASSUME NEW q \in Others, p = Append(q, "Other") PROVE artifact_from_str(Display(a)) = a
    <3>1. \/ p = <<"Windows", "Registry", "Other">> \/ p = <<"Windows", "WinEvt", "Other">>
          \/ p = <<"Windows", "Other">> \/ p = <<"Linux", "Service", "Other">>
          \/ p = <<"Linux", "Other">> \/ p = <<"MacOs", "Other">>
          \/ p = <<"Common", "WebBrowsing", "Other">> \/ p = <<"Common", "Other">>
      <4>1. \A x : Append(<<x>>, "Other") = <<x, "Other">>
        BY Joined
      <4>2. \A x, y : Append(<<x, y>>, "Other") = <<x, y, "Other">>
        BY Joined
      <4> QED BY <2>2, <4>1, <4>2, Zenon DEF Others
    <3>2. /\ p # <<"Windows", "Other">> /\ p # <<"Linux", "Service", "Other">>
          /\ p # <<"Linux", "Other">> /\ p # <<"MacOs", "Other">>
      BY WellRead
    <3> QED BY <1>2, <1>17, <1>10, <1>11, <1>12, <1>13, <3>1, <3>2, Zenon
  <2> QED BY <1>2, <1>17, <1>14, <1>15, <2>1, <2>2, Zenon
<1> QED BY <1>16, <1>17
-----------------------------------------------------------------------------
\* How far a name is from one that stays: it grows, it stays, or each reading takes
\* a segment of the text it was given.
Approach(a, n, h, bound) ==
  /\ IsText(n)
  /\ \/ IsPrefix(Service, a.path) /\ Growing(n)
     \/ Renamed(n) = n
     \/ Renamed(Renamed(n)) = Renamed(n) /\ h <= bound
     \/ h + Len(n) <= bound + 1

\* So it is with the name an artifact is given first.
LEMMA FirstName ==
  ASSUME NEW a, IsNamed(a)
  PROVE  Approach(a, Display(a), 0, Len(a.text))
<1> DEFINE p == a.path
           t == a.text
           n == Display(a)
           Right == Approach(a, n, 0, Len(t))
<1>1. a = Is(p, t) /\ (t = <<>> => a = Plain(p))
  BY DEF IsNamed, Plain
<1>2. t # <<>> => IsText(t)
  BY DEF IsNamed
<1>3. \A x, y : /\ IsText(<<x>>)
                /\ IsText(y) => /\ IsText(Put(x, y)) /\ Len(Put(x, y)) = Len(y) + 1
                                /\ Len(y) \in Nat \ {0}
  BY PutTaken
<1>4. IsText(n) /\ Renamed(n) = n => Right
  BY Zenon DEF Approach
<1>5. IsText(n) /\ Len(n) <= Len(t) + 1 /\ Len(n) \in Nat => Right
  <2>1. Len(n) \in Nat => 0 + Len(n) = Len(n)
    OBVIOUS
  <2> QED BY <2>1, Zenon DEF Approach
<1>6. IsText(n) /\ IsPrefix(Service, p) /\ Growing(n) => Right
  BY Zenon DEF Approach
<1> SUFFICES Right
  OBVIOUS
<1> HIDE DEF Right
<1>7. ASSUME t = <<>>, p = <<"Unknown">> PROVE Right
  <2>1. a = Unknown
    BY <1>1, <1>7, Zenon DEF Unknown
  <2>2. n = <<"Unknown">>
    BY <2>1, UnitsShown, Zenon
  <2> QED BY <2>2, <1>3, <1>4, Steady, Zenon
<1>8. ASSUME t = <<>>, NEW r \in RegistryUnits, p = <<"Windows", "Registry", r>> PROVE Right
  <2> DEFINE x == IF r = "ShimCache" THEN "InitD" ELSE r
  <2>1. Display(Plain(p)) = <<"Windows", "Registry", x>>
    BY <1>8, UnitsShown
  <2>2. <<x>> # <<"ShimCache">>
    OBVIOUS
  <2> HIDE DEF x
  <2>3. n = Put("Windows", Put("Registry", <<x>>))
    BY <1>1, <1>8, <2>1, PutShort, Zenon
  <2>4. Renamed(n) = n
    BY <1>3, <2>2, <2>3, Steady, Zenon
  <2>5. IsText(n)
    BY <1>3, <2>3, Zenon
  <2> QED BY <1>4, <2>4, <2>5
<1>9. ASSUME t = <<>>, NEW e \in EventUnits, p = <<"Windows", "WinEvt", e>> PROVE Right
  <2>1. Display(Plain(p)) = <<"Windows", "WinEvt", e>>
    BY <1>9, UnitsShown
  <2>2. n = Put("Windows", Put("WinEvt", <<e>>))
    BY <1>1, <1>9, <2>1, PutShort, Zenon
  <2>3. Renamed(n) = n
    BY <1>3, <2>2, Steady, Zenon
  <2>4. IsText(n)
    BY <1>3, <2>2, Zenon
  <2> QED BY <1>4, <2>3, <2>4
<1>10. ASSUME t = <<>>, NEW w \in WindowsUnits, p = <<"Windows", w>> PROVE Right
  <2>1. n = Put("Windows", <<w>>)
    BY <1>1, <1>10, OthersNamed
  <2>2. Renamed(n) = n
    BY <1>10, <2>1, Steady, Zenon
  <2>3. IsText(n)
    BY <1>3, <2>1, Zenon
  <2> QED BY <1>4, <2>2, <2>3
<1>11. ASSUME t = <<>>, NEW s \in ServiceUnits, p = <<"Linux", "Service", s>> PROVE Right
  <2> DEFINE q == <<"Linux", "Service", s>>
             N == {"Linux", "Service", s}
  <2>1. Shown(q) = q
    BY ShownPaths
  <2>2. Last(q) # "Other"
    BY TupleEnds DEF ServiceUnits
  <2>3. q \in Seq(N)
    OBVIOUS
  <2>4. Display(Plain(q)) = q
    <3> HIDE DEF q, N
    <3> QED BY <2>1, <2>2, <2>3, UnitShown
  <2>5. n = Put("Linux", Put("Service", <<s>>))
    BY <1>1, <1>11, <2>4, PutShort, Zenon
  <2>6. IsText(n) /\ Growing(n)
    BY <1>3, <2>5, Zenon DEF Growing
  <2>7. IsPrefix(Service, q)
    BY DEF IsPrefix, Service
  <2> QED BY <1>6, <1>11, <2>6, <2>7, Zenon
<1>12. ASSUME t = <<>>, NEW b \in BrowsingUnits, p = <<"Common", "WebBrowsing", b>> PROVE Right
  <2>1. Display(Plain(p)) = <<"Common", "WebBrowsing", b>>
    BY <1>12, UnitsShown
  <2>2. n = Put("Common", Put("WebBrowsing", <<b>>))
    BY <1>1, <1>12, <2>1, PutShort, Zenon
  <2>3. Renamed(n) = n
    BY <1>3, <2>2, Steady, Zenon
  <2>4. IsText(n)
    BY <1>3, <2>2, Zenon
  <2> QED BY <1>4, <2>3, <2>4
<1>13. ASSUME t = <<>>, NEW s \in Systems, p = <<s, "Unknown">> PROVE Right
  <2>1. "Unknown" \in WindowsUnits
    BY DEF WindowsUnits
  <2>2. CASE s = "Windows"
    BY <1>10, <1>13, <2>1, <2>2
  <2>3. CASE s = "Linux"
    <3>1. n = Put("Linux", Put("Log", <<"Unknown">>))
      BY <1>1, <1>13, <2>3, OthersNamed
    <3>2. "Log" \in LogKinds
      BY DEF LogKinds
    <3>3. Renamed(n) = n
      BY <1>3, <3>1, <3>2, Steady, ZenonT(60)
    <3>4. IsText(n)
      BY <1>3, <3>1, Zenon
    <3> QED BY <1>4, <3>3, <3>4
  <2>4. CASE s = "MacOs"
    <3>1. n = <<"Mac", "Unknown">>
      BY <1>1, <1>13, <2>4, UnitsShown
    <3>2. n = Put("Mac", <<"Unknown">>)
      BY <3>1, PutShort
    <3>3. "Mac" \notin Systems \cup {"Unknown"}
      BY DEF Systems
    <3>4. Renamed(n) = n
      <4>1. Renamed(Put("Mac", <<"Unknown">>)) = Put("Mac", <<"Unknown">>)
        BY <1>3, <3>3, Steady
      <4> QED BY <3>2, <4>1, Zenon
    <3>5. IsText(n)
      BY <1>3, <3>2, Zenon
    <3> QED BY <1>4, <3>4, <3>5
  <2>5. CASE s = "Common"
    <3>1. n = Put("Common", <<"Unknown">>)
      BY <1>1, <1>13, <2>5, OthersNamed
    <3>2. Renamed(n) = n
      BY <3>1, Steady, Zenon
    <3>3. IsText(n)
      BY <1>3, <3>1, Zenon
    <3> QED BY <1>4, <3>2, <3>3
  <2> QED BY <1>13, <2>2, <2>3, <2>4, <2>5 DEF Systems
<1>14. ASSUME IsText(t), NEW x, n = Put(x, t) PROVE Right
  <2>1. IsText(n) /\ Len(n) = Len(t) + 1 /\ Len(t) \in Nat
    BY <1>3, <1>14
  <2>2. \A k \in Nat : k + 1 \in Nat /\ k + 1 <= k + 1
    OBVIOUS
  <2> QED BY <1>5, <2>1, <2>2, Zenon
<1>15. ASSUME IsText(t), p = <<"Linux", "Service", "Other">> PROVE Right
  <2>1. PICK S : t \in Seq(S)
    BY <1>15 DEF IsText
  <2>2. /\ Last(Shown(<<"Linux", "Service", "Other">>)) = "Other"
        /\ Front(Shown(<<"Linux", "Service", "Other">>)) = <<"Linux", "Service">>
    BY ShownPaths, TupleEnds
  <2>3. n = <<"Linux", "Service">> \o t
    BY <1>1, <1>15, <2>2, OtherShown
  <2>4. n = Put("Linux", Put("Service", t))
    BY <1>15, <2>3, PutShort
  <2>5. IsText(n) /\ Growing(n)
    BY <1>3, <1>15, <2>4, Zenon DEF Growing
  <2>6. IsPrefix(Service, <<"Linux", "Service", "Other">>)
    BY DEF IsPrefix, Service
  <2> QED BY <1>6, <1>15, <2>5, <2>6, Zenon
<1>16. ASSUME IsText(t), p = <<"Windows", "Registry", "Other">> PROVE Right
  <2>1. PICK S : t \in Seq(S)
    BY <1>16 DEF IsText
  <2>2. n = <<"Windows", "Registry">> \o t
    BY <1>1, <1>16, <2>1, TextsShown, ZenonT(60)
  <2>3. n = Put("Windows", Put("Registry", t))
    BY <1>16, <2>2, PutShort
  <2>4. IsText(n)
    BY <1>3, <1>16, <2>3, Zenon
  <2>5. CASE t # <<"ShimCache">>
    <3>1. Renamed(n) = n
      BY <1>16, <2>3, <2>5, Steady, Zenon
    <3> QED BY <1>4, <2>4, <3>1
  <2>6. CASE t = <<"ShimCache">>
    <3> DEFINE w == <<"InitD">>
    <3>1. IsText(w) /\ w # <<"ShimCache">> /\ IsText(Put("Registry", t))
      BY <1>3, <2>6
    <3>2. Renamed(n) = Put("Windows", Put("Registry", w))
      <4>1. artifact_from_str(n) = UnitOr(<<"Windows", "Registry">>, RegistryUnits, t)
        BY <1>16, <2>3, <3>1, ReadBySystem, ReadByGroup
      <4> QED BY <1>16, <2>6, <4>1, UnitOrNamed DEF Renamed
    <3> HIDE DEF w
    <3>3. Renamed(Renamed(n)) = Renamed(n)
      BY <3>1, <3>2, Steady, Zenon
    <3>4. 0 <= Len(t)
      BY <1>3, <1>16
    <3> QED BY <2>4, <3>3, <3>4, Zenon DEF Approach, Right
  <2> QED BY <2>5, <2>6
<1>17. ASSUME IsText(t), p = <<"Windows", "WinEvt", "Other">> PROVE Right
  <2>1. PICK S : t \in Seq(S)
    BY <1>17 DEF IsText
  <2>2. n = <<"Windows", "WinEvt">> \o t
    BY <1>1, <1>17, <2>1, TextsShown, ZenonT(60)
  <2>3. n = Put("Windows", Put("WinEvt", t))
    BY <1>17, <2>2, PutShort
  <2>4. IsText(n)
    BY <1>3, <1>17, <2>3, Zenon
  <2>5. Renamed(n) = n
    BY <1>17, <2>3, Steady, Zenon
  <2> QED BY <1>4, <2>4, <2>5
<1>18. ASSUME IsText(t), p = <<"Common", "WebBrowsing", "Other">> PROVE Right
  <2>1. PICK S : t \in Seq(S)
    BY <1>18 DEF IsText
  <2>2. n = <<"Common", "WebBrowsing">> \o t
    BY <1>1, <1>18, <2>1, TextsShown, ZenonT(60)
  <2>3. n = Put("Common", Put("WebBrowsing", t))
    BY <1>18, <2>2, PutShort
  <2>4. IsText(n)
    BY <1>3, <1>18, <2>3, Zenon
  <2>5. Renamed(n) = n
    BY <1>18, <2>3, Steady, Zenon
  <2> QED BY <1>4, <2>4, <2>5
<1>19. ASSUME IsText(t), p = <<"MacOs", "Other">> PROVE Right
  <2>1. PICK S : t \in Seq(S)
    BY <1>19 DEF IsText
  <2>2. n = Put("Mac", t)
    BY <1>1, <1>19, <2>1, TextsShown, ZenonT(60) DEF Put
  <2> QED BY <1>14, <1>19, <2>2
<1>20. ASSUME IsText(t), NEW l \in LogKinds, p = <<"Linux", l>> PROVE Right
  <2>1. n = Put("Linux", Put(l, t))
    BY <1>1, <1>20, OthersNamed
  <2>2. IsText(n)
    BY <1>3, <1>20, <2>1, Zenon
  <2>3. Renamed(n) = n
    <3>1. Renamed(Put("Linux", Put(l, t))) = Put("Linux", Put(l, t))
      BY <1>20, Steady
    <3> QED BY <2>1, <3>1, Zenon
  <2> QED BY <1>4, <2>2, <2>3
<1>21. ASSUME IsText(t), p = <<"Other">> PROVE Right
  <2>1. n = t
    BY <1>1, <1>21, OthersNamed
  <2>2. Len(t) \in Nat
    BY <1>3, <1>21
  <2>3. \A k \in Nat : k <= k + 1
    OBVIOUS
  <2> QED BY <1>5, <1>21, <2>1, <2>2, <2>3, Zenon
<1>22. ASSUME IsText(t), p \in {<<"Windows", "Other">>, <<"Linux", "Other">>, <<"Common", "Other">>}
       PROVE  Right
  <2>1. \E x : n = Put(x, t)
    <3>1. CASE p = <<"Windows", "Other">>
      <4>1. n = Put("Windows", t)
        BY <1>1, <1>22, <3>1, OthersNamed
      <4> QED BY <4>1
    <3>2. CASE p = <<"Linux", "Other">>
      <4>1. n = Put("Linux", t)
        BY <1>1, <1>22, <3>2, OthersNamed
      <4> QED BY <4>1
    <3>3. CASE p = <<"Common", "Other">>
      <4>1. n = Put("Common", t)
        BY <1>1, <1>22, <3>3, OthersNamed
      <4> QED BY <4>1
    <3> QED BY <1>22, <3>1, <3>2, <3>3, Zenon
  <2> QED BY <1>14, <1>22, <2>1
<1>23. CASE t = <<>>
  BY <1>7, <1>8, <1>9, <1>10, <1>11, <1>12, <1>13, <1>23, Zenon DEF IsNamed, IsArtifact
<1>24. CASE t # <<>>
  <2>1. \/ \E q \in Others : p = Append(q, "Other")
        \/ \E l \in LogKinds : p = <<"Linux", l>>
        \/ p = <<"Other">>
    BY <1>24, Zenon DEF IsNamed, IsArtifact
  <2>2. ASSUME NEW q \in Others, p = Append(q, "Other") PROVE Right
    <3>1. \A x : Append(<<x>>, "Other") = <<x, "Other">>
      BY Joined
    <3>2. \A x, y : Append(<<x, y>>, "Other") = <<x, y, "Other">>
      BY Joined
    <3>3. \/ p = <<"Windows", "Registry", "Other">> \/ p = <<"Windows", "WinEvt", "Other">>
          \/ p = <<"Windows", "Other">> \/ p = <<"Linux", "Service", "Other">>
          \/ p = <<"Linux", "Other">> \/ p = <<"MacOs", "Other">>
          \/ p = <<"Common", "WebBrowsing", "Other">> \/ p = <<"Common", "Other">>
      BY <2>2, <3>1, <3>2, Zenon DEF Others
    <3> QED BY <1>2, <1>24, <1>15, <1>16, <1>17, <1>18, <1>19, <1>22, <3>3, Zenon
  <2> QED BY <1>2, <1>24, <1>20, <1>21, <2>1, <2>2, Zenon
<1> QED BY <1>23, <1>24
-----------------------------------------------------------------------------
\* What tools set is named by the model's records.
LEMMA GivenNamed == \A a \in Given : IsNamed(a)
BY NamesAssumption DEF IsNamed, IsText

\* What is not among the exceptions is what it was and has the name it had.
KeptInv == /\ origin \in Given
           /\ \/ Misread(origin)
              \/ artifact = origin /\ name = Display(origin)

\* However many tools read the name of a record and name it anew, with any texts, the
\* artifact is the one that was set, but for those Misread lists.
THEOREM AlwaysReadAsWritten == NamesSpec => []ReadAsWritten
<1>1. NamesInit => KeptInv
  BY DEF NamesInit, KeptInv
<1>2. KeptInv /\ [NamesNext]_namesVars => KeptInv'
  <2> SUFFICES ASSUME KeptInv, [NamesNext]_namesVars PROVE KeptInv'
    OBVIOUS
  <2>1. CASE UNCHANGED namesVars
    BY <2>1 DEF KeptInv, namesVars
  <2>2. CASE NextTool
    <3>1. origin' = origin /\ artifact' = artifact_from_str(name) /\ name' = Display(artifact')
      BY <2>2 DEF NextTool
    <3>2. ASSUME ~Misread(origin) PROVE artifact' = origin /\ name' = Display(origin)
      <4>1. artifact_from_str(Display(origin)) = origin
        BY <3>2, GivenNamed, RoundTrip DEF KeptInv
      <4> QED BY <3>1, <3>2, <4>1 DEF KeptInv
    <3>3. CASE Misread(origin)
      BY <3>1, <3>3 DEF KeptInv
    <3>4. CASE ~Misread(origin)
      <4>1. artifact' = origin' /\ name' = Display(origin') /\ origin' \in Given
        BY <3>1, <3>2, <3>4 DEF KeptInv
      <4> QED BY <4>1 DEF KeptInv
    <3> QED BY <3>3, <3>4
  <2> QED BY <2>1, <2>2 DEF NamesNext
<1>3. KeptInv => ReadAsWritten
  BY DEF KeptInv, ReadAsWritten
<1> QED BY <1>1, <1>2, <1>3, PTL DEF NamesSpec

\* A name grows, stays, or has lost a segment per tool.
SettleInv == /\ origin \in Given /\ hops \in Nat
             /\ Approach(artifact, name, hops, Len(origin.text))

\* Reading and naming once more leads nearer to a name that stays.
LEMMA Nearer ==
  ASSUME NEW a, NEW n, NEW h \in Nat, NEW bound \in Nat, Approach(a, n, h, bound)
  PROVE  Approach(artifact_from_str(n), Renamed(n), h + 1, bound)
<1> DEFINE m == Renamed(n)
<1>1. IsText(n)
  BY DEF Approach
<1>2. IsText(m) /\ (\/ IsPrefix(Service, artifact_from_str(n).path) /\ Growing(m)
                    \/ Renamed(m) = m \/ Len(m) < Len(n))
  BY <1>1, Fate, Zenon
<1>3. Len(n) \in Nat /\ Len(m) \in Nat
  BY <1>1, <1>2, PutTaken
<1>4. \A i, j \in Nat : i < j /\ h + j <= bound + 1 => (h + 1) + i <= bound + 1
  OBVIOUS
<1>5. CASE IsPrefix(Service, a.path) /\ Growing(n)
  <2>1. IsPrefix(Service, <<"Linux", "Service", "Other">>)
    BY DEF IsPrefix, Service
  <2>2. IsPrefix(Service, artifact_from_str(n).path) /\ IsText(m) /\ Growing(m)
    BY <1>5, <2>1, GrowsOn, Zenon
  <2> QED BY <2>2, Zenon DEF Approach
<1>6. CASE Renamed(n) = n
  <2>1. IsText(m) /\ Renamed(m) = m
    BY <1>1, <1>6
  <2> QED BY <2>1, Zenon DEF Approach
<1>8. CASE Renamed(Renamed(n)) = Renamed(n) /\ h <= bound
  BY <1>2, <1>8, Zenon DEF Approach
<1>7. CASE h + Len(n) <= bound + 1
  BY <1>2, <1>3, <1>4, <1>7, Zenon DEF Approach
<1> QED BY <1>5, <1>6, <1>7, <1>8, Zenon DEF Approach

\* The name of a record settles after as many tools as its text has segments, for
\* texts of any length, unless it is that of a Linux service.
THEOREM NamesAlwaysSettle == NamesSpec => NamesSettle
<1>0. \A a \in Given : Len(a.text) \in Nat
  BY NamesAssumption
<1>1. NamesInit => SettleInv
  BY GivenNamed, FirstName DEF NamesInit, SettleInv
<1>2. SettleInv /\ [NamesNext]_namesVars => SettleInv'
  <2> SUFFICES ASSUME SettleInv, [NamesNext]_namesVars PROVE SettleInv'
    OBVIOUS
  <2>1. CASE UNCHANGED namesVars
    BY <2>1 DEF SettleInv, namesVars
  <2>2. CASE NextTool
    <3>1. /\ origin' = origin /\ artifact' = artifact_from_str(name)
          /\ name' = Renamed(name) /\ hops' = hops + 1
      BY <2>2 DEF NextTool, Renamed
    <3>2. Approach(artifact', name', hops + 1, Len(origin.text))
      BY <1>0, <3>1, Nearer DEF SettleInv
    <3> QED BY <3>1, <3>2 DEF SettleInv
  <2> QED BY <2>1, <2>2 DEF NamesNext
<1>3. SettleInv /\ [NamesNext]_namesVars =>
        [IsPrefix(Service, artifact.path) \/ hops <= Len(origin.text) \/ name' = name]_namesVars
  <2> SUFFICES ASSUME SettleInv, NextTool, ~(hops <= Len(origin.text)),
                      ~IsPrefix(Service, artifact.path)
               PROVE  name' = name
    BY DEF NamesNext
  <2>1. name' = Renamed(name)
    BY DEF NextTool, Renamed
  <2>2. IsText(name) /\ Len(origin.text) \in Nat /\ hops \in Nat
    BY <1>0 DEF SettleInv, Approach
  <2>3. Len(name) \in Nat \ {0}
    BY <2>2, PutTaken
  <2>4. \A i \in Nat \ {0}, j, k \in Nat : ~(j <= k) => ~(j + i <= k + 1)
    OBVIOUS
  <2>5. ~(hops + Len(name) <= Len(origin.text) + 1)
    BY <2>2, <2>3, <2>4, Zenon
  <2> QED BY <2>1, <2>5, Zenon DEF SettleInv, Approach
<1> QED BY <1>1, <1>2, <1>3, PTL DEF NamesSpec, NamesSettle
=============================================================================
