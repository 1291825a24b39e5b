----------------------------- MODULE ForensicData -----------------------------
(***************************************************************************)
(* src/data.rs with src/context.rs and src/field: a ForensicData is an     *)
(* artifact and a map of named fields; each field keeps its original value *)
(* and, per type it was asked for, the cast of it.  A cast is computed     *)
(* once and cached; field_mut and iter_mut hand out the original alone.    *)
(* ForensicData travels between tools as the JSON of serde.                *)
(***************************************************************************)
EXTENDS Integers, Sequences

CONSTANTS
  Thread,        \* each has a FORENSIC_CONTEXT of its own
  Object,        \* the ForensicData values a program has at a time
  Name,          \* names of fields
  HOST, TENANT, NAME,   \* artifact.host, artifact.tenant and artifact.name
  Text, Empty,   \* what a string may say; the empty string
  Artifact, UnknownArtifact,
  Ip, NoIp,
  Bits,          \* width of u64 and i64
  NaN, PosInf, NegInf,  \* the f64 that are no numbers
  ArtifactName,  \* Artifact's Display
  ArtifactIn,    \* artifact_from_str
  IpText, IpIn,  \* Ip's Display; Ip::from_ip_str, NoIp for an error
  NumberText,    \* to_string of a number
  DateText,      \* to_string of the Filetime with these ticks
  Inputs,        \* the fields callers write, with their names
  Asked,         \* the casts callers ask for, with the names of their fields
  Contexts,      \* the contexts an analysis may be in
  MaxWrites      \* bound of the model: inserts and changes through field_mut

U64 == 0 .. 2^Bits - 1
I64 == -(2^(Bits - 1)) .. 2^(Bits - 1) - 1
NotFinite == {NaN, PosInf, NegInf}
\* Without fractions; `as f64` taken to be exact.
Finite == -(2^Bits) .. 2^Bits
F64 == Finite \cup NotFinite

Strings == {"Text", "Domain", "User", "AssetID", "Path"}
IsField(f) ==
  CASE f.is = "Null" -> f = [is |-> "Null"]
    [] f.is \in Strings -> f = [is |-> f.is, val |-> f.val] /\ f.val \in Text
    [] f.is = "Ip" -> f = [is |-> f.is, val |-> f.val] /\ f.val \in Ip
    [] f.is \in {"U64", "Date"} -> f = [is |-> f.is, val |-> f.val] /\ f.val \in U64
    [] f.is = "I64" -> f = [is |-> f.is, val |-> f.val] /\ f.val \in I64
    [] f.is = "F64" -> f = [is |-> f.is, val |-> f.val] /\ f.val \in F64
    [] f.is = "Array" -> f = [is |-> f.is, val |-> f.val] /\ f.val \in Seq(Text)
    [] OTHER -> FALSE

CacheKind == {"i64", "u64", "f64", "ip", "text", "array"}

ASSUME DataAssumption ==
  /\ {HOST, TENANT, NAME} \subseteq Name /\ NAME \notin {HOST, TENANT} /\ HOST # TENANT
  /\ Empty \in Text /\ UnknownArtifact \in Artifact
  /\ NotFinite \cap Finite = {} /\ NaN \notin {PosInf, NegInf} /\ PosInf # NegInf
  /\ Bits \in Nat \ {0} /\ NoIp \notin Ip /\ MaxWrites \in Nat
  /\ \A i \in Inputs : i[1] \in Name /\ IsField(i[2])
  /\ Asked \subseteq Name \X CacheKind
  /\ Contexts \subseteq [host : Text, artifact : Artifact, tenant : Text]
  /\ ArtifactName \in [Artifact -> Text] /\ ArtifactIn \in [Text -> Artifact]
  /\ IpText \in [Ip -> Text] /\ IpIn \in [Text -> Ip \cup {NoIp}]
  /\ NumberText \in [F64 -> Text] /\ DateText \in [U64 -> Text]
-----------------------------------------------------------------------------
\* PreStoredField: not asked for yet, has no such cast, or the cast.
Nothing == [is |-> "None"]
Invalid == [is |-> "Invalid"]
Some(v) == [is |-> "Some", val |-> v]

\* Rust's `as`: floats saturate and NaN is zero, integers wrap.
Clamp(v, low, high) == CASE v = NaN -> 0
                         [] v = PosInf -> high
                         [] v = NegInf -> low
                         [] OTHER -> IF v < low THEN low ELSE IF v > high THEN high ELSE v
Signed(v) == IF v \in I64 THEN v ELSE v - 2^Bits

AsU64(f) == CASE f.is = "F64" -> Some(Clamp(f.val, 0, 2^Bits - 1))
              [] f.is = "I64" -> Some(f.val % 2^Bits)
              [] f.is \in {"U64", "Date"} -> Some(f.val)
              [] OTHER -> Invalid

AsI64(f) == CASE f.is = "F64" -> Some(Clamp(f.val, -(2^(Bits - 1)), 2^(Bits - 1) - 1))
              [] f.is = "I64" -> Some(f.val)
              [] f.is \in {"U64", "Date"} -> Some(Signed(f.val))
              [] OTHER -> Invalid

AsF64(f) == IF f.is \in {"F64", "I64", "U64", "Date"} THEN Some(f.val) ELSE Invalid

AsIp(f) == CASE f.is = "Ip" -> Some(f.val)
             [] f.is = "Text" /\ IpIn[f.val] # NoIp -> Some(IpIn[f.val])
             [] OTHER -> Invalid

AsText(f) == IF f.is \in {"Text", "Domain", "User", "AssetID"}
             THEN Some(f.val) ELSE Invalid

AsArray(f) == Some(CASE f.is = "Array" -> f.val
                     [] f.is \in {"I64", "U64", "F64"} -> <<NumberText[f.val]>>
                     [] f.is = "Date" -> <<DateText[f.val]>>
                     [] f.is = "Ip" -> <<IpText[f.val]>>
                     [] f.is = "Null" -> <<Empty>>
                     [] OTHER -> <<f.val>>)

Cast(kind, f) == CASE kind = "u64" -> AsU64(f) [] kind = "i64" -> AsI64(f)
                   [] kind = "f64" -> AsF64(f) [] kind = "ip" -> AsIp(f)
                   [] kind = "text" -> AsText(f) [] kind = "array" -> AsArray(f)

\* Into<InternalField>: the cast of a number or an Ip to its own type is known.
OwnKind(f) == CASE f.is = "F64" -> "f64" [] f.is = "I64" -> "i64"
                [] f.is = "U64" -> "u64" [] f.is = "Ip" -> "ip" [] OTHER -> "none"

Store_BothWidths(f) ==
  [original |-> f,
   cache |-> [k \in CacheKind |-> IF k = OwnKind(f) \/ (k = "i64" /\ f.is = "U64")
                                  THEN Some(f.val) ELSE Nothing]]
Store(f) ==
  [original |-> f,
   cache |-> [k \in CacheKind |-> IF k = OwnKind(f) THEN Some(f.val) ELSE Nothing]]

\* What a field is in JSON, which has no NaN and no infinities, and what a JSON
\* value is read as; the text of a finite float is taken to be read as it.
Json(f) == CASE f.is = "Null" \/ (f.is = "F64" /\ f.val \in NotFinite) -> [is |-> "null"]
             [] f.is \in {"U64", "I64"} -> [is |-> "integer", val |-> f.val]
             [] f.is = "F64" /\ f.val \in Finite -> [is |-> "float", val |-> f.val]
             [] f.is = "Array" -> [is |-> "array", val |-> f.val]
             [] f.is = "Ip" -> [is |-> "string", val |-> IpText[f.val]]
             [] f.is = "Date" -> [is |-> "string", val |-> DateText[f.val]]
             [] OTHER -> [is |-> "string", val |-> f.val]

FromJson_Unsigned(j) ==
  CASE j.is = "null" -> [is |-> "Null"]
    [] j.is = "integer" -> [is |-> "U64", val |-> j.val % 2^Bits]
    [] j.is = "float" -> [is |-> "F64", val |-> j.val]
    [] j.is = "array" -> [is |-> "Array", val |-> j.val]
    [] j.is = "string" -> [is |-> "Text", val |-> j.val]
FromJson(j) ==
  CASE j.is = "null" -> [is |-> "Null"]
    [] j.is = "integer" -> [is |-> IF j.val >= 0 THEN "U64" ELSE "I64", val |-> j.val]
    [] j.is = "float" -> [is |-> "F64", val |-> j.val]
    [] j.is = "array" -> [is |-> "Array", val |-> j.val]
    [] j.is = "string" -> [is |-> "Text", val |-> j.val]
-----------------------------------------------------------------------------
VARIABLES
  context,   \* per thread: its FORENSIC_CONTEXT
  data,      \* per object: its artifact and its fields
  lent,      \* per object: fields changed through a &mut since their insert
  renamed,   \* per object: its name was written since it was made or read
  writes     \* inserts and changes so far

vars == <<context, data, lent, renamed, writes>>

\* What `{}` is read as.
Blank == [artifact |-> UnknownArtifact, fields |-> [n \in {} |-> Store([is |-> "Null"])]]

Init == /\ context = [t \in Thread |-> [host |-> Empty, artifact |-> UnknownArtifact,
                                        tenant |-> Empty]]
        /\ data = [o \in Object |-> Blank]
        /\ lent = [o \in Object |-> {}]
        /\ renamed = [o \in Object |-> FALSE]
        /\ writes = 0

HasField(o, n) == n \in DOMAIN data[o].fields
String(t) == [is |-> "Text", val |-> t]

\* The binding of `o` to the record `d`, with nothing of it lent out.
Make(o, d, l, r) == /\ data' = [data EXCEPT ![o] = d]
                    /\ lent' = [lent EXCEPT ![o] = l]
                    /\ renamed' = [renamed EXCEPT ![o] = r]

\* initialize_context; set_artifact, set_tenant and set_host change one part.
SetContext(t, c) ==
  /\ context' = [context EXCEPT ![t] = c]
  /\ UNCHANGED <<data, lent, renamed, writes>>

\* ForensicData::default: what the thread works on now.
Default_ForgetsArtifact(t, o) ==
  /\ Make(o, [artifact |-> UnknownArtifact,
              fields |-> [n \in {HOST, TENANT, NAME} |->
                 Store(String(CASE n = HOST -> context[t].host
                                [] n = TENANT -> context[t].tenant
                                [] n = NAME -> ArtifactName[context[t].artifact]))]],
           {}, FALSE)
  /\ UNCHANGED <<context, writes>>
Default(t, o) ==
  /\ Make(o, [artifact |-> context[t].artifact,
              fields |-> [n \in {HOST, TENANT, NAME} |->
                 Store(String(CASE n = HOST -> context[t].host
                                [] n = TENANT -> context[t].tenant
                                [] n = NAME -> ArtifactName[context[t].artifact]))]],
           {}, FALSE)
  /\ UNCHANGED <<context, writes>>

\* ForensicData::new
New(o, host, artifact) ==
  /\ Make(o, [artifact |-> artifact,
              fields |-> [n \in {HOST, NAME} |->
                 Store(String(IF n = HOST THEN host ELSE ArtifactName[artifact]))]],
           {}, FALSE)
  /\ UNCHANGED <<context, writes>>

\* insert and add_field: a fresh InternalField; the artifact is not looked at.
Insert(o, n, f) ==
  /\ writes < MaxWrites
  /\ Make(o, [data[o] EXCEPT !.fields = [m \in DOMAIN @ \cup {n} |->
                                           IF m = n THEN Store(f) ELSE @[m]]],
           lent[o] \ {n}, renamed[o] \/ n = NAME)
  /\ writes' = writes + 1
  /\ UNCHANGED context

\* A write through what field_mut or iter_mut returned.
FieldMut(o, n, f) ==
  /\ writes < MaxWrites
  /\ HasField(o, n)
  /\ Make(o, [data[o] EXCEPT !.fields[n].original = f],
           lent[o] \cup {n}, renamed[o] \/ n = NAME)
  /\ writes' = writes + 1
  /\ UNCHANGED context

\* i64_field, f64_field, u64_field, ip_field, txt_field, array_field: the first
\* to be asked of a field computes the cast and keeps it, also a failed one.
CastField(o, n, k) ==
  /\ HasField(o, n)
  /\ data[o].fields[n].cache[k] = Nothing
  /\ data' = [data EXCEPT ![o].fields[n].cache[k] =
                Cast(k, data[o].fields[n].original)]
  /\ UNCHANGED <<context, lent, renamed, writes>>

\* #[derive(Clone)]: the caches too.
Clone(o, p) == /\ o # p
               /\ Make(p, data[o], lent[o], renamed[o])
               /\ UNCHANGED <<context, writes>>

\* Serialize, then Deserialize: the artifact is read from its name.
Received_Renames(d) ==
  LET fields == [n \in DOMAIN d.fields |-> FromJson(Json(d.fields[n].original))]
      artifact == IF NAME \in DOMAIN fields /\ fields[NAME].is = "Text"
                  THEN ArtifactIn[fields[NAME].val] ELSE UnknownArtifact
  IN  [artifact |-> artifact,
       fields |-> [n \in DOMAIN fields |->
                     Store(IF n = NAME THEN String(ArtifactName[artifact]) ELSE fields[n])]]
Received(d) ==
  LET fields == [n \in DOMAIN d.fields |-> FromJson(Json(d.fields[n].original))]
  IN  [artifact |-> IF NAME \in DOMAIN fields /\ fields[NAME].is = "Text"
                    THEN ArtifactIn[fields[NAME].val] ELSE UnknownArtifact,
       fields |-> [n \in DOMAIN fields |-> Store(fields[n])]]
Relay(o, p) == /\ Make(p, Received(data[o]), {}, FALSE)
               /\ UNCHANGED <<context, writes>>

Next ==
  \/ \E t \in Thread, c \in Contexts : SetContext(t, c)
  \/ \E t \in Thread, o \in Object : Default(t, o)
  \/ \E o \in Object, c \in Contexts : New(o, c.host, c.artifact)
  \/ \E o \in Object, i \in Inputs : Insert(o, i[1], i[2]) \/ FieldMut(o, i[1], i[2])
  \/ \E o \in Object, a \in Asked : CastField(o, a[1], a[2])
  \/ \E o, p \in Object : Clone(o, p) \/ Relay(o, p)

Spec == Init /\ [][Next]_vars
-----------------------------------------------------------------------------
\* What the k-cast of field `n` answers, to the caller that asks for it now.
Answer(o, n, k) == LET field == data[o].fields[n]
                   IN  IF field.cache[k] = Nothing THEN Cast(k, field.original)
                       ELSE field.cache[k]

\* A field nobody changed behind its cache answers with the cast of its value,
\* whoever asked for it before, in whichever types and in whichever copy
\* (data.rs:74-209).
AnswersHonest ==
  \A o \in Object : \A n \in DOMAIN data[o].fields \ lent[o], k \in CacheKind :
     Answer(o, n, k) = Cast(k, data[o].fields[n].original)

\* artifact() and the field artifact.name agree until a caller writes the name,
\* although the two are stored apart, here and by the tool the record is read
\* by (data.rs:15-39, 337-338).
ArtifactNamed ==
  \A o \in Object : ~renamed[o] /\ HasField(o, NAME) =>
     LET name == data[o].fields[NAME].original
     IN  name.is = "Text" => \/ name.val = ArtifactName[data[o].artifact]
                             \/ data[o].artifact = ArtifactIn[name.val]

\* A record read by a second tool is the record the first one read: types are
\* lost once at most (field/mod.rs:283-425; the test at data.rs:374-375).
ReadOnceForAll ==
  \A o \in Object : Received(Received(data[o])) = Received(data[o])

\* A tool that reads a record gets the answers the sender got, whatever it was
\* asked for before it was sent.  Excepted are dates (sent as text), floats that
\* are NaN or infinite (sent as null: field/mod.rs:297), fields changed in place,
\* and addresses whose text is not read as an address (IpTextProps!ReadBack).
Travels(f, k) ==
  /\ f.is # "Date"
  /\ f.is = "F64" => f.val \in Finite
  /\ f.is = "Ip" /\ k = "ip" => IpIn[IpText[f.val]] = f.val
AnswersTravel ==
  \A o \in Object : \A n \in DOMAIN data[o].fields \ lent[o], k \in CacheKind :
     LET here == Answer(o, n, k)
         f == data[o].fields[n].original
     IN  here # Invalid /\ Travels(f, k)
           => Cast(k, Received(data[o]).fields[n].original) = here

\* What the comments at data.rs:74, 93, 112, 131, 150 and 180 promise of every
\* field: "Obtains the casted value of the field".
AnswersCurrent ==
  \A o \in Object : \A n \in DOMAIN data[o].fields, k \in CacheKind :
     Answer(o, n, k) = Cast(k, data[o].fields[n].original)
=============================================================================
