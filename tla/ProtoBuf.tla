------------------------------ MODULE ProtoBuf ------------------------------
(***************************************************************************)
(* What the generated code of src/crates/*/src/proto does with the fields  *)
(* that a message type declares: compute_size, write_to_bytes and          *)
(* parse_from_bytes.  A type is the sequence of its fields in the order    *)
(* they are written.  A message maps each field to the sequence of its     *)
(* values, with what the type does not know under "unknown".  The reading  *)
(* and writing of single values is rust-protobuf's, which is external.     *)
(*                                                                         *)
(* Bytes are 0..255 and numbers are between -2^28 and 2^28.  Groups, which *)
(* no sender uses any more, are left out.                                  *)
(*                                                                         *)
(* A message is written as a list of items, one for each value.  Types     *)
(* nest, at most two deep: what is 0 below is for the values of a type     *)
(* that nests none, 1 and 2 are for those of the types around it.          *)
(***************************************************************************)
EXTENDS Integers, Sequences, SequencesExt

\* Some(x) and None, Ok(x) and Err.
Some(x) == << x >>
None    == << >>

Byte   == 0..255
Number == {n \in Int : -268435456 <= n /\ n < 268435456}

-----------------------------------------------------------------------------
(* Varints. *)

\* A number in groups of seven bits, the low ones first.  A negative one has
\* 64 bits, so it takes ten bytes.
Varint(n) ==
    LET low    == 128 + (n % 128)
        second == 128 + ((n \div 128) % 128)
        third  == 128 + ((n \div 16384) % 128)
    IN  IF n < 0 THEN << low, second, third, 128 + ((n \div 2097152) % 128),
                         255, 255, 255, 255, 255, 1 >>
        ELSE IF n < 128 THEN << n >>
        ELSE IF n < 16384 THEN << low, n \div 128 >>
        ELSE IF n < 2097152 THEN << low, second, n \div 16384 >>
        ELSE << low, second, third, n \div 2097152 >>

\* compute_raw_varint64_size.
VarintSize(n) ==
    IF n < 0 THEN 10
    ELSE IF n < 128 THEN 1 ELSE IF n < 16384 THEN 2 ELSE IF n < 2097152 THEN 3 ELSE 4

\* The number that begins at byte i and the byte after it: one, or none.
ReadVarint(b, i) ==
    LET Digit(j, e) == IF j <= e THEN b[j] % 128 ELSE 0
    IN  {[value |-> Digit(i, e) + 128 * Digit(i + 1, e) + 16384 * Digit(i + 2, e)
                    + 2097152 * Digit(i + 3, e) - (IF e = i + 9 THEN 268435456 ELSE 0),
          next  |-> e + 1] :
            e \in {k \in i..Len(b) : k < i + 10 /\ b[k] < 128 /\ \A j \in i..(k - 1) : b[j] >= 128}}

-----------------------------------------------------------------------------
(* Types. *)

Field(name, num, kind, label) ==
    [name |-> name, num |-> num, kind |-> kind, label |-> label, of |-> << >>]

Nested(name, num, label, of) ==
    [name |-> name, num |-> num, kind |-> "message", label |-> label, of |-> of]

\* A field that is no Option has a value always, and is written when it is
\* not the default.
Default(f) == IF f.kind = "varint" THEN 0 ELSE << >>

Names(fields) == {fields[i].name : i \in DOMAIN fields}

FieldNamed(fields, name) == fields[CHOOSE i \in DOMAIN fields : fields[i].name = name]

\* M::new().
New(fields) ==
    [name \in Names(fields) \union {"unknown"} |->
        IF name # "unknown" /\ FieldNamed(fields, name).label = "plain"
        THEN << Default(FieldNamed(fields, name)) >>
        ELSE << >>]

Written(f, m) ==
    IF f.label = "plain" /\ m[f.name] = << Default(f) >> THEN << >> ELSE m[f.name]

WireType(f) == IF f.kind = "varint" THEN 0 ELSE 2
TagOf(f)    == 8 * f.num + WireType(f)
Tags(fields) == {TagOf(fields[i]) : i \in DOMAIN fields}

Initialized(fields, m) ==
    \A i \in DOMAIN fields : fields[i].label = "required" => m[fields[i].name] # << >>

-----------------------------------------------------------------------------
(* Writing. *)

\* What is written of a value: its tag, and a number, or bytes with their
\* length, or as many bytes as the tag says.
IsItem(item) ==
    /\ item = [tag |-> item.tag, value |-> item.value, size |-> item.size]
    /\ item.tag \in Number /\ item.tag >= 8
    /\ IF item.tag % 8 = 0 THEN item.value \in Number /\ item.size = 0
       ELSE item.value \in Seq(Byte) /\ item.size = Len(item.value)
    /\ item.tag % 8 \in {0, 1, 2, 5}
    /\ item.tag % 8 = 1 => item.size = 8
    /\ item.tag % 8 = 5 => item.size = 4

\* read_string takes UTF-8 only: of the bytes of the model, those below 128.
Utf8(b) == \A i \in DOMAIN b : b[i] < 128

IsSeq(s) == Len(s) \in Nat /\ s = [j \in 1..Len(s) |-> s[j]]

\* A message has a sequence of values for each field, and unknown ones.
Shaped(fields, m) ==
    /\ m = [name \in Names(fields) \union {"unknown"} |-> m[name]]
    /\ \A i \in DOMAIN fields :
           /\ IsSeq(m[fields[i].name])
           /\ fields[i].label # "repeated" => Len(m[fields[i].name]) <= 1
           /\ fields[i].label = "plain"    => m[fields[i].name] # << >>
    /\ IsSeq(m["unknown"])
    /\ \A j \in DOMAIN m["unknown"] :
           IsItem(m["unknown"][j]) /\ m["unknown"][j].tag \notin Tags(fields)

\* The structs of the generated code: each value is what the field's kind says.
IsMessage(Is(_, _), fields, m) ==
    /\ Shaped(fields, m)
    /\ \A i \in DOMAIN fields :
           \A j \in DOMAIN m[fields[i].name] : Is(fields[i], m[fields[i].name][j])

Is0(f, v) ==
    IF f.kind = "varint" THEN v \in Number
    ELSE v \in Seq(Byte) /\ (f.kind = "string" => Utf8(v))
Is1(f, v) == IF f.kind = "message" THEN IsMessage(Is0, f.of, v) ELSE Is0(f, v)
Is2(f, v) == IF f.kind = "message" THEN IsMessage(Is1, f.of, v) ELSE Is0(f, v)

\* Faulty variant of ItemSize: a length counts as one byte.
ItemSizeBare(item) ==
    LET wt == item.tag % 8
    IN  VarintSize(item.tag) + IF wt = 0 THEN VarintSize(item.value)
                               ELSE IF wt = 2 THEN 1 + item.size
                               ELSE item.size

\* What a value takes: a number, bytes with their length, or bytes of which
\* the tag tells the length.
ItemSize(item) ==
    LET wt == item.tag % 8
    IN  VarintSize(item.tag) + IF wt = 0 THEN VarintSize(item.value)
                               ELSE IF wt = 2 THEN VarintSize(item.size) + item.size
                               ELSE item.size

WriteItem(item) ==
    LET wt == item.tag % 8
    IN  Varint(item.tag) \o IF wt = 0 THEN Varint(item.value)
                            ELSE IF wt = 2 THEN Varint(item.size) \o item.value
                            ELSE item.value

Total(s) ==
    LET sum[n \in 0..Len(s)] == IF n = 0 THEN 0 ELSE sum[n - 1] + s[n] IN sum[Len(s)]

SizeOfAll(items) == Total([i \in DOMAIN items |-> ItemSize(items[i])])
WriteAll(items)  == FlattenSeq([i \in DOMAIN items |-> WriteItem(items[i])])

\* The items of a message whose fields' values are coded as given.
Listed(coded, unknown) == FlattenSeq(coded) \o unknown

Items(Coded(_, _), fields, m) ==
    Listed([i \in DOMAIN fields |->
               [j \in DOMAIN Written(fields[i], m) |->
                   Coded(fields[i], Written(fields[i], m)[j])]],
           m["unknown"])

\* The length of a nested message is what compute_size says of it.
Message(f, items) ==
    [tag |-> TagOf(f), value |-> WriteAll(items), size |-> SizeOfAll(items)]

Coded0(f, v) ==
    [tag |-> TagOf(f), value |-> v, size |-> IF f.kind = "varint" THEN 0 ELSE Len(v)]
Coded1(f, v) ==
    IF f.kind = "message" THEN Message(f, Items(Coded0, f.of, v)) ELSE Coded0(f, v)
Coded2(f, v) ==
    IF f.kind = "message" THEN Message(f, Items(Coded1, f.of, v)) ELSE Coded0(f, v)

\* compute_size.
ComputeSize(fields, m) == SizeOfAll(Items(Coded2, fields, m))

\* write_to_with_cached_sizes.
Write(fields, m) == WriteAll(Items(Coded2, fields, m))

-----------------------------------------------------------------------------
(* Reading.  Each operator is the set of what the bytes can be read as: one  *)
(* value, or none.                                                           *)

\* The bytes of a value, if they are all there.
ReadBytes(b, tag, from, size) ==
    {[item |-> [tag |-> tag, value |-> SubSeq(b, from, n - 1), size |-> size], next |-> n] :
        n \in {from + size} \cap (from..(Len(b) + 1))}

\* The item that begins at byte i and the byte after it.
ReadItem(b, i) ==
    UNION {LET wt == t.value % 8
           IN  IF wt = 0
               THEN {[item |-> [tag |-> t.value, value |-> n.value, size |-> 0], next |-> n.next] :
                        n \in ReadVarint(b, t.next)}
               ELSE IF wt = 2
               THEN UNION {ReadBytes(b, t.value, n.next, n.value) : n \in ReadVarint(b, t.next)}
               ELSE IF wt = 1 THEN ReadBytes(b, t.value, t.next, 8)
               ELSE IF wt = 5 THEN ReadBytes(b, t.value, t.next, 4)
               ELSE {} :
           t \in ReadVarint(b, i)}

ReadItems(b) ==
    LET from[i \in 1..(Len(b) + 1)] ==
            IF i = Len(b) + 1 THEN {<< >>}
            ELSE UNION {{<< read.item >> \o rest : rest \in from[read.next]} :
                           read \in ReadItem(b, i)}
    IN  from[1]

\* Those of the items that have one of the tags.
Sifted(items, tags) ==
    FlattenSeq([i \in DOMAIN items |-> IF items[i].tag \in tags THEN << items[i] >> ELSE << >>])

OfField(items, f) == Sifted(items, {TagOf(f)})

\* Each value goes to the field whose tag it has, and a field that is not
\* repeated keeps the last one.  A known number with another wire type is the
\* tag of no field.
Merged(fields, items, values) ==
    [name \in Names(fields) \union {"unknown"} |->
        IF name = "unknown"
        THEN Sifted(items, {items[i].tag : i \in DOMAIN items} \ Tags(fields))
        ELSE IF values[name] = << >> THEN New(fields)[name]
        ELSE IF FieldNamed(fields, name).label = "repeated" THEN values[name]
        ELSE << Last(values[name]) >>]

\* merge_from, where a field's value is read from its bytes as given.
Merge(Read(_, _), fields, b) ==
    LET Readable(items) == \A i \in DOMAIN fields :
                               \A j \in DOMAIN OfField(items, fields[i]) :
                                   Read(fields[i], OfField(items, fields[i])[j].value) # {}
        Values(items)   == [name \in Names(fields) |->
                               LET f == FieldNamed(fields, name)
                               IN  [j \in DOMAIN OfField(items, f) |->
                                       CHOOSE v \in Read(f, OfField(items, f)[j].value) : TRUE]]
    IN  {Merged(fields, items, Values(items)) : items \in {is \in ReadItems(b) : Readable(is)}}

Read0(f, v) == IF f.kind = "message" \/ (f.kind = "string" /\ ~Utf8(v)) THEN {} ELSE {v}
Read1(f, v) == IF f.kind = "message" THEN Merge(Read0, f.of, v) ELSE Read0(f, v)
Read2(f, v) == IF f.kind = "message" THEN Merge(Read1, f.of, v) ELSE Read0(f, v)

MergeFrom(fields, b) == Merge(Read2, fields, b)

\* parse_from_bytes, with its check of required fields.
ParseFromBytes(fields, b) == {m \in MergeFrom(fields, b) : Initialized(fields, m)}
=============================================================================
