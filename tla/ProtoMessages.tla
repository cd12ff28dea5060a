--------------------------- MODULE ProtoMessages ---------------------------
(***************************************************************************)
(* The message classes that protoc generated: Person::PhoneNumber, Person, *)
(* ContactBook and CompanyInfo (contactsExample), PetProto                 *)
(* (protobuf_mysql), contacts and person (src_dir).                        *)
(*                                                                         *)
(* The functions of a class go through its fields, each function through a *)
(* list of its own.  The model keeps the lists, as one table for each      *)
(* function, and says once what a function does with a field.              *)
(*                                                                         *)
(* Numbers, lengths and tags are below 128, so that each is one byte, and  *)
(* a default string is one byte long.                                      *)
(***************************************************************************)
EXTENDS Naturals, SequencesExt

CONSTANTS
  Letters,  \* the strings that the program sets, of one letter each
  Numbers   \* the integers that it sets

ASSUME MessageAssumption == Letters \union Numbers \subseteq 0 .. 127

Texts == {<<letter>> : letter \in Letters}

\* A field: its number, type and default, and whether it is repeated.
Text(number, default) == [number |-> number, type |-> "string", of |-> "",
                          many |-> FALSE, default |-> default]
Number(number)  == [Text(number, 0) EXCEPT !.type = "int"]
Enum(number) == [Text(number, 0) EXCEPT !.type = "enum"]
Sub(number, of, default) == [Text(number, default) EXCEPT !.type = "message", !.of = of]
Many(field)  == [field EXCEPT !.many = TRUE, !.default = <<>>]

\* A message: has_*, the members, and the fields of unknown number as bytes.
New(fields) == [has |-> {}, val |-> [f \in DOMAIN fields |-> fields[f].default],
                unknown |-> <<>>]

\* Clear resets the repeated fields ("always"), the numbers if any field is
\* present ("any"), and each other field if it is present ("own").
ClearTable(always, any, own) == [always |-> always, any |-> any, own |-> own]

-----------------------------------------------------------------------------
(* contactsExample/contacts.pb.cc *)

GroupsIsValid(value) == value \in 0 .. 5

PhoneFields  == [number |-> Text(1, <<>>), group |-> Enum(2)]
PhoneClear   == ClearTable({}, {"group"}, {"number"})
PhoneParse   == (10 :> "number") @@ (16 :> "group")
PhoneWrite   == <<"number", "group">>
PhoneToArray == <<"number", "group">>
PhoneSize    == {"number", "group"}
PhoneMerge   == {"number", "group"}
PhoneNeeds   == {}
PhoneSwap    == {"number", "group"}

PersonFields  == [name |-> Text(1, <<108>>), id |-> Number(2),
                  phones |-> Many(Sub(3, "PhoneNumber", <<>>)),
                  priority |-> Number(4), email |-> Text(5, <<>>)]

PersonClear   == ClearTable({"phones"}, {"id", "priority"}, {"name", "email"})
PersonParse   == (10 :> "name") @@ (16 :> "id") @@ (26 :> "phones")
                   @@ (32 :> "priority") @@ (42 :> "email")
PersonWrite   == <<"name", "id", "phones", "priority", "email">>
PersonToArray == <<"name", "id", "phones", "priority", "email">>

PersonSize    == {"name", "id", "priority", "email", "phones"}
PersonMerge   == {"phones", "name", "id", "priority", "email"}
PersonNeeds   == {"name"}
PersonSwap    == {"name", "id", "phones", "priority", "email"}

BookFields  == [people |-> Many(Sub(1, "Person", <<>>))]
BookClear   == ClearTable({"people"}, {}, {})
BookParse   == (10 :> "people")
BookWrite   == <<"people">>
BookToArray == <<"people">>
BookSize    == {"people"}
BookMerge   == {"people"}
BookNeeds   == {}
BookSwap    == {"people"}

CompanyFields  == [name |-> Text(1, <<98>>), amount |-> Number(2),
                   contactbook |-> Sub(3, "ContactBook", New(BookFields))]
CompanyClear   == ClearTable({}, {"amount"}, {"name", "contactbook"})
CompanyParse   == (10 :> "name") @@ (16 :> "amount") @@ (26 :> "contactbook")
CompanyWrite   == <<"name", "amount", "contactbook">>
CompanyToArray == <<"name", "amount", "contactbook">>
CompanySize    == {"name", "amount", "contactbook"}
CompanyMerge   == {"name", "amount", "contactbook"}
CompanyNeeds   == {}
CompanySwap    == {"name", "amount", "contactbook"}

-----------------------------------------------------------------------------
(* protobuf_mysql/pet.pb.cc *)

PetFields  == [name |-> Text(1, <<>>), owner |-> Text(2, <<83>>),
               species |-> Text(3, <<107>>), sex |-> Text(4, <<109>>),
               birth |-> Text(5, <<>>), death |-> Text(6, <<>>)]
PetClear   == ClearTable({}, {}, {"name", "owner", "species", "sex", "birth", "death"})
PetParse   == (10 :> "name") @@ (18 :> "owner") @@ (26 :> "species")
                @@ (34 :> "sex") @@ (42 :> "birth") @@ (50 :> "death")
PetWrite   == <<"name", "owner", "species", "sex", "birth", "death">>
PetToArray == <<"name", "owner", "species", "sex", "birth", "death">>
PetSize    == {"name", "owner", "species", "sex", "birth", "death"}
PetMerge   == {"name", "owner", "species", "sex", "birth", "death"}
PetNeeds   == {}
PetSwap    == {"name", "owner", "species", "sex", "birth", "death"}

-----------------------------------------------------------------------------
(* src_dir/contacts.pb.cc: repeated numbers are read packed or one by one  *)

OldFields  == [name |-> Text(1, <<108>>), number |-> Text(2, <<49>>),
               groups |-> Many(Enum(3)), priority |-> Many(Number(4)),
               email |-> Many(Text(5, <<>>))]
OldClear   == ClearTable({"groups", "priority", "email"}, {}, {"name", "number"})
OldParse   == (10 :> "name") @@ (18 :> "number") @@ (24 :> "groups") @@ (26 :> "groups")
                @@ (32 :> "priority") @@ (34 :> "priority") @@ (42 :> "email")
OldWrite   == <<"name", "number", "groups", "priority", "email">>
OldToArray == <<"name", "number", "groups", "priority", "email">>
OldSize    == {"name", "number", "groups", "priority", "email"}

\* (mutant) MergeFrom without email_.MergeFrom
OldMergeNoEmail == {"groups", "priority", "name", "number"}

OldMerge   == {"groups", "priority", "email", "name", "number"}
OldNeeds   == {"name"}
OldSwap    == {"name", "number", "groups", "priority", "email"}

(* src_dir/example.pb.cc *)

ExampleFields  == [name |-> Text(1, <<>>), id |-> Number(12), email |-> Text(3, <<>>)]
ExampleClear   == ClearTable({}, {"id"}, {"name", "email"})
ExampleParse   == (10 :> "name") @@ (26 :> "email") @@ (96 :> "id")
ExampleWrite   == <<"name", "email", "id">>
ExampleToArray == <<"name", "email", "id">>
ExampleSize    == {"name", "id", "email"}
ExampleMerge   == {"name", "id", "email"}
ExampleNeeds   == {"name", "id"}
ExampleSwap    == {"name", "id", "email"}

-----------------------------------------------------------------------------

Tables(fields, clear, parse, write, toArray, size, merge, needs, swap) ==
  [fields |-> fields, clear |-> clear, parse |-> parse, write |-> write,
   toArray |-> toArray, size |-> size, merge |-> merge, needs |-> needs,
   swap |-> swap]

\* The tables of each class.
Class ==
  ("PhoneNumber" :> Tables(PhoneFields, PhoneClear, PhoneParse, PhoneWrite,
                           PhoneToArray, PhoneSize, PhoneMerge, PhoneNeeds, PhoneSwap))
  @@ ("Person" :> Tables(PersonFields, PersonClear, PersonParse, PersonWrite,
                         PersonToArray, PersonSize, PersonMerge, PersonNeeds, PersonSwap))
  @@ ("ContactBook" :> Tables(BookFields, BookClear, BookParse, BookWrite,
                              BookToArray, BookSize, BookMerge, BookNeeds, BookSwap))
  @@ ("CompanyInfo" :> Tables(CompanyFields, CompanyClear, CompanyParse, CompanyWrite,
                              CompanyToArray, CompanySize, CompanyMerge, CompanyNeeds,
                              CompanySwap))
  @@ ("PetProto" :> Tables(PetFields, PetClear, PetParse, PetWrite, PetToArray,
                           PetSize, PetMerge, PetNeeds, PetSwap))
  @@ ("contacts" :> Tables(OldFields, OldClear, OldParse, OldWrite, OldToArray,
                           OldSize, OldMerge, OldNeeds, OldSwap))
  @@ ("person" :> Tables(ExampleFields, ExampleClear, ExampleParse, ExampleWrite,
                         ExampleToArray, ExampleSize, ExampleMerge, ExampleNeeds,
                         ExampleSwap))

\* Below, t is the row of a class.
Fresh(t) == New(t.fields)

\* Clear().
Cleared(t, m) ==
  LET reset == t.clear.always \union (t.clear.own \intersect m.has)
                 \union (IF m.has = {} THEN {} ELSE t.clear.any)
  IN  [m EXCEPT !.val = [f \in DOMAIN @ |-> IF f \in reset THEN t.fields[f].default
                                           ELSE @[f]],
                !.has = {}, !.unknown = <<>>]

-----------------------------------------------------------------------------
(* Accessors: what one call makes of a message.  mutable_ makes the field  *)
(* present and leaves its value; clear_, release_ and set_allocated_(NULL) *)
(* remove it.                                                              *)

Put(m, f, v) == [m EXCEPT !.has = @ \union {f}, !.val[f] = v]
Add(m, f, v) == [m EXCEPT !.val[f] = Append(@, v)]
Drop(m, f, default) == [m EXCEPT !.has = @ \ {f}, !.val[f] = default]

FieldCalls(fields, m, f, values) ==
  {Put(m, f, v) : v \in values \union {m.val[f]}} \union {Drop(m, f, fields[f].default)}
TextCalls(fields, m, f) == FieldCalls(fields, m, f, Texts)
IntCalls(fields, m, f)  == FieldCalls(fields, m, f, Numbers)
EnumCalls(fields, m, f) == FieldCalls(fields, m, f, {v \in Numbers : GroupsIsValid(v)})

\* An element is added, becomes one of others[i], or the list is cleared.
ListCalls(m, f, first, others) ==
  {Add(m, f, v) : v \in first} \union {[m EXCEPT !.val[f] = <<>>]}
    \union UNION {{[m EXCEPT !.val[f][i] = v] : v \in others[i]} : i \in DOMAIN others}

PhoneCalls(m) == TextCalls(PhoneFields, m, "number") \union EnumCalls(PhoneFields, m, "group")

PersonCalls(m) ==
  UNION {TextCalls(PersonFields, m, f) : f \in {"name", "email"}}
    \union UNION {IntCalls(PersonFields, m, f) : f \in {"id", "priority"}}
    \union ListCalls(m, "phones", {New(PhoneFields)},
                     [i \in DOMAIN m.val["phones"] |-> PhoneCalls(m.val["phones"][i])])

BookCalls(m) ==
  ListCalls(m, "people", {New(PersonFields)},
            [i \in DOMAIN m.val["people"] |-> PersonCalls(m.val["people"][i])])

CompanyCalls(m) ==
  TextCalls(CompanyFields, m, "name") \union IntCalls(CompanyFields, m, "amount")
    \union FieldCalls(CompanyFields, m, "contactbook", BookCalls(m.val["contactbook"]))

PetCalls(m) == UNION {TextCalls(PetFields, m, f) : f \in DOMAIN PetFields}

OldCalls(m) ==
  UNION {TextCalls(OldFields, m, f) : f \in {"name", "number"}}
    \union ListCalls(m, "groups", {v \in Numbers : GroupsIsValid(v)}, <<>>)
    \union ListCalls(m, "priority", Numbers, [i \in DOMAIN m.val["priority"] |-> Numbers])
    \union ListCalls(m, "email", Texts \union {<<>>},
                     [i \in DOMAIN m.val["email"] |-> Texts])

ExampleCalls(m) ==
  UNION {TextCalls(ExampleFields, m, f) : f \in {"name", "email"}}
    \union IntCalls(ExampleFields, m, "id")

Calls(c, m) ==
  CASE c = "PhoneNumber" -> PhoneCalls(m)
    [] c = "Person"      -> PersonCalls(m)
    [] c = "ContactBook" -> BookCalls(m)
    [] c = "CompanyInfo" -> CompanyCalls(m)
    [] c = "PetProto"    -> PetCalls(m)
    [] c = "contacts"    -> OldCalls(m)
    [] c = "person"      -> ExampleCalls(m)

-----------------------------------------------------------------------------
(* MergeFrom, CopyFrom, Swap, IsInitialized *)

\* A repeated field is appended, a present one replaced, a present submessage
\* merged.
RECURSIVE MergeFrom(_, _, _)
MergeFrom(t, m, from) ==
  LET many    == {f \in t.merge : t.fields[f].many}
      present == (t.merge \ many) \intersect from.has
      Merged(f) ==
        CASE f \in many -> m.val[f] \o from.val[f]
          [] f \in present /\ t.fields[f].type = "message" ->
               MergeFrom(Class[t.fields[f].of], m.val[f], from.val[f])
          [] f \in present /\ t.fields[f].type # "message" -> from.val[f]
          [] OTHER -> m.val[f]
  IN  [has |-> m.has \union present, val |-> [f \in DOMAIN m.val |-> Merged(f)],
       unknown |-> m.unknown \o from.unknown]

CopyFrom(t, m, from) == MergeFrom(t, Cleared(t, m), from)

\* What Swap leaves in m.
Swapped(t, m, other) ==
  [other EXCEPT !.val = [f \in DOMAIN @ |-> IF f \in t.swap THEN @[f] ELSE m.val[f]]]

\* The values of a field: what is written, counted and tested of it.
Values(t, m, f) == IF t.fields[f].many THEN m.val[f]
                   ELSE IF f \in m.has THEN <<m.val[f]>> ELSE <<>>

RECURSIVE IsInitialized(_, _)
IsInitialized(t, m) ==
  /\ t.needs \subseteq m.has
  /\ \A f \in DOMAIN m.val : t.fields[f].type = "message" =>
       \A v \in ToSet(Values(t, m, f)) : IsInitialized(Class[t.fields[f].of], v)

-----------------------------------------------------------------------------
(* ByteSize, SerializeWithCachedSizes, SerializeWithCachedSizesToArray *)

RECURSIVE ByteSize(_, _)
ByteSize(t, m) ==
  LET SizeOf(field, v) ==
        CASE field.type = "string"  -> 1 + 1 + Len(v)
          [] field.type = "message" -> 1 + 1 + ByteSize(Class[field.of], v)
          [] OTHER                  -> 1 + 1
      OfField(f) == FoldLeft(LAMBDA sum, v : sum + SizeOf(t.fields[f], v),
                             0, Values(t, m, f))
  IN  FoldSet(LAMBDA f, sum : sum + OfField(f), Len(m.unknown), t.size)

\* how = "write" or "toArray".  A submessage is preceded by its cached size,
\* which the ByteSize before has computed.
RECURSIVE Serialized(_, _, _)
Serialized(how, t, m) ==
  LET Written(field, v) ==
        CASE field.type = "string"  -> <<8 * field.number + 2, Len(v)>> \o v
          [] field.type = "message" ->
               <<8 * field.number + 2, ByteSize(Class[field.of], v)>>
                 \o Serialized(how, Class[field.of], v)
          [] OTHER                  -> <<8 * field.number, v>>
      OfField(f) == FoldLeft(LAMBDA bytes, v : bytes \o Written(t.fields[f], v),
                             <<>>, Values(t, m, f))
  IN  FoldLeft(LAMBDA bytes, f : bytes \o OfField(f), <<>>, t[how]) \o m.unknown

-----------------------------------------------------------------------------
(* MergePartialFromCodedStream *)

Step(ok, msg, rest) == [ok |-> ok, msg |-> msg, rest |-> rest]

SmallerOf(x, y) == IF x < y THEN x ELSE y

\* SkipField keeps a field of unknown number or of another type in
\* unknown_fields; the groups of protobuf do not occur.
SkipField(m, s) ==
  LET size == CASE s[1] % 8 = 0 -> 2
                [] s[1] % 8 = 1 -> 9
                [] s[1] % 8 = 5 -> 5
                [] OTHER -> IF Len(s) > 1 THEN 2 + s[2] ELSE 2
  IN  IF Len(s) >= size
        THEN Step(TRUE, [m EXCEPT !.unknown = @ \o SubSeq(s, 1, size)],
                  SubSeq(s, size + 1, Len(s)))
        ELSE Step(FALSE, IF s[1] % 8 # 2 \/ Len(s) = 1 THEN m
                         ELSE [m EXCEPT !.unknown = @ \o <<s[1], Len(s) - 2>>
                                                      \o SubSeq(s, 3, Len(s))], <<>>)

Stored(m, f, field, v) == IF field.many THEN Add(m, f, v) ELSE Put(m, f, v)

\* One field, of a length: end is where it ends.  A length beyond the end of s is
\* cut to what there is, except that of a string.
ParseText(m, s, f, field, end) ==
  Step(end = 2 + s[2], Stored(m, f, field, SubSeq(s, 3, end)),
       SubSeq(s, end + 1, Len(s)))

ParsePacked(m, s, f, field, end) ==
  Step(TRUE, [m EXCEPT !.val[f] = @ \o SelectSeq(SubSeq(s, 3, end), LAMBDA v :
                                         field.type = "int" \/ GroupsIsValid(v))],
       SubSeq(s, end + 1, Len(s)))

ParseSub(m, s, f, field, end, sub) ==
  Step(sub.ok /\ sub.rest = <<>>, Stored(m, f, field, sub.msg),
       SubSeq(s, end + 1, Len(s)))

\* One number; an enum's value that is not valid becomes an unknown field.
ParseNumber(m, s, f, field) ==
  Step(TRUE, IF field.type = "int" \/ GroupsIsValid(s[2])
               THEN Stored(m, f, field, s[2])
               ELSE [m EXCEPT !.unknown = @ \o <<s[1], s[2]>>],
       SubSeq(s, 3, Len(s)))

\* s ends behind the tag: mutable_ or add_ has been called, no more.
ParseCut(m, f, field, old) ==
  Step(FALSE, IF field.type \in {"string", "message"} THEN Stored(m, f, field, old)
              ELSE m, <<>>)

OldValue(m, f, field) == CASE ~field.many -> m.val[f]
                           [] field.many /\ field.type = "message" ->
                                Fresh(Class[field.of])
                           [] OTHER -> <<>>

\* Parse s into m, until the end or a tag that ends a message.  s begins with
\* a tag at every turn; a value that is cut off ends the parse, and leaves what
\* was read of it.
RECURSIVE MergePartial(_, _, _), ParseField(_, _, _, _), GoOn(_, _)
MergePartial(t, m, s) ==
  IF s = <<>> \/ s[1] = 0 \/ s[1] % 8 = 4 THEN Step(TRUE, m, s)
  ELSE GoOn(t, IF s[1] \in DOMAIN t.parse
                 THEN ParseField(m, s, t.parse[s[1]], t.fields[t.parse[s[1]]])
                 ELSE SkipField(m, s))

GoOn(t, step) == IF step.ok THEN MergePartial(t, step.msg, step.rest) ELSE step

ParseField(m, s, f, field) ==
  LET end == SmallerOf(2 + s[2], Len(s))
      old == OldValue(m, f, field)
  IN  CASE Len(s) = 1 -> ParseCut(m, f, field, old)
        [] Len(s) > 1 /\ field.type = "string" -> ParseText(m, s, f, field, end)
        [] Len(s) > 1 /\ field.type = "message" ->
             ParseSub(m, s, f, field, end,
                      MergePartial(Class[field.of], old, SubSeq(s, 3, end)))
        [] Len(s) > 1 /\ field.type \in {"int", "enum"} ->
             IF s[1] % 8 = 2 THEN ParsePacked(m, s, f, field, end)
                             ELSE ParseNumber(m, s, f, field)

\* ParseFromArray and ParseFromIstream: Clear, parse, and see that everything
\* was parsed and every required field is there.
Checked(t, step) == [ok |-> step.ok /\ step.rest = <<>> /\ IsInitialized(t, step.msg),
                     msg |-> step.msg]
Parse(t, m, s) == Checked(t, MergePartial(t, Cleared(t, m), s))
=============================================================================
