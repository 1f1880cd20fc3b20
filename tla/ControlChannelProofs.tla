------------------------ MODULE ControlChannelProofs ------------------------
(***************************************************************************)
(* What the codec of control messages does for every message: the fields   *)
(* that were added to a buffer are read from it again, whatever object     *)
(* they are read into, and a received message says what was sent.          *)
(*                                                                         *)
(* Adding and reading are recursive functions over a list of fields.       *)
(* Facts about them are shown by induction on sets of numbers: the set of  *)
(* those a fact holds for contains 0 and the successor of each member.     *)
(***************************************************************************)
EXTENDS ControlChannel, WellFoundedInduction, SequenceTheorems, TLAPS

(* Induction, with a set of numbers for the property. *)
LEMMA SetInduction ==
  ASSUME NEW S, 0 \in S, \A n \in Nat : n \in S => n + 1 \in S
  PROVE  Nat \subseteq S
<1> DEFINE T == Nat \ S
<1> DEFINE R == OpToRel(<, Nat)
<1>1. IsWellFoundedOn(R, Nat)
  BY NatLessThanWellFounded
<1>2. \A x, y \in Nat : <<y, x>> \in R <=> y < x
  BY DEF OpToRel
<1>3. ASSUME T # {} PROVE FALSE
  <2> HIDE DEF R
  <2>0. T \subseteq Nat
    OBVIOUS
  <2> HIDE DEF T
  <2>1. PICK x \in T : \A y \in T : ~ (<<y, x>> \in R)
    BY <2>0, <1>1, <1>3, WFMin
  <2> USE DEF T
  <2>2. x \in Nat /\ x # 0 /\ x - 1 \in Nat /\ x - 1 < x
    BY <2>1
  <2>3. x - 1 \in T
    BY <2>1, <2>2
  <2> QED BY <2>1, <2>2, <2>3, <1>2
<1> QED BY <1>3

-----------------------------------------------------------------------------
(* The recursive functions exist: AddFields and ReadFields are the last    *)
(* values of functions that add, and read, one field after the other.      *)

LEMMA AddFieldsSteps ==
  ASSUME NEW message, NEW object, NEW fields, Len(fields) \in Nat
  PROVE  \E added :
            /\ added[0] = message
            /\ \A k \in 1..Len(fields) : added[k] = AddField(object, added[k - 1], fields[k])
            /\ AddFields(message, object, fields) = added[Len(fields)]
<1> DEFINE Is(f, n) == f = [k \in 0..n |-> IF k = 0 THEN message
                                           ELSE AddField(object, f[k - 1], fields[k])]
           S == {n \in Nat : \E f : Is(f, n)}
<1>1. 0 \in S
  <2>1. Is([k \in 0..0 |-> message], 0)
    OBVIOUS
  <2> QED BY <2>1
<1>2. ASSUME NEW n \in Nat, n \in S PROVE n + 1 \in S
  <2>1. PICK f : Is(f, n)
    BY <1>2
  <2> DEFINE g == [k \in 0..(n + 1) |-> IF k = n + 1 THEN AddField(object, f[n], fields[k])
                                        ELSE f[k]]
  <2>2. Is(g, n + 1)
    <3>1. ASSUME NEW k \in 0..(n + 1)
          PROVE  g[k] = IF k = 0 THEN message ELSE AddField(object, g[k - 1], fields[k])
      <4>1. CASE k = n + 1
        <5>1. k - 1 = n /\ n \in 0..(n + 1) /\ n # n + 1 /\ k # 0
          BY <4>1
        <5>2. g[k] = AddField(object, f[n], fields[k]) /\ g[k - 1] = f[n]
          BY <4>1, <5>1
        <5> QED BY <5>1, <5>2
      <4>2. CASE k # n + 1
        <5>1. k \in 0..n /\ (k # 0 => k - 1 \in 0..n /\ k - 1 # n + 1 /\ k - 1 \in 0..(n + 1))
          BY <4>2
        <5>2. g[k] = f[k] /\ (k # 0 => g[k - 1] = f[k - 1])
          BY <4>2, <5>1
        <5>3. f[k] = IF k = 0 THEN message ELSE AddField(object, f[k - 1], fields[k])
          BY <2>1, <5>1
        <5> QED BY <5>2, <5>3
      <4> QED BY <4>1, <4>2
    <3> HIDE DEF g
    <3>2. g = [k \in 0..(n + 1) |-> g[k]]
      BY DEF g
    <3> QED BY <3>1, <3>2
  <2> HIDE DEF g
  <2>3. \E h : Is(h, n + 1)
    BY <2>2
  <2> QED BY <2>3
<1>3. Len(fields) \in S
  <2> HIDE DEF S
  <2> QED BY <1>1, <1>2, SetInduction
<1> DEFINE added == CHOOSE f : Is(f, Len(fields))
<1>4. Is(added, Len(fields))
  BY <1>3
<1>5. AddFields(message, object, fields) = added[Len(fields)]
  BY DEF AddFields
<1> HIDE DEF added
<1>6. added[0] = message
  BY <1>4
<1>7. \A k \in 1..Len(fields) : added[k] = AddField(object, added[k - 1], fields[k])
  BY <1>4
<1> QED BY <1>5, <1>6, <1>7

LEMMA ReadFieldsSteps ==
  ASSUME NEW message, NEW object, NEW fields, Len(fields) \in Nat
  PROVE  \E read :
            /\ read[0] = [message |-> message, object |-> object]
            /\ \A k \in 1..Len(fields) : read[k] = ReadField(read[k - 1], fields[k])
            /\ ReadFields(message, object, fields) = read[Len(fields)]
<1> DEFINE initial == [message |-> message, object |-> object]
           Is(f, n) == f = [k \in 0..n |-> IF k = 0 THEN initial
                                           ELSE ReadField(f[k - 1], fields[k])]
           S == {n \in Nat : \E f : Is(f, n)}
<1>1. 0 \in S
  <2>1. Is([k \in 0..0 |-> initial], 0)
    OBVIOUS
  <2> QED BY <2>1
<1>2. ASSUME NEW n \in Nat, n \in S PROVE n + 1 \in S
  <2>1. PICK f : Is(f, n)
    BY <1>2
  <2> DEFINE g == [k \in 0..(n + 1) |-> IF k = n + 1 THEN ReadField(f[n], fields[k])
                                        ELSE f[k]]
  <2>2. Is(g, n + 1)
    <3>1. ASSUME NEW k \in 0..(n + 1)
          PROVE  g[k] = IF k = 0 THEN initial ELSE ReadField(g[k - 1], fields[k])
      <4>1. CASE k = n + 1
        <5>1. k - 1 = n /\ n \in 0..(n + 1) /\ n # n + 1 /\ k # 0
          BY <4>1
        <5>2. g[k] = ReadField(f[n], fields[k]) /\ g[k - 1] = f[n]
          BY <4>1, <5>1
        <5> QED BY <5>1, <5>2
      <4>2. CASE k # n + 1
        <5>1. k \in 0..n /\ (k # 0 => k - 1 \in 0..n /\ k - 1 # n + 1 /\ k - 1 \in 0..(n + 1))
          BY <4>2
        <5>2. g[k] = f[k] /\ (k # 0 => g[k - 1] = f[k - 1])
          BY <4>2, <5>1
        <5>3. f[k] = IF k = 0 THEN initial ELSE ReadField(f[k - 1], fields[k])
          BY <2>1, <5>1
        <5> QED BY <5>2, <5>3
      <4> QED BY <4>1, <4>2
    <3> HIDE DEF g
    <3>2. g = [k \in 0..(n + 1) |-> g[k]]
      BY DEF g
    <3> QED BY <3>1, <3>2
  <2> HIDE DEF g
  <2>3. \E h : Is(h, n + 1)
    BY <2>2
  <2> QED BY <2>3
<1>3. Len(fields) \in S
  <2> HIDE DEF S
  <2> QED BY <1>1, <1>2, SetInduction
<1> DEFINE read == CHOOSE f : Is(f, Len(fields))
<1>4. Is(read, Len(fields))
  BY <1>3
<1>5. ReadFields(message, object, fields) = read[Len(fields)]
  BY DEF ReadFields
<1> HIDE DEF read
<1>6. read[0] = initial
  BY <1>4
<1>7. \A k \in 1..Len(fields) : read[k] = ReadField(read[k - 1], fields[k])
  BY <1>4
<1> QED BY <1>5, <1>6, <1>7
-----------------------------------------------------------------------------
(* The layout of fields in a buffer. *)

(* A list of fields with sizes. *)
Fields(fields) ==
    Len(fields) \in Nat /\ \A k \in 1..Len(fields) : fields[k][2] \in Nat \ {0}

(* Where the fields begin, and the last one ends, when they are added to   *)
(* an empty buffer.                                                        *)
Offsets(fields, at) ==
    /\ at[0] = 0
    /\ \A k \in 0..Len(fields) : at[k] \in Nat
    /\ \A k \in 1..Len(fields) : at[k] = at[k - 1] + fields[k][2]

Distinct(fields) ==
    \A i, j \in 1..Len(fields) : fields[i][1] = fields[j][1] => i = j

Written(object, field) == [value |-> object[field[1]], size |-> field[2]]

(* Cells of positive size at offsets that are not negative. *)
Bytes(bytes) ==
    /\ bytes = [o \in DOMAIN bytes |-> bytes[o]]
    /\ \A o \in DOMAIN bytes : o \in Nat /\ bytes[o].size \in Nat \ {0}

(* Cells that end within the first size bytes. *)
Within(bytes, size) == Bytes(bytes) /\ \A o \in DOMAIN bytes : o + bytes[o].size <= size

(* The cells of an object's first n fields are in a buffer. *)
Holds(bytes, object, fields, at, n) ==
    \A k \in 1..n : at[k - 1] \in DOMAIN bytes /\ bytes[at[k - 1]] = Written(object, fields[k])

(* What ends where another field begins lies before it. *)
LEMMA OffsetsGrow ==
  ASSUME NEW fields, Fields(fields), NEW at, Offsets(fields, at)
  PROVE  \A k \in 0..Len(fields) : \A j \in 0..k : at[j] <= at[k]
<1> DEFINE S == {k \in Nat : k <= Len(fields) => \A j \in 0..k : at[j] <= at[k]}
<1>0. Len(fields) \in Nat
  BY DEF Fields
<1>1. 0 \in S
  BY <1>0 DEF Offsets
<1>2. ASSUME NEW k \in Nat, k \in S PROVE k + 1 \in S
  <2> SUFFICES ASSUME k + 1 <= Len(fields), NEW j \in 0..(k + 1) PROVE at[j] <= at[k + 1]
    OBVIOUS
  <2>1. fields[k + 1][2] \in Nat
    BY <1>0 DEF Fields
  <2>2. at[k + 1] = at[k] + fields[k + 1][2]
    BY <1>0 DEF Offsets
  <2>3. at[k] \in Nat /\ at[k + 1] \in Nat /\ at[j] \in Nat
    BY <1>0 DEF Offsets
  <2>4. CASE j = k + 1
    BY <2>3, <2>4
  <2>5. CASE j \in 0..k
    BY <1>0, <1>2, <2>1, <2>2, <2>3, <2>5
  <2> QED BY <2>4, <2>5
<1>3. Nat \subseteq S
  <2> HIDE DEF S
  <2> QED BY <1>1, <1>2, SetInduction
<1> QED BY <1>0, <1>3

(* A buffer to which the first n fields of an object have been added. *)
Laid(message, n, object, fields, at) ==
    /\ message.pos = at[n] /\ message.length = at[n]
    /\ Within(message.buffer, at[n])
    /\ Holds(message.buffer, object, fields, at, n)

LEMMA AddedField ==
  ASSUME NEW fields, Fields(fields), NEW at, Offsets(fields, at), NEW object, NEW message,
         NEW k \in 1..Len(fields), MaxLength \in Nat, at[Len(fields)] < MaxLength,
         Laid(message, k - 1, object, fields, at)
  PROVE  Laid(AddField(object, message, fields[k]), k, object, fields, at)
<1> DEFINE size == fields[k][2]
           kept == {o \in DOMAIN message.buffer :
                        \/ o >= message.pos + size
                        \/ o + message.buffer[o].size <= message.pos}
           cell == Cell(object[fields[k][1]], size)
           bytes == Overwrite(message.buffer, message.pos, size, cell)
<1>1. Len(fields) \in Nat /\ size \in Nat /\ size > 0
  BY DEF Fields
<1>2. /\ at[k] = at[k - 1] + size /\ at[k] \in Nat /\ at[k - 1] \in Nat
      /\ at[Len(fields)] \in Nat
  BY <1>1 DEF Offsets
<1>3. at[k] <= at[Len(fields)]
  BY <1>1, OffsetsGrow
<1>4. /\ message.pos = at[k - 1] /\ message.length = at[k - 1]
      /\ \A o \in DOMAIN message.buffer :
            /\ o \in Nat /\ message.buffer[o].size \in Nat \ {0}
            /\ o + message.buffer[o].size <= at[k - 1]
  BY DEF Laid, Within, Bytes
<1>5. kept = DOMAIN message.buffer /\ at[k - 1] \notin kept
  BY <1>2, <1>4
<1>6. AddField(object, message, fields[k]) =
        [buffer |-> bytes, pos |-> message.pos + size, length |-> message.length + size]
  BY <1>1, <1>2, <1>3, <1>4 DEF AddField, AddBytes
<1>7. DOMAIN cell = {0} /\ cell[0] = Written(object, fields[k])
  BY DEF Cell, Written
<1>8. bytes = [o \in kept \cup {message.pos + b : b \in DOMAIN cell} |->
                  IF o \in kept THEN message.buffer[o] ELSE cell[o - message.pos]]
  BY DEF Overwrite
<1>9. {message.pos + b : b \in DOMAIN cell} = {at[k - 1]}
  BY <1>2, <1>4, <1>7
<1> HIDE DEF bytes, kept, cell
<1>10. /\ DOMAIN bytes = kept \cup {at[k - 1]} /\ bytes = [o \in DOMAIN bytes |-> bytes[o]]
       /\ \A o \in kept : bytes[o] = message.buffer[o]
       /\ bytes[at[k - 1]] = Written(object, fields[k])
  BY <1>2, <1>4, <1>5, <1>7, <1>8, <1>9
<1>11. Within(bytes, at[k])
  <2>1. Written(object, fields[k]).size = size
    BY DEF Written
  <2>2. \A o \in kept : /\ o \in Nat /\ bytes[o].size \in Nat \ {0}
                        /\ o + bytes[o].size <= at[k]
    <3>1. ASSUME NEW o \in kept
          PROVE  /\ o \in Nat /\ message.buffer[o].size \in Nat \ {0}
                 /\ o + message.buffer[o].size <= at[k]
      <4>1. o \in DOMAIN message.buffer
        BY <1>5
      <4>2. /\ o \in Nat /\ message.buffer[o].size \in Nat \ {0}
            /\ o + message.buffer[o].size <= at[k - 1]
        BY <1>4, <4>1
      <4>3. at[k - 1] \in Nat /\ at[k] \in Nat /\ at[k - 1] <= at[k]
        BY <1>1, <1>2
      <4> DEFINE length == message.buffer[o].size
                 before == at[k - 1]
                 after  == at[k]
      <4> HIDE DEF length, before, after
      <4>4. o + length <= after
        BY <4>2, <4>3 DEF length, before, after
      <4> QED BY <4>2, <4>4 DEF length, after
    <3>2. \A o \in kept : bytes[o] = message.buffer[o]
      BY <1>10
    <3> QED BY <3>1, <3>2
  <2>3. at[k - 1] + bytes[at[k - 1]].size <= at[k] /\ bytes[at[k - 1]].size \in Nat \ {0}
    BY <1>1, <1>2, <1>10, <2>1
  <2>4. \A o \in DOMAIN bytes : /\ o \in Nat /\ bytes[o].size \in Nat \ {0}
                                /\ o + bytes[o].size <= at[k]
    BY <1>2, <1>10, <2>2, <2>3
  <2> QED BY <1>10, <2>4 DEF Within, Bytes
<1>12. Holds(bytes, object, fields, at, k)
  <2> SUFFICES ASSUME NEW j \in 1..k
               PROVE  at[j - 1] \in DOMAIN bytes /\ bytes[at[j - 1]] = Written(object, fields[j])
    BY DEF Holds
  <2>1. CASE j = k
    BY <1>10, <2>1
  <2>2. CASE j \in 1..(k - 1)
    BY <1>5, <1>10, <2>2 DEF Laid, Holds
  <2> QED BY <1>1, <2>1, <2>2
<1> QED BY <1>2, <1>4, <1>6, <1>11, <1>12 DEF Laid

(* An object whose fields were added to an empty buffer lies in it.        *)
LEMMA AddedLayout ==
  ASSUME NEW fields, Fields(fields), NEW at, Offsets(fields, at), NEW object,
         MaxLength \in Nat, at[Len(fields)] < MaxLength
  PROVE  Laid(AddFields(EmptyBuffer, object, fields), Len(fields), object, fields, at)
<1>0. Len(fields) \in Nat
  BY DEF Fields
<1>1. PICK added :
        /\ added[0] = EmptyBuffer
        /\ \A k \in 1..Len(fields) : added[k] = AddField(object, added[k - 1], fields[k])
        /\ AddFields(EmptyBuffer, object, fields) = added[Len(fields)]
  BY <1>0, AddFieldsSteps
<1> DEFINE S == {k \in Nat : k <= Len(fields) => Laid(added[k], k, object, fields, at)}
<1>2. 0 \in S
  <2>1. EmptyBuffer.pos = 0 /\ EmptyBuffer.length = 0 /\ Within(EmptyBuffer.buffer, 0)
    BY DEF EmptyBuffer, NoBytes, Within, Bytes
  <2>2. 1..0 = {}
    OBVIOUS
  <2>3. Laid(EmptyBuffer, 0, object, fields, at)
    BY <2>1, <2>2 DEF Laid, Offsets, Holds
  <2> QED BY <1>1, <2>3
<1>3. ASSUME NEW k \in Nat, k \in S PROVE k + 1 \in S
  <2> SUFFICES ASSUME k + 1 <= Len(fields)
               PROVE  Laid(added[k + 1], k + 1, object, fields, at)
    OBVIOUS
  <2> DEFINE j == k + 1
  <2>1. j \in 1..Len(fields) /\ j - 1 = k
    BY <1>0
  <2>2. Laid(added[k], k, object, fields, at)
    BY <1>0, <1>3
  <2> HIDE DEF j
  <2>3. Laid(added[j - 1], j - 1, object, fields, at)
    BY <2>1, <2>2
  <2>4. Laid(AddField(object, added[j - 1], fields[j]), j, object, fields, at)
    BY <2>1, <2>3, AddedField
  <2>5. Laid(added[j], j, object, fields, at)
    BY <1>1, <2>1, <2>4
  <2> QED BY <2>5 DEF j
<1>4. Nat \subseteq S
  <2> HIDE DEF S
  <2> QED BY <1>2, <1>3, SetInduction
<1> QED BY <1>0, <1>1, <1>4

(* A buffer of some length holds the fields of an object, which another    *)
(* object has too.                                                         *)
Readable(bytes, length, object, other, fields, at) ==
    /\ Fields(fields) /\ Offsets(fields, at) /\ Distinct(fields)
    /\ \A i \in 1..Len(fields) : fields[i][1] \in DOMAIN other
    /\ length \in Nat /\ at[Len(fields)] <= length
    /\ Holds(bytes, object, fields, at, Len(fields))

(* The other object with the first n fields read into it. *)
HasRead(state, n, bytes, length, object, other, fields, at) ==
    /\ state.message = [buffer |-> bytes, pos |-> at[n], length |-> length]
    /\ DOMAIN state.object = DOMAIN other
    /\ \A i \in 1..n : state.object[fields[i][1]] = object[fields[i][1]]
    /\ \A x \in DOMAIN other :
          (\A i \in 1..n : fields[i][1] # x) => state.object[x] = other[x]

(* Reading the fields of a buffer that holds an object, into another one:  *)
(* it gets their values and keeps what it has besides.                     *)
LEMMA ReadLayout ==
  ASSUME NEW bytes, NEW length, NEW object, NEW other, NEW fields, NEW at,
         Readable(bytes, length, object, other, fields, at)
  PROVE  HasRead(ReadFields([buffer |-> bytes, pos |-> 0, length |-> length], other, fields),
                 Len(fields), bytes, length, object, other, fields, at)
<1> USE DEF Readable, HasRead
<1>0. Len(fields) \in Nat
  BY DEF Fields
<1> DEFINE message == [buffer |-> bytes, pos |-> 0, length |-> length]
<1> HIDE DEF message
<1>1. PICK read :
        /\ read[0] = [message |-> message, object |-> other]
        /\ \A k \in 1..Len(fields) : read[k] = ReadField(read[k - 1], fields[k])
        /\ ReadFields(message, other, fields) = read[Len(fields)]
  BY <1>0, ReadFieldsSteps
<1> USE DEF message
<1> DEFINE Got(state, k) == HasRead(state, k, bytes, length, object, other, fields, at)
           S == {k \in Nat : k <= Len(fields) => Got(read[k], k)}
<1>2. 0 \in S
  <2>1. at[0] = 0
    BY DEF Offsets
  <2>2. 1..0 = {}
    OBVIOUS
  <2> QED BY <1>1, <2>1, <2>2
<1>3. ASSUME NEW k \in Nat, k \in S PROVE k + 1 \in S
  <2> SUFFICES ASSUME k + 1 <= Len(fields) PROVE Got(read[k + 1], k + 1)
    OBVIOUS
  <2> DEFINE name == fields[k + 1][1]
             size == fields[k + 1][2]
             state == read[k]
  <2>1. /\ k + 1 \in 1..Len(fields) /\ (k + 1) - 1 = k
        /\ k \in 0..Len(fields) /\ k + 1 \in 0..Len(fields)
    BY <1>0
  <2>2. Got(state, k)
    BY <1>0, <1>3
  <2>3. read[k + 1] = ReadField(state, fields[k + 1])
    BY <1>1, <2>1
  <2>4. size \in Nat /\ at[k] \in Nat /\ at[k + 1] = at[k] + size
    BY <2>1 DEF Fields, Offsets
  <2>5. at[k + 1] <= at[Len(fields)] /\ at[Len(fields)] \in Nat
    <3>1. Len(fields) \in 0..Len(fields)
      BY <1>0
    <3>2. k + 1 \in 0..Len(fields)
      BY <2>1
    <3>3. at[Len(fields)] \in Nat
      BY <3>1 DEF Offsets
    <3> QED BY <3>1, <3>2, <3>3, OffsetsGrow
  <2>6. /\ state.message.pos = at[k] /\ state.message.length = length
        /\ state.message.buffer = bytes
    BY <2>2
  <2>7. CanRead(state.message, size)
    BY <2>4, <2>5, <2>6 DEF CanRead
  <2>8. ReadValue(state.message, size) = object[name]
    <3>1. at[k] \in DOMAIN bytes /\ bytes[at[k]] = Written(object, fields[k + 1])
      BY <2>1 DEF Holds
    <3> QED BY <2>6, <3>1 DEF ReadValue, Written
  <2>9. read[k + 1] = [message |-> Skip(state.message, size),
                       object |-> [state.object EXCEPT ![name] = object[name]]]
    BY <2>3, <2>7, <2>8 DEF ReadField
  <2>10. Skip(state.message, size) = [buffer |-> bytes, pos |-> at[k + 1], length |-> length]
    BY <2>2, <2>4, <2>6 DEF Skip
  <2>11. name \in DOMAIN state.object
    BY <2>1, <2>2
  <2> DEFINE after == [state.object EXCEPT ![name] = object[name]]
  <2>12. DOMAIN after = DOMAIN other
    BY <2>2
  <2>13. \A i \in 1..(k + 1) : after[fields[i][1]] = object[fields[i][1]]
    <3> SUFFICES ASSUME NEW i \in 1..(k + 1)
                 PROVE  after[fields[i][1]] = object[fields[i][1]]
      OBVIOUS
    <3>1. CASE i = k + 1
      BY <2>11, <3>1
    <3>2. CASE i # k + 1
      <4>1. i \in 1..k /\ i \in 1..Len(fields)
        BY <1>0, <3>2
      <4>2. fields[i][1] # name /\ fields[i][1] \in DOMAIN state.object
        BY <2>1, <2>2, <3>2, <4>1 DEF Distinct
      <4> QED BY <2>2, <4>1, <4>2
    <3> QED BY <3>1, <3>2
  <2>14. ASSUME NEW x \in DOMAIN other, \A i \in 1..(k + 1) : fields[i][1] # x
         PROVE  after[x] = other[x]
    <3>1. x # name /\ \A i \in 1..k : fields[i][1] # x
      BY <2>14
    <3> QED BY <2>2, <3>1
  <2> HIDE DEF after
  <2> QED BY <2>9, <2>10, <2>12, <2>13, <2>14 DEF after
<1>4. Got(read[Len(fields)], Len(fields))
  <2>1. Nat \subseteq S
    <3> HIDE DEF S
    <3> QED BY <1>2, <1>3, SetInduction
  <2> QED BY <1>0, <2>1
<1> QED BY <1>1, <1>4

-----------------------------------------------------------------------------
(* The two lists of fields: of the header and of the payload. *)

HeaderAt == [k \in 0..8 |-> <<0, 4, 5, 9, 13, 21, 22, 30, 34>>[k + 1]]
PayloadAt == [k \in 0..9 |-> <<0, 4, 12, 16, 20, 24, 40, 56, 72, 136>>[k + 1]]

LEMMA HeaderLayout ==
  /\ Fields(HeaderFields) /\ Len(HeaderFields) = 8
  /\ Offsets(HeaderFields, HeaderAt) /\ HeaderAt[8] = 34
  /\ Distinct(HeaderFields)
<1> USE DEF HeaderFields
<1>1. Len(HeaderFields) = 8 /\ Fields(HeaderFields)
  BY DEF Fields
<1>2. HeaderAt[0] = 0 /\ HeaderAt[8] = 34 /\ \A k \in 0..8 : HeaderAt[k] \in Nat
  BY DEF HeaderAt
<1>3. \A k \in 1..8 : HeaderAt[k] = HeaderAt[k - 1] + HeaderFields[k][2]
  BY DEF HeaderAt
<1>4. Distinct(HeaderFields)
  BY <1>1 DEF Distinct
<1> QED BY <1>1, <1>2, <1>3, <1>4 DEF Offsets

(* The payload's list is put together from two. *)
LEMMA TwoAndSeven ==
  ASSUME NEW a, NEW b, NEW c, NEW d, NEW e, NEW f, NEW g, NEW h, NEW i
  PROVE  <<a, b>> \o <<c, d, e, f, g, h, i>> = <<a, b, c, d, e, f, g, h, i>>
<1> DEFINE S == {a, b, c, d, e, f, g, h, i}
           p == <<a, b>>
           q == <<c, d, e, f, g, h, i>>
           r == <<a, b, c, d, e, f, g, h, i>>
<1>1. Len(p) = 2 /\ Len(q) = 7 /\ Len(r) = 9
  OBVIOUS
<1>2. p \in Seq(S) /\ q \in Seq(S) /\ r \in Seq(S)
  <2>1. /\ a \in S /\ b \in S /\ c \in S /\ d \in S /\ e \in S /\ f \in S
        /\ g \in S /\ h \in S /\ i \in S
    OBVIOUS
  <2> HIDE DEF S
  <2> QED BY <2>1
<1>3. \A k \in 1..9 : r[k] = IF k <= 2 THEN p[k] ELSE q[k - 2]
  OBVIOUS
<1> HIDE DEF p, q, r, S
<1>4. /\ p \o q \in Seq(S) /\ Len(p \o q) = Len(p) + Len(q)
      /\ \A k \in 1..Len(p) + Len(q) :
            (p \o q)[k] = IF k <= Len(p) THEN p[k] ELSE q[k - Len(p)]
  BY <1>2, ConcatProperties
<1> DEFINE both == p \o q
<1> HIDE DEF both
<1>5. /\ both \in Seq(S) /\ Len(both) = 9
      /\ \A k \in 1..9 : both[k] = IF k <= 2 THEN p[k] ELSE q[k - 2]
  <2>1. both \in Seq(S) /\ Len(both) = 9
    BY <1>1, <1>4 DEF both
  <2>2. 1..Len(p) + Len(q) = 1..9 /\ Len(p) = 2
    BY <1>1
  <2>3. \A k \in 1..9 : both[k] = IF k <= 2 THEN p[k] ELSE q[k - 2]
    BY <1>4, <2>2, Zenon DEF both
  <2> QED BY <2>1, <2>3
<1>6. ASSUME NEW k \in 1..Len(both) PROVE both[k] = r[k]
  <2>1. k \in 1..9
    BY <1>5
  <2>2. both[k] = IF k <= 2 THEN p[k] ELSE q[k - 2]
    BY <1>5, <2>1
  <2>3. r[k] = IF k <= 2 THEN p[k] ELSE q[k - 2]
    BY <1>3, <2>1
  <2> QED BY <2>2, <2>3
<1>7. both = r
  BY <1>1, <1>2, <1>5, <1>6, SeqEqual
<1> QED BY <1>7 DEF both, p, q, r

LEMMA PayloadLayout ==
  /\ Fields(PayloadFields) /\ Len(PayloadFields) = 9
  /\ Offsets(PayloadFields, PayloadAt) /\ PayloadAt[9] = 136
  /\ Distinct(PayloadFields)
<1> DEFINE fields == <<<<"object_size", 4>>, <<"object_deadline", 8>>,
                       <<"data_connection_priority", 4>>, <<"measurement_id", 4>>,
                       <<"rm_client_action", 4>>, <<"timestamp_stop", 16>>,
                       <<"timestamp_reconfig", 16>>, <<"timestamp_start", 16>>,
                       <<"resource_request_struct", 64>>>>
<1>1. PayloadFields = fields
  BY TwoAndSeven DEF PayloadFields, BasicPayloadFields
<1>2. Len(fields) = 9 /\ Fields(fields)
  BY DEF Fields
<1>3. PayloadAt[0] = 0 /\ PayloadAt[9] = 136 /\ \A k \in 0..9 : PayloadAt[k] \in Nat
  BY DEF PayloadAt
<1>4. \A k \in 1..9 : PayloadAt[k] = PayloadAt[k - 1] + fields[k][2]
  BY DEF PayloadAt
<1>5. Distinct(fields)
  BY <1>2 DEF Distinct
<1> QED BY <1>1, <1>2, <1>3, <1>4, <1>5 DEF Offsets

-----------------------------------------------------------------------------
(* Blocks of bytes. *)

LEMMA FirstBlock ==
  ASSUME NEW bytes, Bytes(bytes), NEW size \in Nat
  PROVE  Block(bytes, 0, size)
            = [o \in {x \in DOMAIN bytes : x + bytes[x].size <= size} |-> bytes[o]]
<1> DEFINE inside == {o \in DOMAIN bytes : 0 <= o /\ o + bytes[o].size <= 0 + size}
           cells == {x \in DOMAIN bytes : x + bytes[x].size <= size}
<1>1. inside = cells
  BY DEF Bytes
<1>2. \A o \in cells : o - 0 = o /\ o + 0 = o
  BY DEF Bytes
<1>3. {o - 0 : o \in inside} = cells
  BY <1>1, <1>2
<1>4. Block(bytes, 0, size) = [b \in {o - 0 : o \in inside} |-> bytes[b + 0]]
  BY DEF Block
<1> HIDE DEF inside, cells
<1>5. Block(bytes, 0, size) = [b \in cells |-> bytes[b + 0]]
  BY <1>3, <1>4
<1>6. [b \in cells |-> bytes[b + 0]] = [b \in cells |-> bytes[b]]
  BY <1>2
<1> QED BY <1>5, <1>6 DEF cells

LEMMA BlockWithin ==
  ASSUME NEW bytes, Bytes(bytes), NEW size \in Nat
  PROVE  Within(Block(bytes, 0, size), size)
<1> DEFINE cells == {x \in DOMAIN bytes : x + bytes[x].size <= size}
           block == [o \in cells |-> bytes[o]]
<1>1. Block(bytes, 0, size) = block
  BY FirstBlock
<1>2. DOMAIN block = cells /\ block = [o \in DOMAIN block |-> block[o]]
  OBVIOUS
<1>3. \A o \in cells : /\ block[o] = bytes[o] /\ o \in Nat /\ bytes[o].size \in Nat \ {0}
                       /\ o + bytes[o].size <= size
  BY DEF Bytes
<1> HIDE DEF block, cells
<1>4. Within(block, size)
  BY <1>2, <1>3 DEF Within, Bytes
<1> QED BY <1>1, <1>4

LEMMA WholeBlock ==
  ASSUME NEW size \in Nat, NEW bytes, Within(bytes, size)
  PROVE  Block(bytes, 0, size) = bytes
<1>1. {x \in DOMAIN bytes : x + bytes[x].size <= size} = DOMAIN bytes
  BY DEF Within
<1>2. Bytes(bytes) /\ bytes = [o \in DOMAIN bytes |-> bytes[o]]
  BY DEF Within, Bytes
<1>3. Block(bytes, 0, size)
         = [o \in {x \in DOMAIN bytes : x + bytes[x].size <= size} |-> bytes[o]]
  BY <1>2, FirstBlock
<1> QED BY <1>1, <1>2, <1>3

(* What is copied over the beginning of other bytes is found there again.  *)
LEMMA BlockOverwritten ==
  ASSUME NEW old, Bytes(old), NEW size \in Nat, NEW block, Within(block, size)
  PROVE  LET bytes == Overwrite(old, 0, size, block)
         IN  Bytes(bytes) /\ Block(bytes, 0, size) = block
<1> DEFINE kept == {o \in DOMAIN old : o >= 0 + size \/ o + old[o].size <= 0}
           bytes == Overwrite(old, 0, size, block)
<1>1. \A o \in kept : o \in Nat /\ o >= size /\ o \in DOMAIN old /\ old[o].size \in Nat \ {0}
  BY DEF Bytes
<1>2. \A o \in DOMAIN block : /\ o \in Nat /\ block[o].size \in Nat \ {0}
                              /\ o + block[o].size <= size
  BY DEF Within, Bytes
<1>3. \A o \in DOMAIN block : o \notin kept /\ 0 + o = o /\ o - 0 = o
  BY <1>1, <1>2
<1>4. {0 + b : b \in DOMAIN block} = DOMAIN block
  BY <1>3
<1>5. bytes = [o \in kept \cup {0 + b : b \in DOMAIN block} |->
                  IF o \in kept THEN old[o] ELSE block[o - 0]]
  BY DEF Overwrite
<1> HIDE DEF kept, bytes
<1>6. DOMAIN bytes = kept \cup DOMAIN block
  BY <1>4, <1>5
<1>7. /\ \A o \in kept : bytes[o] = old[o]
      /\ \A o \in DOMAIN block : bytes[o] = block[o]
  BY <1>3, <1>4, <1>5
<1>8. bytes = [o \in DOMAIN bytes |-> bytes[o]]
  BY <1>5
<1>9. Bytes(bytes)
  BY <1>1, <1>2, <1>6, <1>7, <1>8 DEF Bytes
<1>10. {x \in DOMAIN bytes : x + bytes[x].size <= size} = DOMAIN block
  <2>1. \A o \in kept : ~(o + bytes[o].size <= size)
    BY <1>1, <1>7
  <2>2. \A o \in DOMAIN block : o + bytes[o].size <= size
    BY <1>2, <1>7
  <2> QED BY <1>6, <2>1, <2>2
<1>11. Block(bytes, 0, size) = [o \in DOMAIN block |-> bytes[o]]
  <2> DEFINE cells == {x \in DOMAIN bytes : x + bytes[x].size <= size}
  <2>1. Block(bytes, 0, size) = [o \in cells |-> bytes[o]]
    BY <1>9, FirstBlock
  <2>2. cells = DOMAIN block
    BY <1>10
  <2> HIDE DEF cells
  <2> QED BY <2>1, <2>2
<1>12. [o \in DOMAIN block |-> bytes[o]] = block
  BY <1>7 DEF Within, Bytes
<1> QED BY <1>9, <1>11, <1>12 DEF bytes

-----------------------------------------------------------------------------
(* Messages. *)

HeaderNames ==
    {"message_type", "priority", "source_id", "destination_id", "service_id", "mode",
     "time_stamp", "protocol_id"}

(* A message that can be sent, or read into: its payload are bytes. *)
IsMessage(object) ==
    /\ HeaderNames \cup {"payload", "payload_size"} \subseteq DOMAIN object
    /\ Bytes(object.payload)
    /\ object.payload_size \in Nat

(* A message that fits into a buffer. *)
Fits(object) == IsMessage(object) /\ 34 + object.payload_size < MaxLength

(* What sendout_control_message sends. *)
Datagram(object) ==
    LET message == RMToNetwork(object)
    IN  [buffer |-> Block(message.buffer, 0, message.length), length |-> message.length]

(* What becomes of an old message that the datagram of an object is read   *)
(* into.                                                                   *)
Received(object, old) ==
    NetworkToRM(old, [buffer |-> Datagram(object).buffer, pos |-> 0,
                      length |-> Datagram(object).length])

LEMMA HeaderNamesListed ==
  /\ \A k \in 1..8 : HeaderFields[k][1] \in HeaderNames
  /\ \A name \in HeaderNames : \E k \in 1..8 : HeaderFields[k][1] = name
<1>1. /\ HeaderFields[1][1] = "message_type" /\ HeaderFields[2][1] = "priority"
      /\ HeaderFields[3][1] = "source_id" /\ HeaderFields[4][1] = "destination_id"
      /\ HeaderFields[5][1] = "service_id" /\ HeaderFields[6][1] = "mode"
      /\ HeaderFields[7][1] = "time_stamp" /\ HeaderFields[8][1] = "protocol_id"
  BY DEF HeaderFields
<1>2. \A k \in 1..8 : k = 1 \/ k = 2 \/ k = 3 \/ k = 4 \/ k = 5 \/ k = 6 \/ k = 7 \/ k = 8
  OBVIOUS
<1>3. \A k \in 1..8 : HeaderFields[k][1] \in HeaderNames
  BY <1>1, <1>2 DEF HeaderNames
<1>4. \A name \in HeaderNames : \E k \in 1..8 : HeaderFields[k][1] = name
  BY <1>1 DEF HeaderNames
<1> QED BY <1>3, <1>4

(* The datagram of a message: the header, and its payload behind it. *)
LEMMA DatagramLayout ==
  ASSUME NEW object, Fits(object), MaxLength \in Nat
  PROVE  LET d == Datagram(object)
         IN  /\ d.length = 34 + object.payload_size
             /\ Holds(d.buffer, object, HeaderFields, HeaderAt, 8)
             /\ Block(d.buffer, 34, object.payload_size)
                    = Block(object.payload, 0, object.payload_size)
<1> DEFINE header == AddFields(EmptyBuffer, object, HeaderFields)
           size == object.payload_size
           block == Block(object.payload, 0, size)
           kept == {o \in DOMAIN header.buffer :
                        o >= 34 + size \/ o + header.buffer[o].size <= 34}
           bytes == Overwrite(header.buffer, 34, size, block)
<1>1. size \in Nat /\ 34 + size < MaxLength /\ Bytes(object.payload)
  BY DEF Fits, IsMessage
<1>2. /\ header.pos = 34 /\ header.length = 34 /\ Within(header.buffer, 34)
      /\ Holds(header.buffer, object, HeaderFields, HeaderAt, 8)
  <2>1. HeaderAt[Len(HeaderFields)] < MaxLength
    BY <1>1, HeaderLayout
  <2>2. Laid(header, 8, object, HeaderFields, HeaderAt)
    BY <2>1, HeaderLayout, AddedLayout
  <2> QED BY <2>2, HeaderLayout DEF Laid
<1>3. Within(block, size)
  BY <1>1, BlockWithin
<1>4. \A o \in DOMAIN block : /\ o \in Nat /\ block[o].size \in Nat \ {0}
                              /\ o + block[o].size <= size
  BY <1>3 DEF Within, Bytes
<1>5. \A o \in DOMAIN header.buffer : /\ o \in Nat /\ header.buffer[o].size \in Nat \ {0}
                                      /\ o + header.buffer[o].size <= 34
  BY <1>2 DEF Within, Bytes
<1>6. kept = DOMAIN header.buffer
  BY <1>5
<1>7. RMToNetwork(object) = [buffer |-> bytes, pos |-> 34 + size, length |-> 34 + size]
  BY <1>1, <1>2 DEF RMToNetwork, AddBytes
<1>8. bytes = [o \in kept \cup {34 + b : b \in DOMAIN block} |->
                  IF o \in kept THEN header.buffer[o] ELSE block[o - 34]]
  BY DEF Overwrite
<1> HIDE DEF kept, bytes, block, header
<1>9. \A b \in DOMAIN block : 34 + b \notin kept /\ (34 + b) - 34 = b /\ 34 + b \in Nat
  BY <1>4, <1>5, <1>6
<1>10. /\ DOMAIN bytes = kept \cup {34 + b : b \in DOMAIN block}
       /\ \A o \in kept : bytes[o] = header.buffer[o]
       /\ \A b \in DOMAIN block : bytes[34 + b] = block[b]
  BY <1>8, <1>9
<1>11. Within(bytes, 34 + size)
  <2>1. ASSUME NEW o \in kept
        PROVE  o \in Nat /\ bytes[o].size \in Nat \ {0} /\ o + bytes[o].size <= 34 + size
    BY <1>1, <1>5, <1>6, <1>10
  <2>2. ASSUME NEW b \in DOMAIN block
        PROVE  /\ 34 + b \in Nat /\ bytes[34 + b].size \in Nat \ {0}
               /\ (34 + b) + bytes[34 + b].size <= 34 + size
    BY <1>1, <1>4, <1>10
  <2>3. bytes = [o \in DOMAIN bytes |-> bytes[o]]
    BY <1>8
  <2>4. \A o \in DOMAIN bytes : /\ o \in Nat /\ bytes[o].size \in Nat \ {0}
                                /\ o + bytes[o].size <= 34 + size
    BY <1>10, <2>1, <2>2
  <2> QED BY <2>3, <2>4 DEF Within, Bytes
<1>12. Datagram(object) = [buffer |-> bytes, length |-> 34 + size]
  BY <1>1, <1>7, <1>11, WholeBlock DEF Datagram
<1>13. Holds(bytes, object, HeaderFields, HeaderAt, 8)
  BY <1>2, <1>6, <1>10 DEF Holds
<1>14. Block(bytes, 34, size) = block
  <2> DEFINE inside == {o \in DOMAIN bytes : 34 <= o /\ o + bytes[o].size <= 34 + size}
  <2>1. inside = {34 + b : b \in DOMAIN block}
    <3>1. \A o \in kept : ~(34 <= o)
      BY <1>5, <1>6
    <3>2. \A b \in DOMAIN block : 34 <= 34 + b /\ (34 + b) + bytes[34 + b].size <= 34 + size
      BY <1>1, <1>4, <1>10
    <3> QED BY <1>10, <3>1, <3>2
  <2>2. {o - 34 : o \in inside} = DOMAIN block
    <3>1. \A b \in DOMAIN block : 34 + b \in inside /\ (34 + b) - 34 = b
      BY <1>9, <2>1
    <3>2. \A o \in inside : \E b \in DOMAIN block : o = 34 + b
      BY <2>1
    <3> HIDE DEF inside
    <3>3. \A o \in inside : o - 34 \in DOMAIN block
      BY <3>1, <3>2
    <3>4. \A b \in DOMAIN block : b \in {o - 34 : o \in inside}
      BY <3>1
    <3> QED BY <3>3, <3>4
  <2>3. Block(bytes, 34, size) = [b \in {o - 34 : o \in inside} |-> bytes[b + 34]]
    BY DEF Block
  <2>4. \A b \in DOMAIN block : bytes[b + 34] = block[b]
    BY <1>4, <1>10
  <2> HIDE DEF inside
  <2>5. Block(bytes, 34, size) = [b \in DOMAIN block |-> block[b]]
    BY <2>2, <2>3, <2>4
  <2> QED BY <1>3, <2>5 DEF Within, Bytes
<1> QED BY <1>12, <1>13, <1>14 DEF block

(* The datagram of a message, read into any other: it gets the header and  *)
(* the payload of the one that was sent.                                   *)
LEMMA MessageReceived ==
  ASSUME NEW object, Fits(object), MaxLength \in Nat, NEW old, IsMessage(old)
  PROVE  LET new == Received(object, old)
         IN  /\ IsMessage(new)
             /\ \A name \in HeaderNames : new[name] = object[name]
             /\ new.payload_size = object.payload_size
             /\ Block(new.payload, 0, new.payload_size)
                    = Block(object.payload, 0, object.payload_size)
<1> DEFINE d == Datagram(object)
           size == object.payload_size
           block == Block(object.payload, 0, size)
           message == [buffer |-> d.buffer, pos |-> 0, length |-> d.length]
           header == ReadFields(message, old, HeaderFields)
           new == NetworkToRM(old, message)
           bytes == Overwrite(old.payload, 0, size, block)
<1>1. size \in Nat /\ Bytes(object.payload)
  BY DEF Fits, IsMessage
<1>2. d.length = 34 + size /\ Holds(d.buffer, object, HeaderFields, HeaderAt, 8)
      /\ Block(d.buffer, 34, size) = block
  BY DatagramLayout
<1>3. \A i \in 1..8 : HeaderFields[i][1] \in DOMAIN old
  BY HeaderNamesListed DEF IsMessage
<1> HIDE DEF d, block
<1>4. /\ header.message = [buffer |-> d.buffer, pos |-> 34, length |-> d.length]
      /\ DOMAIN header.object = DOMAIN old
      /\ \A i \in 1..8 : header.object[HeaderFields[i][1]] = object[HeaderFields[i][1]]
      /\ \A x \in DOMAIN old :
            (\A i \in 1..8 : HeaderFields[i][1] # x) => header.object[x] = old[x]
  <2>1. Readable(d.buffer, d.length, object, old, HeaderFields, HeaderAt)
    BY <1>1, <1>2, <1>3, HeaderLayout DEF Readable
  <2>2. HasRead(header, 8, d.buffer, d.length, object, old, HeaderFields, HeaderAt)
    BY <2>1, HeaderLayout, ReadLayout
  <2> HIDE DEF header
  <2> QED BY <2>2, HeaderLayout DEF HasRead
<1> HIDE DEF header
<1>5. \A name \in HeaderNames : header.object[name] = object[name]
  BY <1>4, HeaderNamesListed
<1>6. header.object.payload = old.payload
  BY <1>4, HeaderNamesListed DEF HeaderNames, IsMessage
<1>7. header.message.length - header.message.pos = size
  BY <1>1, <1>2, <1>4
<1>8. ReadBytes(header.message, size) = block
  BY <1>2, <1>4 DEF ReadBytes
<1>9. new = [header.object EXCEPT !.payload = bytes, !.payload_size = size]
  BY <1>6, <1>7, <1>8 DEF NetworkToRM, header
<1>10. Bytes(bytes) /\ Block(bytes, 0, size) = block
  <2>1. Within(block, size)
    BY <1>1, BlockWithin DEF block
  <2>2. Bytes(old.payload)
    BY DEF IsMessage
  <2> QED BY <1>1, <2>1, <2>2, BlockOverwritten
<1> HIDE DEF bytes, new
<1>11. /\ DOMAIN new = DOMAIN old /\ new.payload = bytes /\ new.payload_size = size
       /\ \A name \in HeaderNames : new[name] = object[name]
  BY <1>4, <1>5, <1>9 DEF HeaderNames, IsMessage
<1>12. IsMessage(new)
  BY <1>1, <1>10, <1>11 DEF IsMessage
<1> QED BY <1>10, <1>11, <1>12 DEF new, block, message, d, Received

-----------------------------------------------------------------------------
(* Payloads. *)

PayloadNames ==
    {"object_size", "object_deadline", "data_connection_priority", "measurement_id",
     "rm_client_action", "timestamp_stop", "timestamp_reconfig", "timestamp_start",
     "resource_request_struct"}

LEMMA PayloadNamesListed ==
  /\ \A k \in 1..9 : PayloadFields[k][1] \in PayloadNames
  /\ \A name \in PayloadNames : \E k \in 1..9 : PayloadFields[k][1] = name
<1>1. PayloadFields =
        <<<<"object_size", 4>>, <<"object_deadline", 8>>,
          <<"data_connection_priority", 4>>, <<"measurement_id", 4>>,
          <<"rm_client_action", 4>>, <<"timestamp_stop", 16>>,
          <<"timestamp_reconfig", 16>>, <<"timestamp_start", 16>>,
          <<"resource_request_struct", 64>>>>
  BY TwoAndSeven DEF PayloadFields, BasicPayloadFields
<1>2. /\ PayloadFields[1][1] = "object_size" /\ PayloadFields[2][1] = "object_deadline"
      /\ PayloadFields[3][1] = "data_connection_priority"
      /\ PayloadFields[4][1] = "measurement_id" /\ PayloadFields[5][1] = "rm_client_action"
      /\ PayloadFields[6][1] = "timestamp_stop" /\ PayloadFields[7][1] = "timestamp_reconfig"
      /\ PayloadFields[8][1] = "timestamp_start"
      /\ PayloadFields[9][1] = "resource_request_struct"
  BY <1>1
<1>3. \A k \in 1..9 : k = 1 \/ k = 2 \/ k = 3 \/ k = 4 \/ k = 5 \/ k = 6 \/ k = 7 \/ k = 8 \/ k = 9
  OBVIOUS
<1>4. \A k \in 1..9 : PayloadFields[k][1] \in PayloadNames
  BY <1>2, <1>3 DEF PayloadNames
<1>5. \A name \in PayloadNames : \E k \in 1..9 : PayloadFields[k][1] = name
  BY <1>2 DEF PayloadNames
<1> QED BY <1>4, <1>5

(* A payload's buffer. *)
LEMMA Serialized ==
  ASSUME NEW payload, MaxLength \in Nat, 136 < MaxLength
  PROVE  LET message == Serialize(payload)
         IN  /\ message.length = 136 /\ Within(message.buffer, 136)
             /\ Holds(message.buffer, payload, PayloadFields, PayloadAt, 9)
<1> DEFINE message == Serialize(payload)
<1>1. PayloadAt[Len(PayloadFields)] < MaxLength
  BY PayloadLayout
<1>2. Laid(message, 9, payload, PayloadFields, PayloadAt)
  BY <1>1, PayloadLayout, AddedLayout DEF Serialize
<1> QED BY <1>2, PayloadLayout DEF Laid

(* Bytes put into an empty buffer. *)
LEMMA OverwrittenNothing ==
  ASSUME NEW bytes, Bytes(bytes), NEW size
  PROVE  Overwrite(NoBytes, 0, size, bytes) = bytes
<1>1. Overwrite(NoBytes, 0, size, bytes)
         = [o \in {0 + b : b \in DOMAIN bytes} |-> bytes[o - 0]]
  BY DEF Overwrite, NoBytes
<1>2. \A o \in DOMAIN bytes : 0 + o = o /\ o - 0 = o
  BY DEF Bytes
<1>3. {0 + b : b \in DOMAIN bytes} = DOMAIN bytes
  BY <1>2
<1>4. Overwrite(NoBytes, 0, size, bytes) = [o \in DOMAIN bytes |-> bytes[o]]
  BY <1>1, <1>2, <1>3
<1> QED BY <1>4 DEF Bytes

(* A client reads the payload's fields from the message it received. *)
LEMMA PayloadReceived ==
  ASSUME MaxLength \in Nat, 136 < MaxLength, NEW payload, NEW object,
         object.payload_size = 136,
         Block(object.payload, 0, 136) = Serialize(payload).buffer
  PROVE  \A name \in PayloadNames : ReceivedPayload(object)[name] = payload[name]
<1> DEFINE bytes == Serialize(payload).buffer
           other == RMPayload("IDLE", Zero, Zero, Zero)
<1>1. Bytes(bytes) /\ Holds(bytes, payload, PayloadFields, PayloadAt, 9)
  BY Serialized DEF Within
<1>2. AddBytes(EmptyBuffer, bytes, 136) = [buffer |-> bytes, pos |-> 136, length |-> 136]
  <2>1. EmptyBuffer.pos = 0 /\ EmptyBuffer.length = 0 /\ EmptyBuffer.buffer = NoBytes
    BY DEF EmptyBuffer
  <2> HIDE DEF bytes
  <2> QED BY <1>1, <2>1, OverwrittenNothing DEF AddBytes
<1>3. ReceivedPayload(object)
        = ReadFields([buffer |-> bytes, pos |-> 0, length |-> 136], other, PayloadFields).object
  BY <1>2 DEF ReceivedPayload, Reset, Deserialize
<1>4. \A name \in PayloadNames : name \in DOMAIN other
  BY DEF RMPayload, PayloadNames
<1> HIDE DEF bytes, other
<1> DEFINE size == 136
<1>5. Readable(bytes, size, payload, other, PayloadFields, PayloadAt)
  BY <1>1, <1>4, PayloadLayout, PayloadNamesListed DEF Readable
<1> HIDE DEF size
<1> DEFINE state == ReadFields([buffer |-> bytes, pos |-> 0, length |-> size], other,
                               PayloadFields)
<1>6. HasRead(state, Len(PayloadFields), bytes, size, payload, other, PayloadFields, PayloadAt)
  BY <1>5, ReadLayout
<1>7. ReceivedPayload(object) = state.object
  BY <1>3 DEF size
<1> HIDE DEF state
<1> QED BY <1>6, <1>7, PayloadLayout, PayloadNamesListed DEF HasRead

(* Nothing is read from an empty buffer. *)
LEMMA NothingRead ==
  ASSUME NEW fields, Fields(fields), NEW object, NEW bytes
  PROVE  ReadFields([buffer |-> bytes, pos |-> 0, length |-> 0], object, fields).object = object
<1> DEFINE message == [buffer |-> bytes, pos |-> 0, length |-> 0]
           initial == [message |-> message, object |-> object]
<1>0. Len(fields) \in Nat
  BY DEF Fields
<1> HIDE DEF message
<1>1. PICK read :
        /\ read[0] = [message |-> message, object |-> object]
        /\ \A k \in 1..Len(fields) : read[k] = ReadField(read[k - 1], fields[k])
        /\ ReadFields(message, object, fields) = read[Len(fields)]
  BY <1>0, ReadFieldsSteps
<1> DEFINE S == {k \in Nat : k <= Len(fields) => read[k] = initial}
<1>2. 0 \in S
  BY <1>1
<1>3. ASSUME NEW k \in Nat, k \in S PROVE k + 1 \in S
  <2> SUFFICES ASSUME k + 1 <= Len(fields) PROVE read[k + 1] = initial
    OBVIOUS
  <2>1. k + 1 \in 1..Len(fields) /\ (k + 1) - 1 = k /\ read[k] = initial
    BY <1>0, <1>3
  <2>2. read[k + 1] = ReadField(initial, fields[k + 1])
    BY <1>1, <2>1
  <2>3. ~CanRead(message, fields[k + 1][2])
    BY <2>1 DEF Fields, CanRead, message
  <2> QED BY <2>2, <2>3 DEF ReadField
<1>4. Nat \subseteq S
  <2> HIDE DEF S
  <2> QED BY <1>2, <1>3, SetInduction
<1> QED BY <1>0, <1>1, <1>4 DEF message

(* Without a payload the fields keep their initial values. *)
LEMMA NoPayloadReceived ==
  ASSUME MaxLength \in Nat, 0 < MaxLength, NEW object, object.payload_size = 0
  PROVE  ReceivedPayload(object) = RMPayload("IDLE", Zero, Zero, Zero)
<1> DEFINE block == Block(object.payload, 0, 0)
           bytes == Overwrite(NoBytes, 0, 0, block)
<1>1. AddBytes(EmptyBuffer, block, 0) = [buffer |-> bytes, pos |-> 0, length |-> 0]
  BY DEF AddBytes, EmptyBuffer
<1> HIDE DEF bytes
<1>2. ReceivedPayload(object)
        = ReadFields([buffer |-> bytes, pos |-> 0, length |-> 0],
                     RMPayload("IDLE", Zero, Zero, Zero), PayloadFields).object
  BY <1>1 DEF ReceivedPayload, Reset, Deserialize
<1> QED BY <1>2, NothingRead, PayloadLayout

-----------------------------------------------------------------------------
(* What is sent is what is received. *)

(* The timestamps of a message of the manager are its payload's; one       *)
(* without a payload has none.                                             *)
PlainHasNone(message) ==
    message.type \in PlainTypes =>
        message.stop = Zero /\ message.reconfig = Zero /\ message.start = Zero

LEMMA ControlMessageFits ==
  ASSUME NEW message, MaxLength \in Nat, 170 < MaxLength
  PROVE  LET object == ControlMessage(message)
         IN  /\ Fits(object)
             /\ object.message_type = message.type /\ object.mode = message.mode % 256
             /\ object.payload = Payload(message).buffer
             /\ object.payload_size = Payload(message).length
             /\ Within(Payload(message).buffer, Payload(message).length)
<1> DEFINE object == ControlMessage(message)
           payload == Payload(message)
<1>1. /\ object.message_type = message.type /\ object.mode = message.mode % 256
      /\ object.payload = payload.buffer /\ object.payload_size = payload.length
      /\ HeaderNames \cup {"payload", "payload_size"} \subseteq DOMAIN object
  BY DEF ControlMessage, ToRound, ToService, RMMessage, HeaderNames
<1>2. payload.length \in Nat /\ payload.length <= 136 /\ Within(payload.buffer, payload.length)
  <2>1. CASE message.type \in PlainTypes
    BY <2>1 DEF Payload, EmptyBuffer, NoBytes, Within, Bytes
  <2>2. CASE message.type \notin PlainTypes
    <3> DEFINE content == RMPayload(IF message.type = "RM_CLIENT_SYNC_TIMESTAMP_START"
                                    THEN "SYNC_TIMESTAMP_START" ELSE "SYNC_TIMESTAMP_RECONFGURE",
                                    message.stop, message.reconfig, message.start)
    <3>1. payload = Serialize(content)
      BY <2>2 DEF Payload
    <3> HIDE DEF content
    <3> QED BY <3>1, Serialized
  <2> QED BY <2>1, <2>2
<1> HIDE DEF object, payload
<1>3. Fits(object)
  BY <1>1, <1>2 DEF Fits, IsMessage, Within
<1> QED BY <1>1, <1>2, <1>3 DEF object, payload

(* A client that receives the datagram of a control message, into whatever *)
(* message it received before, handles the type, the mode and the          *)
(* timestamps that the manager gave the message.                           *)
THEOREM DecodedAsSent ==
  ASSUME MaxLength \in Nat, 170 < MaxLength,
         NEW message, PlainHasNone(message), NEW old, IsMessage(old)
  PROVE  LET new == Received(ControlMessage(message), old)
         IN  /\ IsMessage(new)
             /\ ClientMessage(new) =
                    [type |-> message.type, mode |-> message.mode % 256, stop |-> message.stop,
                     reconfig |-> message.reconfig, start |-> message.start]
<1> DEFINE object == ControlMessage(message)
           new == Received(object, old)
           payload == Payload(message)
           received == ReceivedPayload(new)
<1>1. /\ Fits(object) /\ object.message_type = message.type
      /\ object.mode = message.mode % 256 /\ object.payload = payload.buffer
      /\ object.payload_size = payload.length /\ Within(payload.buffer, payload.length)
  BY ControlMessageFits
<1> HIDE DEF object, payload
<1>2. /\ IsMessage(new) /\ \A name \in HeaderNames : new[name] = object[name]
      /\ new.payload_size = object.payload_size
      /\ Block(new.payload, 0, new.payload_size)
            = Block(object.payload, 0, object.payload_size)
  BY <1>1, MessageReceived
<1> HIDE DEF new
<1>3. new.message_type = message.type /\ new.mode = message.mode % 256
  BY <1>1, <1>2 DEF HeaderNames
<1>4. received.timestamp_stop = message.stop /\ received.timestamp_reconfig = message.reconfig
      /\ received.timestamp_start = message.start
  <2>1. CASE message.type \in PlainTypes
    <3>1. new.payload_size = 0
      BY <1>1, <1>2, <2>1 DEF payload, Payload, EmptyBuffer
    <3>2. received = RMPayload("IDLE", Zero, Zero, Zero)
      BY <3>1, NoPayloadReceived
    <3> QED BY <2>1, <3>2 DEF RMPayload, PlainHasNone
  <2>2. CASE message.type \notin PlainTypes
    <3> DEFINE content == RMPayload(IF message.type = "RM_CLIENT_SYNC_TIMESTAMP_START"
                                    THEN "SYNC_TIMESTAMP_START" ELSE "SYNC_TIMESTAMP_RECONFGURE",
                                    message.stop, message.reconfig, message.start)
    <3>1. payload = Serialize(content)
      BY <2>2 DEF payload, Payload
    <3>2. /\ content.timestamp_stop = message.stop /\ content.timestamp_start = message.start
          /\ content.timestamp_reconfig = message.reconfig
      BY DEF RMPayload
    <3> HIDE DEF content
    <3>3. payload.length = 136
      BY <3>1, Serialized
    <3>4. Block(payload.buffer, 0, 136) = payload.buffer
      BY <1>1, <3>3, WholeBlock
    <3>5. new.payload_size = 136 /\ Block(new.payload, 0, 136) = Serialize(content).buffer
      BY <1>1, <1>2, <3>1, <3>3, <3>4
    <3>6. \A name \in PayloadNames : received[name] = content[name]
      BY <3>5, PayloadReceived
    <3> QED BY <3>2, <3>6 DEF PayloadNames
  <2> QED BY <2>1, <2>2
<1> QED BY <1>2, <1>3, <1>4 DEF ClientMessage, new, object

(* The manager reads from a client's request who asks for which service,   *)
(* with an end node's payload and with a switch's.                         *)
THEOREM RequestDecoded ==
  ASSUME MaxLength \in Nat, 170 < MaxLength, NEW client_id, NEW service_id,
         NEW payload \in {EmptyBuffer, ResourceRequest}, NEW old, IsMessage(old)
  PROVE  LET new == Received(SyncRequest(client_id, service_id, payload), old)
         IN  IsMessage(new) /\ new.source_id = client_id /\ new.service_id = service_id
<1> DEFINE object == SyncRequest(client_id, service_id, payload)
<1>1. payload.length \in Nat /\ payload.length <= 136 /\ Bytes(payload.buffer)
  <2>1. CASE payload = EmptyBuffer
    BY <2>1 DEF EmptyBuffer, NoBytes, Bytes
  <2>2. CASE payload = ResourceRequest
    BY <2>2, Serialized DEF ResourceRequest, Within
  <2> QED BY <2>1, <2>2
<1>2. /\ object.source_id = client_id /\ object.service_id = service_id
      /\ object.payload = payload.buffer /\ object.payload_size = payload.length
      /\ HeaderNames \cup {"payload", "payload_size"} \subseteq DOMAIN object
  BY DEF SyncRequest, RMMessage, HeaderNames
<1> HIDE DEF object
<1>3. Fits(object)
  BY <1>1, <1>2 DEF Fits, IsMessage
<1>4. LET new == Received(object, old)
      IN  IsMessage(new) /\ \A name \in HeaderNames : new[name] = object[name]
  BY <1>3, MessageReceived
<1> QED BY <1>2, <1>4 DEF object, HeaderNames
=============================================================================
