--------------------------- MODULE Framing_proof ---------------------------
(***************************************************************************)
(* Proofs about Framing, for any set of scripts, any length of the strings *)
(* and any capacity of the FIFO.                                           *)
(***************************************************************************)
EXTENDS Framing, Data_proof, SequenceTheorems

Unit == Nat \X Nat

(* what is written behind a unit *)
Behind(u) == IF u[2] < script[u[1]] THEN <<u[1], u[2] + 1>> ELSE <<u[1] + 1, 0>>

TypeInv ==
  /\ script \in Scripts /\ sending \in 0 .. Len(script) /\ left \in Nat
  /\ IF sending = 0 THEN left = 0 ELSE left <= script[sending]
  /\ fifo \in Seq(Unit) /\ Len(fifo) <= CAPACITY
  /\ reading \in {"size", "text", "garbage"} /\ buf_size \in Nat
  /\ received \in Seq(Seq(Unit)) /\ Len(received) <= sending

(* a string that fits is in the FIFO as a whole or not at all *)
WriterInv == sending > 0 /\ script[sending] <= PIPE_BUF => left \in {0, script[sending]}

(* The FIFO holds a contiguous piece of what the script says, up to what was written last. *)
ChainInv ==
  /\ \A n \in 1 .. Len(fifo) : fifo[n][1] \in 1 .. sending /\ fifo[n][2] \in 0 .. script[fifo[n][1]]
  /\ \A n \in 1 .. Len(fifo) - 1 : fifo[n + 1] = Behind(fifo[n])
  /\ fifo # <<>> => fifo[Len(fifo)] = <<sending, script[sending] - left>>

(* the item read last was too long for one write() *)
Astray == Len(received) > 0 /\ script[Len(received)] > PIPE_BUF

(* What comes out next is what the reader waits for, unless it is astray. *)
ReaderInv ==
  /\ reading = "size" =>
       IF fifo = <<>> THEN sending = Len(received) /\ (left = 0 \/ Astray)
                      ELSE fifo[1] = <<Item, 0>> \/ (Astray /\ fifo[1][2] > 0)
  /\ reading = "text" =>
       /\ Item <= sending /\ buf_size = script[Item] /\ buf_size > 0
       /\ IF fifo = <<>> THEN sending = Item /\ left = script[Item] ELSE fifo[1] = <<Item, 1>>
  /\ reading = "garbage" => Astray

(* every item that fits came out as it was sent *)
WholeInv == \A i \in 1 .. Len(received) : script[i] <= PIPE_BUF => received[i] = Whole(i)

IInv == TypeInv /\ WriterInv /\ ChainInv /\ ReaderInv /\ WholeInv

LEMMA Sizes == ASSUME TypeInv PROVE /\ script \in Seq(Nat) /\ Len(script) \in Nat
                                    /\ \A i \in 1 .. Len(script) : script[i] \in Nat
                                    /\ sending \in Nat /\ (sending > 0 => script[sending] \in Nat)
BY FramingAssumption DEF TypeInv

LEMMA InitIInv == Init => IInv
<1> SUFFICES ASSUME Init PROVE IInv  OBVIOUS
<1>1. script \in Seq(Nat)  BY FramingAssumption DEF Init
<1>2. TypeInv  BY <1>1, FramingAssumption DEF Init, TypeInv
<1>3. WriterInv /\ ChainInv /\ ReaderInv /\ WholeInv
  BY <1>1 DEF Init, WriterInv, ChainInv, ReaderInv, WholeInv
<1> QED BY <1>2, <1>3 DEF IInv

(* Units, one by one. *)
LEMMA UnitsProperties ==
  ASSUME NEW i \in Nat, NEW k \in Nat, NEW l \in Nat, l + 1 >= k
  PROVE  /\ Units(i, k, l) \in Seq(Unit) /\ Len(Units(i, k, l)) = l - k + 1
         /\ \A j \in 1 .. l - k + 1 : Units(i, k, l)[j] = <<i, k + j - 1>>
<1>1. l - k + 1 \in Nat  OBVIOUS
<1>2. \A j \in 1 .. l - k + 1 : <<i, k + j - 1>> \in Unit  BY DEF Unit
<1>3. Units(i, k, l) = [j \in 1 .. l - k + 1 |-> <<i, k + j - 1>>]  BY DEF Units
<1> DEFINE n == l - k + 1
<1>4. Units(i, k, l) \in [1 .. n -> Unit]  BY <1>2, <1>3
<1>5. n \in Nat  BY <1>1
<1> HIDE DEF n
<1>6. Units(i, k, l) \in Seq(Unit) /\ Len(Units(i, k, l)) = n  BY <1>4, <1>5
<1>7. n = l - k + 1  BY DEF n
<1> QED BY <1>3, <1>6, <1>7
-----------------------------------------------------------------------------
LEMMA ChainFromParts ==
  ASSUME UNCHANGED script,
         \A n \in 1 .. Len(fifo') : fifo'[n][1] \in 1 .. sending' /\ fifo'[n][2] \in 0 .. script'[fifo'[n][1]],
         \A n \in 1 .. Len(fifo') - 1 : fifo'[n + 1] = Behind(fifo'[n]),
         fifo' # <<>> => fifo'[Len(fifo')] = <<sending', script'[sending'] - left'>>
  PROVE  ChainInv'
<1> DEFINE After(u) == IF u[2] < script'[u[1]] THEN <<u[1], u[2] + 1>> ELSE <<u[1] + 1, 0>>
<1>1. \A u : Behind(u) = After(u)  BY DEF Behind
<1>2. \A n \in 1 .. Len(fifo') - 1 : fifo'[n + 1] = After(fifo'[n])
  <2> HIDE DEF After
  <2> QED BY <1>1
<1>3. ChainInv' <=>
        /\ \A n \in 1 .. Len(fifo') : fifo'[n][1] \in 1 .. sending' /\ fifo'[n][2] \in 0 .. script'[fifo'[n][1]]
        /\ \A n \in 1 .. Len(fifo') - 1 : fifo'[n + 1] = After(fifo'[n])
        /\ (fifo' # <<>> => fifo'[Len(fifo')] = <<sending', script'[sending'] - left'>>)
  BY DEF ChainInv, Behind
<1> QED BY <1>2, <1>3, Zenon

(* What a write adds at the end. *)
Added(more) ==
  /\ more # <<>> /\ more \in Seq(Unit) /\ Len(fifo) + Len(more) <= CAPACITY
  /\ fifo' = fifo \o more
  /\ \A n \in 1 .. Len(more) :
       more[n][1] \in 1 .. sending' /\ more[n][2] \in 0 .. script[more[n][1]]
  /\ \A n \in 1 .. Len(more) - 1 : more[n + 1] = Behind(more[n])
  /\ more[Len(more)] = <<sending', script[sending'] - left'>>
  /\ sending > 0 => more[1] = Behind(<<sending, script[sending] - left>>)

LEMMA AddedChain ==
  ASSUME TypeInv, ChainInv, UNCHANGED script, sending' \in 0 .. Len(script), sending <= sending',
         NEW more, Added(more)
  PROVE  /\ fifo' \in Seq(Unit) /\ Len(fifo') <= CAPACITY /\ fifo' # <<>>
         /\ fifo'[1] = IF fifo = <<>> THEN more[1] ELSE fifo[1]
         /\ ChainInv'
<1>1. /\ fifo \in Seq(Unit) /\ more \in Seq(Unit) /\ Len(fifo) \in Nat /\ Len(more) \in Nat \ {0}
      /\ fifo' = fifo \o more
  BY DEF TypeInv, Added
<1>2. /\ fifo' \in Seq(Unit) /\ Len(fifo') = Len(fifo) + Len(more)
      /\ \A n \in 1 .. Len(fifo) : fifo'[n] = fifo[n]
      /\ \A n \in 1 .. Len(more) : fifo'[Len(fifo) + n] = more[n]
  BY <1>1
<1>3. \A n \in 1 .. Len(fifo') : n > Len(fifo) => n - Len(fifo) \in 1 .. Len(more) /\ fifo'[n] = more[n - Len(fifo)]
  <2> TAKE n \in 1 .. Len(fifo')
  <2> HAVE n > Len(fifo)
  <2>1. n - Len(fifo) \in 1 .. Len(more) /\ n = Len(fifo) + (n - Len(fifo))  BY <1>1, <1>2
  <2> QED BY <1>2, <2>1
<1>4. fifo'[1] = IF fifo = <<>> THEN more[1] ELSE fifo[1]
  <2>1. CASE fifo = <<>>
    <3>1. Len(fifo) = 0  BY <2>1
    <3> QED BY <1>1, <1>2, <1>3, <2>1, <3>1
  <2>2. CASE fifo # <<>>
    <3>1. Len(fifo) > 0  BY <1>1, <2>2
    <3> QED BY <1>1, <1>2, <2>2, <3>1
  <2> QED BY <2>1, <2>2
<1>5. fifo' # <<>> /\ Len(fifo') <= CAPACITY  BY <1>1, <1>2 DEF Added
<1>6. ASSUME NEW n \in 1 .. Len(fifo')
      PROVE  fifo'[n][1] \in 1 .. sending' /\ fifo'[n][2] \in 0 .. script'[fifo'[n][1]]
  <2>1. CASE n <= Len(fifo)
    <3>1. n \in 1 .. Len(fifo) /\ fifo'[n] = fifo[n]  BY <1>1, <1>2, <2>1
    <3>2. fifo[n][1] \in 1 .. sending /\ fifo[n][2] \in 0 .. script[fifo[n][1]]  BY <3>1 DEF ChainInv
    <3>3. fifo[n][1] \in 1 .. sending'  BY <3>2, Sizes
    <3> QED BY <3>1, <3>2, <3>3
  <2>2. CASE n > Len(fifo)
    BY <1>3, <2>2 DEF Added
  <2> QED BY <1>1, <2>1, <2>2
<1>7. ASSUME NEW n \in 1 .. Len(fifo') - 1 PROVE fifo'[n + 1] = Behind(fifo'[n])
  <2>1. CASE n < Len(fifo)
    <3>1. n \in 1 .. Len(fifo) - 1 /\ fifo'[n] = fifo[n] /\ fifo'[n + 1] = fifo[n + 1]  BY <1>1, <1>2, <2>1
    <3> QED BY <3>1 DEF ChainInv
  <2>2. CASE n = Len(fifo)
    <3>1. fifo # <<>> /\ fifo'[n] = fifo[Len(fifo)] /\ fifo'[n + 1] = more[1]
      BY <1>1, <1>2, <1>3, <2>2
    <3>2. sending > 0
      <4>1. fifo[n][1] \in 1 .. sending  BY <2>2 DEF ChainInv
      <4> QED BY <4>1, Sizes
    <3> QED BY <3>1, <3>2 DEF ChainInv, Added
  <2>3. CASE n > Len(fifo)
    <3>1. /\ n - Len(fifo) \in 1 .. Len(more) - 1 /\ (n - Len(fifo)) + 1 = n + 1 - Len(fifo)
          /\ fifo'[n] = more[n - Len(fifo)] /\ fifo'[n + 1] = more[n + 1 - Len(fifo)]
      BY <1>1, <1>2, <1>3, <2>3
    <3>2. more[(n - Len(fifo)) + 1] = Behind(more[n - Len(fifo)])  BY <3>1 DEF Added
    <3> QED BY <3>1, <3>2
  <2> QED BY <1>1, <2>1, <2>2, <2>3
<1>8. fifo'[Len(fifo')] = <<sending', script'[sending'] - left'>>
  <2>1. Len(fifo') \in 1 .. Len(fifo') /\ Len(fifo') > Len(fifo) /\ Len(fifo') - Len(fifo) = Len(more)
    BY <1>1, <1>2
  <2>2. fifo'[Len(fifo')] = more[Len(more)]  BY <1>3, <2>1
  <2> QED BY <2>2 DEF Added
<1>9. ChainInv'  BY <1>6, <1>7, <1>8, ChainFromParts
<1> QED BY <1>2, <1>4, <1>5, <1>9

(* A write leaves the reader where it was, and shows it what it waits for. *)
LEMMA WriterStep ==
  ASSUME IInv, UNCHANGED <<script, readerVars>>, sending' \in 0 .. Len(script), sending <= sending',
         left' \in Nat, sending' > 0, left' <= script[sending'],
         script[sending'] <= PIPE_BUF => left' \in {0, script[sending']},
         NEW more, Added(more),
         reading = "size" /\ fifo = <<>> => more[1] = <<Item, 0>> \/ (Astray /\ more[1][2] > 0),
         reading = "text" /\ fifo = <<>> => more[1] = <<Item, 1>>
  PROVE  IInv'
<1>1. /\ fifo' \in Seq(Unit) /\ Len(fifo') <= CAPACITY /\ fifo' # <<>>
      /\ fifo'[1] = IF fifo = <<>> THEN more[1] ELSE fifo[1]
      /\ ChainInv'
  BY AddedChain DEF IInv
<1>2. UNCHANGED <<script, reading, buf_size, received>>  BY DEF readerVars
<1>3. TypeInv'
  <2>1. Len(received) <= sending'  BY Sizes DEF IInv, TypeInv
  <2> QED BY <1>1, <1>2, <2>1 DEF IInv, TypeInv
<1>4. WriterInv'  BY <1>2 DEF WriterInv
<1>5. ReaderInv'
  <2>1. Item' = Item /\ Astray' = Astray  BY <1>2 DEF Item, Astray
  <2>2. reading = "size" => fifo'[1] = <<Item, 0>> \/ (Astray /\ fifo'[1][2] > 0)
    BY <1>1 DEF IInv, ReaderInv
  <2>3. reading = "text" => /\ Item <= sending' /\ buf_size = script[Item] /\ buf_size > 0
                            /\ fifo'[1] = <<Item, 1>>
    <3>1. SUFFICES ASSUME reading = "text"
                   PROVE  Item <= sending' /\ buf_size = script[Item] /\ buf_size > 0 /\ fifo'[1] = <<Item, 1>>
      OBVIOUS
    <3>2. /\ Item <= sending /\ buf_size = script[Item] /\ buf_size > 0
          /\ (fifo # <<>> => fifo[1] = <<Item, 1>>)
      BY <3>1 DEF IInv, ReaderInv
    <3>3. Item \in Nat /\ sending \in Nat /\ sending' \in Nat
      BY Sizes DEF IInv, TypeInv, Item
    <3>4. Item <= sending'
      BY <3>2, <3>3
    <3> QED BY <1>1, <3>1, <3>2, <3>4
  <2> QED BY <1>1, <1>2, <2>1, <2>2, <2>3 DEF IInv, ReaderInv
<1>6. WholeInv'  BY <1>2 DEF IInv, WholeInv, Whole
<1> QED BY <1>1, <1>3, <1>4, <1>5, <1>6 DEF IInv

LEMMA WriteNumberInv == IInv /\ WriteNumber => IInv'
<1> SUFFICES ASSUME IInv, WriteNumber PROVE IInv'  OBVIOUS
<1> DEFINE more == <<<<sending + 1, 0>>>>
<1>1. /\ script \in Seq(Nat) /\ Len(script) \in Nat /\ sending \in Nat /\ left = 0
      /\ sending' = sending + 1 /\ sending' \in 1 .. Len(script) /\ script[sending'] \in Nat
      /\ left' = script[sending'] /\ UNCHANGED <<script, readerVars>>
      /\ fifo \in Seq(Unit) /\ Len(fifo) + 1 <= CAPACITY /\ fifo' = Append(fifo, <<sending + 1, 0>>)
  BY Sizes, FramingAssumption DEF WriteNumber, IInv, TypeInv, Room
<1>2. Added(more)
  <2>1. more \in Seq(Unit) /\ Len(more) = 1 /\ more[1] = <<sending + 1, 0>> /\ more # <<>>
    BY <1>1 DEF Unit
  <2>2. fifo' = fifo \o more
    <3>1. fifo \in Seq(Unit) /\ <<sending + 1, 0>> \in Unit
      BY <1>1 DEF Unit
    <3>2. Append(fifo, <<sending + 1, 0>>) = fifo \o <<<<sending + 1, 0>>>>
      BY ONLY <3>1, AppendIsConcat
    <3> QED BY <1>1, <3>2, Zenon
  <2>3. sending > 0 => Behind(<<sending, script[sending] - left>>) = <<sending + 1, 0>>
    <3>1. sending > 0 => script[sending] \in Nat
      BY Sizes DEF IInv
    <3>2. sending > 0 => script[sending] - left = script[sending] /\ ~(script[sending] < script[sending])
      BY <1>1, <3>1
    <3> QED BY ONLY <3>2 DEF Behind
  <2> HIDE DEF more
  <2>4. script[sending'] - left' = 0 /\ 0 \in 0 .. script[sending']  BY <1>1
  <2>5. \A n \in 1 .. Len(more) :
          more[n][1] \in 1 .. sending' /\ more[n][2] \in 0 .. script[more[n][1]]
    <3> TAKE n \in 1 .. Len(more)
    <3>1. more[n] = <<sending', 0>>  BY <1>1, <2>1
    <3>2. more[n][1] = sending' /\ more[n][2] = 0  BY <3>1
    <3> QED BY <1>1, <2>4, <3>2
  <2>6. \A n \in 1 .. Len(more) - 1 : FALSE  BY <2>1
  <2>7. more[Len(more)] = <<sending', script[sending'] - left'>>  BY <1>1, <2>1, <2>4
  <2>8. sending > 0 => more[1] = Behind(<<sending, script[sending] - left>>)  BY <2>1, <2>3
  <2>9. Len(fifo) + Len(more) <= CAPACITY  BY <1>1, <2>1
  <2> QED BY <2>1, <2>2, <2>5, <2>6, <2>7, <2>8, <2>9 DEF Added
<1>3. more[1] = <<sending + 1, 0>>  OBVIOUS
<1>4. reading = "size" /\ fifo = <<>> => more[1] = <<Item, 0>>
  <2>1. reading = "size" /\ fifo = <<>> => sending = Len(received)  BY DEF IInv, ReaderInv
  <2> QED BY <1>3, <2>1 DEF Item
<1>5. reading = "text" => fifo # <<>>
  <2>1. reading = "text" /\ fifo = <<>> => left = script[Item] /\ buf_size = script[Item] /\ buf_size > 0
    BY DEF IInv, ReaderInv
  <2> QED BY <1>1, <2>1
<1> HIDE DEF more
<1> QED BY <1>1, <1>2, <1>4, <1>5, WriterStep

LEMMA WriteTextInv == IInv /\ WriteText => IInv'
<1> SUFFICES ASSUME IInv, WriteText PROVE IInv'  OBVIOUS
<1>1. PICK n \in 1 .. left :
        /\ n <= Room /\ (script[sending] <= PIPE_BUF => n = left)
        /\ fifo' = fifo \o Units(sending, script[sending] - left + 1, script[sending] - left + n)
        /\ left' = left - n
  BY DEF WriteText
<1> DEFINE size == script[sending]
           more == Units(sending, size - left + 1, size - left + n)
<1>2. /\ sending \in 1 .. Len(script) /\ sending' = sending /\ UNCHANGED <<script, readerVars>>
      /\ Len(script) \in Nat /\ size \in Nat /\ left \in 1 .. size /\ n \in 1 .. left
      /\ left' \in Nat /\ left' = left - n /\ left' <= size
      /\ fifo \in Seq(Unit) /\ Len(fifo) + n <= CAPACITY
  <2>1. TypeInv  BY DEF IInv
  <2>2. left > 0 /\ sending' = sending /\ UNCHANGED <<script, readerVars>>  BY DEF WriteText
  <2>3. sending \in 0 .. Len(script) /\ left \in Nat /\ fifo \in Seq(Unit) /\ Len(fifo) <= CAPACITY
        /\ (sending = 0 => left = 0) /\ (sending # 0 => left <= script[sending])
    BY <2>1 DEF TypeInv
  <2>4. Len(script) \in Nat /\ sending > 0 /\ size \in Nat  BY <2>1, <2>2, <2>3, Sizes
  <2>5. sending \in 1 .. Len(script) /\ left \in 1 .. size  BY <2>2, <2>3, <2>4
  <2>6. Len(fifo) + n <= CAPACITY  BY <1>1, <2>3, FramingAssumption DEF Room
  <2>7. left' = left - n /\ left' \in Nat /\ left' <= size  BY <1>1, <2>4, <2>5
  <2> HIDE DEF size
  <2> QED BY <2>2, <2>3, <2>4, <2>5, <2>6, <2>7
<1>3. /\ more \in Seq(Unit) /\ Len(more) = n
      /\ \A j \in 1 .. n : more[j] = <<sending, size - left + j>>
  <2> DEFINE k == size - left + 1
             l == size - left + n
  <2>1. sending \in Nat /\ k \in Nat /\ l \in Nat /\ l + 1 >= k /\ l - k + 1 = n
        /\ \A j \in 1 .. n : k + j - 1 = size - left + j
    <3>1. sending \in Nat /\ size \in Nat /\ left \in 1 .. size /\ n \in 1 .. left  BY <1>2
    <3> HIDE DEF size
    <3>2. k \in Nat /\ l \in Nat  BY <3>1
    <3>3. l + 1 >= k /\ l - k + 1 = n  BY <3>1
    <3>4. \A j \in 1 .. n : k + j - 1 = size - left + j  BY <3>1
    <3> QED BY <3>1, <3>2, <3>3, <3>4
  <2>2. /\ Units(sending, k, l) \in Seq(Unit) /\ Len(Units(sending, k, l)) = l - k + 1
        /\ \A j \in 1 .. l - k + 1 : Units(sending, k, l)[j] = <<sending, k + j - 1>>
    <3> HIDE DEF k, l
    <3> QED BY <2>1, UnitsProperties
  <2> QED BY <2>1, <2>2
<1>4. Added(more)
  <2> HIDE DEF more
  <2>1. more # <<>> /\ Len(fifo) + Len(more) <= CAPACITY  BY <1>2, <1>3
  <2>2. fifo' = fifo \o more  BY <1>1 DEF more
  <2>3. \A j \in 1 .. n : size - left + j \in 0 .. size  BY <1>2
  <2>4. \A j \in 1 .. n - 1 : more[j + 1] = Behind(more[j])
    <3> TAKE j \in 1 .. n - 1
    <3>0. j \in 1 .. n /\ j + 1 \in 1 .. n  BY <1>2
    <3>1. more[j] = <<sending, size - left + j>> /\ more[j + 1] = <<sending, size - left + (j + 1)>>
      BY <1>3, <3>0
    <3>2. size - left + j < size /\ (size - left + j) + 1 = size - left + (j + 1)  BY <1>2
    <3> QED BY <3>1, <3>2 DEF Behind
  <2>5. more[n] = <<sending', script[sending'] - left'>>
    <3>1. size - left + n = size - (left - n)  BY <1>2
    <3> QED BY <1>2, <1>3, <3>1
  <2>6. more[1] = Behind(<<sending, script[sending] - left>>)
    <3>1. more[1] = <<sending, size - left + 1>>  BY <1>2, <1>3
    <3>2. size - left < size  BY <1>2
    <3> QED BY <3>1, <3>2 DEF Behind
  <2>7. \A j \in 1 .. n : more[j][1] \in 1 .. sending' /\ more[j][2] \in 0 .. script[more[j][1]]
    <3> TAKE j \in 1 .. n
    <3>1. more[j][1] = sending /\ more[j][2] = size - left + j  BY <1>3
    <3>2. sending \in 1 .. sending'  BY <1>2
    <3> QED BY <2>3, <3>1, <3>2
  <2>8. more \in Seq(Unit) /\ Len(more) = n  BY <1>3
  <2> QED BY <2>1, <2>2, <2>4, <2>5, <2>6, <2>7, <2>8 DEF Added
<1>5. more[1] = <<sending, size - left + 1>> /\ size - left + 1 > 0  BY <1>2, <1>3
<1>6. reading = "size" /\ fifo = <<>> => Astray /\ more[1][2] > 0
  BY <1>2, <1>5 DEF IInv, ReaderInv
<1>7. reading = "text" /\ fifo = <<>> => more[1] = <<Item, 1>>
  <2>1. reading = "text" /\ fifo = <<>> => sending = Item /\ left = size
    BY DEF IInv, ReaderInv
  <2> QED BY <1>2, <1>5, <2>1
<1>8. script[sending'] <= PIPE_BUF => left' \in {0, script[sending']}
  BY <1>1, <1>2
<1> HIDE DEF more
<1> QED BY <1>2, <1>4, <1>6, <1>7, <1>8, WriterStep
-----------------------------------------------------------------------------
(* A read takes units from the front, and what is left is as contiguous as before. *)
LEMMA RestOfChain ==
  ASSUME TypeInv, ChainInv, UNCHANGED senderVars, NEW k \in 0 .. Len(fifo), fifo' = Drop(fifo, k)
  PROVE  /\ fifo' \in Seq(Unit) /\ Len(fifo') = Len(fifo) - k
         /\ (fifo' = <<>> <=> k = Len(fifo))
         /\ (k < Len(fifo) => fifo'[1] = fifo[k + 1])
         /\ ChainInv'
<1>1. fifo \in Seq(Unit) /\ Len(fifo) \in Nat /\ k \in Nat /\ k <= Len(fifo)  BY DEF TypeInv
<1>2. /\ fifo' \in Seq(Unit) /\ Len(fifo') = Len(fifo) - k
      /\ \A n \in 1 .. Len(fifo) - k : fifo'[n] = fifo[n + k]
  BY <1>1 DEF Drop
<1>3. fifo' = <<>> <=> k = Len(fifo)  BY <1>1, <1>2
<1>4. k < Len(fifo) => fifo'[1] = fifo[k + 1]  BY <1>1, <1>2
<1>5. UNCHANGED <<script, sending, left>>  BY DEF senderVars
<1>6. \A n \in 1 .. Len(fifo') : fifo'[n][1] \in 1 .. sending' /\ fifo'[n][2] \in 0 .. script'[fifo'[n][1]]
  <2> TAKE n \in 1 .. Len(fifo')
  <2>1. fifo'[n] = fifo[n + k] /\ n + k \in 1 .. Len(fifo)  BY <1>1, <1>2
  <2>2. fifo[n + k][1] \in 1 .. sending /\ fifo[n + k][2] \in 0 .. script[fifo[n + k][1]]
    BY <2>1 DEF ChainInv
  <2> QED BY <1>5, <2>1, <2>2
<1>7. \A n \in 1 .. Len(fifo') - 1 : fifo'[n + 1] = Behind(fifo'[n])
  <2> TAKE n \in 1 .. Len(fifo') - 1
  <2>1. /\ fifo'[n] = fifo[n + k] /\ fifo'[n + 1] = fifo[(n + k) + 1]
        /\ n + k \in 1 .. Len(fifo) - 1
    <3>1. n \in 1 .. Len(fifo) - k /\ n + 1 \in 1 .. Len(fifo) - k /\ (n + 1) + k = (n + k) + 1
      BY <1>1, <1>2
    <3>2. n + k \in 1 .. Len(fifo) - 1  BY <1>1, <3>1
    <3> QED BY <1>2, <3>1, <3>2
  <2>2. fifo[(n + k) + 1] = Behind(fifo[n + k])  BY <2>1 DEF ChainInv
  <2> QED BY <2>1, <2>2
<1>8. fifo' # <<>> => fifo'[Len(fifo')] = <<sending', script'[sending'] - left'>>
  <2> SUFFICES ASSUME fifo' # <<>> PROVE fifo'[Len(fifo')] = <<sending', script'[sending'] - left'>>
    OBVIOUS
  <2>1. Len(fifo') \in 1 .. Len(fifo) - k /\ fifo # <<>>  BY <1>1, <1>2, <1>3
  <2>2. fifo'[Len(fifo')] = fifo[Len(fifo)]  BY <1>1, <1>2, <2>1
  <2> QED BY <1>5, <2>1, <2>2 DEF ChainInv
<1>9. ChainInv'  BY <1>5, <1>6, <1>7, <1>8, ChainFromParts
<1> QED BY <1>2, <1>3, <1>4, <1>9

(* What the reader waits for, and what the last unit in the FIFO tells of the writer. *)
LEMMA HeadIsOfItem ==
  ASSUME IInv, fifo # <<>>, fifo[1][1] = Item
  PROVE  /\ Item \in 1 .. sending /\ sending \in 1 .. Len(script) /\ script[Item] \in Nat
         /\ Len(received) + 1 = Item /\ Len(fifo) \in Nat \ {0} /\ fifo \in Seq(Unit)
         /\ script \in Seq(Nat)
<1>1. TypeInv /\ ChainInv  BY DEF IInv
<1>2. fifo \in Seq(Unit) /\ Len(fifo) \in Nat \ {0}  BY <1>1 DEF TypeInv
<1>3. Item \in 1 .. sending  BY <1>1, <1>2 DEF ChainInv
<1>4. script \in Seq(Nat) /\ sending \in Nat /\ Len(script) \in Nat /\ sending \in 0 .. Len(script)
  BY <1>1, Sizes DEF TypeInv
<1>5. sending \in 1 .. Len(script) /\ Item \in 1 .. Len(script)  BY <1>3, <1>4
<1> QED BY <1>2, <1>3, <1>4, <1>5 DEF Item

(* The end of an item: up to its last unit, or, of a long one, to the end of what is there. *)
LEMMA ItemTaken ==
  ASSUME IInv, UNCHANGED senderVars, NEW k \in 1 .. Len(fifo), fifo' = Drop(fifo, k),
         fifo[1][1] = Item, fifo[k][1] = Item,
         fifo[k][2] = script[Item] \/ (k = Len(fifo) /\ script[Item] > PIPE_BUF),
         NEW t \in Seq(Unit), received' = Append(received, t),
         script[Item] <= PIPE_BUF => t = Whole(Item),
         reading' = "size", buf_size' = buf_size
  PROVE  IInv'
<1>1. TypeInv /\ WriterInv /\ ChainInv /\ WholeInv  BY DEF IInv
<1>2. fifo \in Seq(Unit) /\ Len(fifo) \in Nat \ {0} /\ fifo # <<>> /\ k \in Nat /\ k > 0 /\ k <= Len(fifo)
  <2>1. fifo \in Seq(Unit)  BY <1>1 DEF TypeInv
  <2> QED BY <2>1
<1>3. /\ Item \in 1 .. sending /\ sending \in 1 .. Len(script) /\ script[Item] \in Nat
      /\ Len(received) + 1 = Item /\ script \in Seq(Nat)
  BY <1>2, HeadIsOfItem
<1>4. /\ fifo' \in Seq(Unit) /\ Len(fifo') = Len(fifo) - k
      /\ (fifo' = <<>> <=> k = Len(fifo))
      /\ (k < Len(fifo) => fifo'[1] = fifo[k + 1])
      /\ ChainInv'
  <2>1. k \in 0 .. Len(fifo)  BY <1>2
  <2> QED BY <1>1, <2>1, RestOfChain
<1>5. UNCHANGED <<script, sending, left>>  BY DEF senderVars
<1>6. received \in Seq(Seq(Unit)) /\ Len(received) \in Nat  BY <1>1 DEF TypeInv
<1>7. /\ received' \in Seq(Seq(Unit)) /\ Len(received') = Item
      /\ \A i \in 1 .. Len(received) : received'[i] = received[i]
      /\ received'[Item] = t
  BY <1>3, <1>6
<1>8. TypeInv'
  <2>1. Len(received') <= sending  BY <1>3, <1>7
  <2>2. Len(fifo') <= CAPACITY
    <3>1. Len(fifo) <= CAPACITY  BY <1>1 DEF TypeInv
    <3> QED BY <1>2, <1>4, <3>1, FramingAssumption
  <2>3. buf_size \in Nat  BY <1>1 DEF TypeInv
  <2> QED BY <1>1, <1>4, <1>5, <1>7, <2>1, <2>2, <2>3 DEF TypeInv
<1>9. WriterInv'  BY <1>1, <1>5 DEF WriterInv
<1>10. Astray' <=> script[Item] > PIPE_BUF  BY <1>3, <1>5, <1>7 DEF Astray
<1>11. Item' = Item + 1  BY <1>7 DEF Item
<1>12. fifo' = <<>> => sending' = Len(received') /\ (left' = 0 \/ Astray')
  <2> SUFFICES ASSUME fifo' = <<>> PROVE sending = Item /\ (left = 0 \/ Astray')
    BY <1>5, <1>7
  <2>1. k = Len(fifo) /\ fifo[k] = <<sending, script[sending] - left>>
    BY <1>1, <1>2, <1>4 DEF ChainInv
  <2>2. sending = Item /\ fifo[k][2] = script[Item] - left  BY <2>1
  <2>3. left \in Nat  BY <1>1 DEF TypeInv
  <2>4. fifo[k][2] = script[Item] => left = 0  BY <1>3, <2>2, <2>3
  <2> QED BY <1>10, <2>2, <2>4
<1>13. fifo' # <<>> => fifo'[1] = <<Item + 1, 0>>
  <2> SUFFICES ASSUME fifo' # <<>> PROVE fifo'[1] = <<Item + 1, 0>>  OBVIOUS
  <2>1. k < Len(fifo) /\ k \in 1 .. Len(fifo) - 1  BY <1>2, <1>4
  <2>2. fifo'[1] = Behind(fifo[k])  BY <1>1, <1>4, <2>1 DEF ChainInv
  <2>3. fifo[k][1] = Item /\ fifo[k][2] = script[Item]  BY <2>1
  <2>4. ~(fifo[k][2] < script[fifo[k][1]])  BY <1>3, <2>3
  <2> QED BY <2>2, <2>3, <2>4 DEF Behind
<1>14. ReaderInv'  BY <1>11, <1>12, <1>13 DEF ReaderInv
<1>15. WholeInv'
  <2>1. ASSUME NEW i \in 1 .. Len(received'), script[i] <= PIPE_BUF PROVE received'[i] = Whole(i)
    <3>1. CASE i = Item  BY <1>7, <2>1, <3>1
    <3>2. CASE i # Item
      <4>1. i \in 1 .. Len(received)  BY <1>3, <1>6, <1>7, <3>2
      <4> QED BY <1>1, <1>7, <2>1, <4>1 DEF WholeInv
    <3> QED BY <3>1, <3>2
  <2>2. \A i : Whole(i)' = Whole(i)  BY <1>5 DEF Whole
  <2> QED BY <1>5, <2>1, <2>2 DEF WholeInv, Whole
<1> QED BY <1>4, <1>8, <1>9, <1>14, <1>15 DEF IInv

LEMMA ReadIntInv ==
  IInv /\ ReadInt => /\ IInv' /\ Item \in 1 .. sending
                     /\ received' = Append(received, Whole(Item)) /\ UNCHANGED senderVars
<1> SUFFICES ASSUME IInv, ReadInt
             PROVE  /\ IInv' /\ Item \in 1 .. sending
                    /\ received' = Append(received, Whole(Item)) /\ UNCHANGED senderVars
  OBVIOUS
<1>1. /\ reading = "size" /\ script[Item] = 0 /\ fifo # <<>> /\ fifo[1][2] = 0
      /\ received' = Append(received, <<fifo[1]>>) /\ fifo' = Tail(fifo)
      /\ UNCHANGED <<senderVars, reading, buf_size>>
  BY DEF ReadInt, Aligned
<1>2. fifo[1] = <<Item, 0>>  BY <1>1 DEF IInv, ReaderInv
<1>3. /\ Item \in 1 .. sending /\ Len(fifo) \in Nat \ {0} /\ fifo \in Seq(Unit)
  BY <1>1, <1>2, HeadIsOfItem
<1>4. 1 \in 1 .. Len(fifo) /\ fifo' = Drop(fifo, 1)  BY <1>1, <1>3 DEF Drop
<1>5. <<fifo[1]>> = Whole(Item)  BY <1>1, <1>2 DEF Whole, WholeOf
<1>6. <<fifo[1]>> \in Seq(Unit)  BY <1>3
<1> DEFINE k == 1
           t == <<fifo[1]>>
<1>7. /\ k \in 1 .. Len(fifo) /\ fifo' = Drop(fifo, k) /\ fifo[1][1] = Item /\ fifo[k][1] = Item
      /\ fifo[k][2] = script[Item] /\ t \in Seq(Unit) /\ received' = Append(received, t) /\ t = Whole(Item)
  BY <1>1, <1>2, <1>4, <1>5, <1>6
<1>8. IInv'
  <2> HIDE DEF k, t
  <2> QED BY <1>1, <1>7, ItemTaken
<1> QED BY <1>1, <1>3, <1>5, <1>8

LEMMA ReadSizeInv == IInv /\ ReadSize => IInv'
<1> SUFFICES ASSUME IInv, ReadSize PROVE IInv'  OBVIOUS
<1>1. /\ reading = "size" /\ script[Item] > 0 /\ fifo # <<>> /\ fifo[1][2] = 0
      /\ buf_size' = script[fifo[1][1]] /\ reading' = "text" /\ fifo' = Tail(fifo)
      /\ UNCHANGED <<senderVars, received>>
  BY DEF ReadSize, Aligned
<1>2. fifo[1] = <<Item, 0>>  BY <1>1 DEF IInv, ReaderInv
<1>3. /\ Item \in 1 .. sending /\ Len(fifo) \in Nat \ {0} /\ fifo \in Seq(Unit) /\ script[Item] \in Nat
  BY <1>1, <1>2, HeadIsOfItem
<1>4. 1 \in 0 .. Len(fifo) /\ fifo' = Drop(fifo, 1)  BY <1>1, <1>3 DEF Drop
<1>5. TypeInv /\ WriterInv /\ ChainInv /\ WholeInv  BY DEF IInv
<1>6. /\ fifo' \in Seq(Unit) /\ Len(fifo') = Len(fifo) - 1
      /\ (fifo' = <<>> <=> 1 = Len(fifo))
      /\ (1 < Len(fifo) => fifo'[1] = fifo[1 + 1])
      /\ ChainInv'
  BY <1>1, <1>4, <1>5, RestOfChain
<1>7. UNCHANGED <<script, sending, left, received>>  BY <1>1 DEF senderVars
<1>8. TypeInv'
  <2>1. Len(fifo') <= CAPACITY
    <3>1. Len(fifo) <= CAPACITY  BY <1>5 DEF TypeInv
    <3> QED BY <1>3, <1>6, <3>1, FramingAssumption
  <2>2. buf_size' \in Nat  BY <1>1, <1>2, <1>3
  <2> QED BY <1>1, <1>5, <1>6, <1>7, <2>1, <2>2 DEF TypeInv
<1>9. WriterInv' /\ WholeInv'  BY <1>5, <1>7 DEF WriterInv, WholeInv, Whole
<1>10. fifo' = <<>> => sending = Item /\ left = script[Item]
  <2> SUFFICES ASSUME fifo' = <<>> PROVE sending = Item /\ left = script[Item]  OBVIOUS
  <2>1. fifo[1] = <<sending, script[sending] - left>>  BY <1>1, <1>5, <1>6 DEF ChainInv
  <2>2. sending = Item /\ script[Item] - left = 0  BY <1>2, <2>1
  <2>3. left \in Nat  BY <1>5 DEF TypeInv
  <2> QED BY <1>3, <2>2, <2>3
<1>11. fifo' # <<>> => fifo'[1] = <<Item, 1>>
  <2> SUFFICES ASSUME fifo' # <<>> PROVE fifo'[1] = <<Item, 1>>  OBVIOUS
  <2>1. 1 < Len(fifo) /\ 1 \in 1 .. Len(fifo) - 1  BY <1>3, <1>6
  <2>2. fifo'[1] = Behind(<<Item, 0>>)  BY <1>2, <1>5, <1>6, <2>1 DEF ChainInv
  <2> QED BY <1>1, <2>2 DEF Behind
<1>12. Item' = Item /\ buf_size' = script[Item]  BY <1>1, <1>2, <1>7 DEF Item
<1>13. Item <= sending  BY <1>3
<1>14. ReaderInv'  BY <1>1, <1>7, <1>10, <1>11, <1>12, <1>13 DEF ReaderInv
<1> QED BY <1>6, <1>8, <1>9, <1>14 DEF IInv

LEMMA ReadGarbageInv == IInv /\ ReadGarbage => IInv'
<1> SUFFICES ASSUME IInv, ReadGarbage PROVE IInv'  OBVIOUS
<1>1. /\ reading = "size" /\ fifo # <<>> /\ fifo[1][2] # 0 /\ reading' = "garbage"
      /\ UNCHANGED <<script, sending, left, fifo, buf_size, received>>
  BY DEF ReadGarbage, Aligned, senderVars
<1>2. Astray
  <2>1. fifo[1] = <<Item, 0>> => fifo[1][2] = 0  OBVIOUS
  <2> QED BY <1>1, <2>1 DEF IInv, ReaderInv
<1>3. TypeInv' /\ WriterInv' /\ WholeInv'  BY <1>1 DEF IInv, TypeInv, WriterInv, WholeInv, Whole
<1>4. ChainInv'  BY <1>1 DEF IInv, ChainInv, Behind
<1>5. ReaderInv'  BY <1>1, <1>2 DEF ReaderInv, Astray
<1> QED BY <1>3, <1>4, <1>5 DEF IInv

(* Behind the length lie the bytes of the string, one after the other. *)
LEMMA TextAhead ==
  ASSUME IInv, reading = "text", fifo # <<>>, NEW n \in Nat, n <= Len(fifo), n <= script[Item]
  PROVE  \A m \in 1 .. n : fifo[m] = <<Item, m>>
<1>1. fifo[1] = <<Item, 1>> /\ ChainInv  BY DEF IInv, ReaderInv
<1>2. Len(fifo) \in Nat \ {0} /\ script[Item] \in Nat  BY <1>1, HeadIsOfItem
<1> DEFINE T == {m \in Nat : m + 1 <= n => fifo[m + 1] = <<Item, m + 1>>}
<1>3. 0 \in T  BY <1>1
<1>4. ASSUME NEW m \in T PROVE m + 1 \in T
  <2> SUFFICES ASSUME (m + 1) + 1 <= n PROVE fifo[(m + 1) + 1] = <<Item, (m + 1) + 1>>  OBVIOUS
  <2>1. fifo[m + 1] = <<Item, m + 1>>  OBVIOUS
  <2>2. m + 1 \in 1 .. Len(fifo) - 1 /\ m + 1 < script[Item]  BY <1>2
  <2>3. fifo[(m + 1) + 1] = Behind(<<Item, m + 1>>)  BY <1>1, <2>1, <2>2 DEF ChainInv
  <2> QED BY <2>2, <2>3 DEF Behind
<1>5. T = Nat
  <2>1. T \subseteq Nat  OBVIOUS
  <2> HIDE DEF T
  <2> QED BY <1>3, <1>4, <2>1, Induction
<1> TAKE m \in 1 .. n
<1>6. m - 1 \in Nat /\ (m - 1) + 1 = m /\ m <= n  OBVIOUS
<1>7. m - 1 \in T  BY <1>5, <1>6
<1> HIDE DEF T
<1>8. (m - 1) + 1 <= n => fifo[(m - 1) + 1] = <<Item, (m - 1) + 1>>  BY <1>7 DEF T
<1> QED BY <1>6, <1>8

LEMMA ReadTextInv ==
  IInv /\ ReadText => /\ IInv' /\ Item \in 1 .. sending /\ UNCHANGED senderVars
                      /\ \E t : received' = Append(received, t) /\ (script[Item] <= PIPE_BUF => t = Whole(Item))
<1> SUFFICES ASSUME IInv, ReadText
             PROVE  /\ IInv' /\ Item \in 1 .. sending /\ UNCHANGED senderVars
                    /\ \E t : received' = Append(received, t) /\ (script[Item] <= PIPE_BUF => t = Whole(Item))
  OBVIOUS
<1>1. PICK n : /\ n = IF Len(fifo) < buf_size THEN Len(fifo) ELSE buf_size
               /\ received' = Append(received, SubSeq(fifo, 1, n))
               /\ fifo' = SubSeq(fifo, n + 1, Len(fifo))
  BY DEF ReadText
<1>2. reading = "text" /\ fifo # <<>> /\ reading' = "size" /\ UNCHANGED <<senderVars, buf_size>>
  BY DEF ReadText
<1>3. fifo[1] = <<Item, 1>> /\ buf_size = script[Item] /\ buf_size > 0  BY <1>2 DEF IInv, ReaderInv
<1>4. /\ Item \in 1 .. sending /\ Len(fifo) \in Nat \ {0} /\ fifo \in Seq(Unit)
      /\ script[Item] \in Nat \ {0} /\ sending \in Nat
  BY <1>2, <1>3, HeadIsOfItem
<1>5. n \in 1 .. Len(fifo) /\ n \in 1 .. script[Item] /\ n \in Nat /\ (n = Len(fifo) \/ n = script[Item])
  <2>1. n = IF Len(fifo) < buf_size THEN Len(fifo) ELSE buf_size  BY <1>1
  <2>2. Len(fifo) \in Nat \ {0} /\ buf_size \in Nat \ {0}  BY <1>3, <1>4
  <2>3. n \in 1 .. Len(fifo) /\ n \in 1 .. buf_size /\ n \in Nat /\ (n = Len(fifo) \/ n = buf_size)
    BY <2>1, <2>2
  <2> QED BY <1>3, <2>3
<1>6. \A m \in 1 .. n : fifo[m] = <<Item, m>>
  <2>1. n <= Len(fifo) /\ n <= script[Item]  BY <1>4, <1>5
  <2> QED BY <1>2, <1>5, <2>1, TextAhead
<1>7. fifo[n] = <<Item, n>>  BY <1>5, <1>6
<1>8. script[Item] <= PIPE_BUF => n = script[Item]
  <2> SUFFICES ASSUME script[Item] <= PIPE_BUF, n # script[Item] PROVE FALSE  OBVIOUS
  <2>1. n = Len(fifo) /\ n < script[Item]  BY <1>4, <1>5
  <2>2. fifo[n] = <<sending, script[sending] - left>>  BY <1>2, <2>1 DEF IInv, ChainInv
  <2>3. sending = Item /\ n = script[Item] - left  BY <1>7, <2>2
  <2>4. left \in {0, script[Item]}  BY <1>4, <2>3 DEF IInv, WriterInv
  <2> QED BY <1>4, <1>5, <2>1, <2>3, <2>4
<1> DEFINE t == SubSeq(fifo, 1, n)
<1>9. t \in Seq(Unit) /\ t = [m \in 1 .. n |-> <<Item, m>>]
  <2>1. t \in Seq(Unit)  BY <1>4, <1>5
  <2>2. t = [m \in 1 .. n |-> fifo[m]]  BY <1>4, <1>5
  <2> QED BY <1>6, <2>1, <2>2
<1>10. script[Item] <= PIPE_BUF => t = Whole(Item)
  <2> SUFFICES ASSUME n = script[Item] PROVE t = Whole(Item)  BY <1>8
  <2>1. Whole(Item) = Units(Item, 1, n)  BY <1>4 DEF Whole, WholeOf
  <2>2. Units(Item, 1, n) = [m \in 1 .. n |-> <<Item, m>>]
    <3>1. n - 1 + 1 = n /\ \A m \in 1 .. n : 1 + m - 1 = m  BY <1>5
    <3> QED BY <3>1 DEF Units
  <2> HIDE DEF t
  <2> QED BY <1>9, <2>1, <2>2
<1>11. fifo' = Drop(fifo, n) /\ received' = Append(received, t)  BY <1>1 DEF Drop
<1>12. fifo[n][2] = script[Item] \/ (n = Len(fifo) /\ script[Item] > PIPE_BUF)
  <2>1. script[Item] > PIPE_BUF \/ n = script[Item]  BY <1>4, <1>8, FramingAssumption
  <2> QED BY <1>5, <1>7, <2>1
<1> HIDE DEF t
<1>13. fifo[1][1] = Item /\ fifo[n][1] = Item  BY <1>3, <1>7
<1>14. IInv'  BY <1>2, <1>5, <1>9, <1>10, <1>11, <1>12, <1>13, ItemTaken
<1> QED BY <1>2, <1>4, <1>10, <1>11, <1>14
-----------------------------------------------------------------------------
LEMMA StepIInv == IInv /\ [Next]_framingVars => IInv'
<1> SUFFICES ASSUME IInv, [Next]_framingVars PROVE IInv'  OBVIOUS
<1>1. CASE WriteNumber  BY <1>1, WriteNumberInv
<1>2. CASE WriteText  BY <1>2, WriteTextInv
<1>3. CASE ReadInt  BY <1>3, ReadIntInv
<1>4. CASE ReadSize  BY <1>4, ReadSizeInv
<1>5. CASE ReadGarbage  BY <1>5, ReadGarbageInv
<1>6. CASE ReadText  BY <1>6, ReadTextInv
<1>7. CASE UNCHANGED framingVars
  <2>1. UNCHANGED <<script, sending, left, fifo, reading, buf_size, received>>
    BY <1>7 DEF framingVars, senderVars, readerVars
  <2>2. TypeInv' /\ WriterInv' /\ WholeInv'  BY <2>1 DEF IInv, TypeInv, WriterInv, WholeInv, Whole
  <2>3. ChainInv' /\ ReaderInv'  BY <2>1 DEF IInv, ChainInv, Behind, ReaderInv, Astray, Item
  <2> QED BY <2>2, <2>3 DEF IInv
<1> QED BY <1>1, <1>2, <1>3, <1>4, <1>5, <1>6, <1>7 DEF Next, Write, Read

(***************************************************************************)
(* The FIFO between the job executor and a worker holds, at any time, a    *)
(* contiguous piece of what send_msg and send_int_number have written, and *)
(* read_msg and read_int_number are where that piece starts unless the     *)
(* item before was too long for one write().                               *)
(***************************************************************************)
THEOREM Invariance == Spec => []IInv
<1>1. Init => IInv  BY InitIInv
<1>2. IInv /\ [Next]_framingVars => IInv'  BY StepIInv
<1> QED BY <1>1, <1>2, PTL DEF Spec

(***************************************************************************)
(* read_msg goes astray only behind a string longer than PIPE_BUF: up to   *)
(* the first of these everything comes out of the FIFO as it was sent.     *)
(***************************************************************************)
THEOREM ItemsComeWhole == Spec => []WholeMessages
<1>1. IInv => WholeMessages
  <2> SUFFICES ASSUME IInv PROVE WholeMessages  OBVIOUS
  <2>1. ASSUME NEW i \in 1 .. Len(received), \A j \in 1 .. i : script[j] <= PIPE_BUF
        PROVE  received[i] = Whole(i)
    <3>1. Len(received) \in Nat  BY DEF IInv, TypeInv
    <3>2. i \in 1 .. i  BY <3>1
    <3> QED BY <2>1, <3>2 DEF IInv, WholeInv
  <2>2. reading = "garbage" => \E j \in 1 .. Len(received) : script[j] > PIPE_BUF
    <3>1. Len(received) \in Nat  BY DEF IInv, TypeInv
    <3>2. Len(received) > 0 => Len(received) \in 1 .. Len(received)  BY <3>1
    <3> QED BY <3>2 DEF IInv, ReaderInv, Astray
  <2> QED BY <2>1, <2>2 DEF WholeMessages
<1> QED BY <1>1, Invariance, PTL
-----------------------------------------------------------------------------
(* The items that have been sent, as MessageChannel counts them. *)
Sent == [i \in 1 .. sending |-> Whole(i)]

LEMMA SentOneMore ==
  ASSUME TypeInv, WriteNumber
  PROVE  /\ Sent' = Append(Sent, Whole(sending + 1)) /\ UNCHANGED received
         /\ Whole(sending + 1) \in UNION {{WholeOf(s, i) : i \in 1 .. Len(s)} : s \in Scripts}
<1>1. /\ sending \in Nat /\ sending' = sending + 1 /\ sending + 1 \in 1 .. Len(script)
      /\ script \in Scripts /\ UNCHANGED <<script, received>>
  BY Sizes DEF WriteNumber, TypeInv, readerVars
<1>2. \A i : Whole(i)' = Whole(i)  BY <1>1 DEF Whole
<1>3. Sent' = [i \in 1 .. sending + 1 |-> Whole(i)]  BY <1>1, <1>2 DEF Sent, Whole
<1>4. Sent' = Append(Sent, Whole(sending + 1))
  <2> DEFINE s == [i \in 1 .. sending |-> Whole(i)]
  <2>1. Len(s) = sending  BY <1>1
  <2>2. Append(s, Whole(sending + 1)) = [i \in 1 .. sending + 1 |-> IF i <= sending THEN s[i] ELSE Whole(sending + 1)]
    BY <1>1, <2>1
  <2>3. \A i \in 1 .. sending + 1 : (IF i <= sending THEN s[i] ELSE Whole(sending + 1)) = Whole(i)
    BY <1>1
  <2>4. s = Sent  BY DEF Sent
  <2> HIDE DEF s
  <2> QED BY <1>3, <2>2, <2>3, <2>4
<1> QED BY <1>1, <1>4 DEF Whole

LEMMA SentAsBefore == UNCHANGED senderVars \/ UNCHANGED <<script, sending>> => UNCHANGED Sent
BY DEF Sent, Whole, senderVars

(***************************************************************************)
(* A pair that writes only strings of at most PIPE_BUF bytes has a channel *)
(* of whole messages: each write of a number or a length sends one item,   *)
(* each read_int_number and each second read() of read_msg receives the    *)
(* next one, and every other step leaves the channel as it was.            *)
(***************************************************************************)
THEOREM ChannelOfMessages == Spec => Channel!Spec
<1>1. Init => Channel!Init
  <2> SUFFICES ASSUME Init PROVE Channel!Init  OBVIOUS
  <2>1. [i \in 1 .. sending |-> Whole(i)] = <<>>  BY DEF Init
  <2> QED BY <2>1 DEF Init, Channel!Init
<1>2. IInv /\ [Next]_framingVars => [Fits => Channel!Next]_<<Sent, received>>
  <2> SUFFICES ASSUME IInv, [Next]_framingVars, Fits
               PROVE  Channel!Next \/ UNCHANGED <<Sent, received>>
    OBVIOUS
  <2>1. CASE WriteNumber
    <3>1. Channel!Send(Whole(sending + 1))
      BY <2>1, SentOneMore DEF IInv, Channel!Send, Sent
    <3> QED BY <2>1, <3>1, SentOneMore DEF IInv, Channel!Next
  <2>2. CASE WriteText
    BY <2>2, SentAsBefore DEF WriteText, readerVars
  <2>3. ASSUME Item \in 1 .. sending, UNCHANGED senderVars, received' = Append(received, Whole(Item))
        PROVE  Channel!Next
    <3>1. sending \in Nat /\ Len(received) \in Nat  BY Sizes DEF IInv, TypeInv
    <3>2. Len(Sent) = sending /\ Sent[Item] = Whole(Item)  BY <2>3, <3>1 DEF Sent
    <3>3. UNCHANGED Sent  BY <2>3, SentAsBefore
    <3>4. Len(received) < Len(Sent) /\ Item = Len(received) + 1  BY <2>3, <3>1, <3>2 DEF Item
    <3>5. Channel!Receive  BY <2>3, <3>2, <3>3, <3>4 DEF Channel!Receive, Sent
    <3> QED BY <3>5 DEF Channel!Next
  <2>4. CASE ReadInt
    BY <2>3, <2>4, ReadIntInv
  <2>5. CASE ReadSize
    BY <2>5, SentAsBefore DEF ReadSize
  <2>6. CASE ReadGarbage
    BY <2>6, SentAsBefore DEF ReadGarbage
  <2>7. CASE ReadText
    <3>1. /\ Item \in 1 .. sending /\ UNCHANGED senderVars
          /\ \E t : received' = Append(received, t) /\ (script[Item] <= PIPE_BUF => t = Whole(Item))
      BY <2>7, ReadTextInv
    <3>2. script[Item] <= PIPE_BUF
      <4>1. Item \in 1 .. Len(script)  BY <3>1, Sizes DEF IInv, TypeInv
      <4> QED BY <4>1 DEF Fits
    <3> QED BY <2>3, <3>1, <3>2
  <2>8. CASE UNCHANGED framingVars
    BY <2>8, SentAsBefore DEF framingVars, readerVars
  <2> QED BY <2>1, <2>2, <2>4, <2>5, <2>6, <2>7, <2>8 DEF Next, Write, Read
<1>3. [Fits => Channel!Next]_<<Sent, received>>
        <=> [Fits => Channel!Next]_<<[i \in 1 .. sending |-> Whole(i)], received>>
  BY DEF Sent
<1> QED BY <1>1, <1>2, <1>3, Invariance, PTL DEF Spec, Channel!Spec
-----------------------------------------------------------------------------
(* FlattenSeq: f[i] is the first i sequences of s in one. *)
Flattens(f, V, s) ==
  /\ f \in [1 .. Len(s) -> Seq(V)]
  /\ \A i \in 1 .. Len(s) : f[i] = IF i = 1 THEN s[i] ELSE f[i - 1] \o s[i]

(* The function that FlattenSeq chooses exists, and is one from the prefixes of s to sequences. *)
LEMMA FlattenExists ==
  ASSUME NEW V, NEW s \in Seq(Seq(V)), Len(s) > 0
  PROVE  \E f : Flattens(f, V, s)
<1> DEFINE S == Seq(V)
           step == [p \in S \X (1 .. Len(s)) |-> p[1] \o s[p[2]]]
<1>1. Len(s) \in Nat /\ <<>> \in S /\ \A i \in 1 .. Len(s) : s[i] \in S
  OBVIOUS
<1>2. \A v \in S, k \in 1 .. Len(s) : step[<<v, k>>] = v \o s[k] /\ v \o s[k] \in S
  <2> TAKE v \in S, k \in 1 .. Len(s)
  <2>1. step[<<v, k>>] = v \o s[k]
    <3> HIDE DEF S
    <3> QED OBVIOUS
  <2>2. s[k] \in Seq(V)
    OBVIOUS
  <2>3. v \o s[k] \in Seq(V)
    BY <2>2
  <2> QED BY <2>1, <2>3
<1>3. PICK g : Computes(g, S, <<>>, step, Len(s))
  <2> HIDE DEF S, step
  <2>1. IsStep(S, step, Len(s))
    BY <1>2 DEF IsStep
  <2> QED BY <1>1, <2>1, Recursion
<1> HIDE DEF step
<1>4. \A k \in 0 .. Len(s) : g[k] \in S
  BY <1>3 DEF Computes
<1>5. ASSUME NEW k \in 1 .. Len(s) PROVE g[k] = g[k - 1] \o s[k]
  <2>1. g[k] = step[<<g[k - 1], k>>]
    BY <1>3 DEF Computes
  <2>2. g[k - 1] \in S
    BY <1>1, <1>4
  <2> HIDE DEF S
  <2> QED BY <1>2, <2>1, <2>2
<1> DEFINE f == [i \in 1 .. Len(s) |-> g[i]]
<1>6. f \in [1 .. Len(s) -> S]
  BY <1>1, <1>4
<1>7. ASSUME NEW i \in 1 .. Len(s) PROVE f[i] = IF i = 1 THEN s[i] ELSE f[i - 1] \o s[i]
  <2>1. CASE i = 1
    <3>1. g[0] = <<>> /\ f[1] = g[1] /\ g[1] = g[0] \o s[1]
      <4>1. g[i] = g[i - 1] \o s[i]
        BY <1>5
      <4>2. i - 1 = 0
        BY <2>1
      <4> QED BY <1>3, <2>1, <4>1, <4>2 DEF Computes
    <3>2. <<>> \o s[1] = s[1]
      BY <1>1, <2>1
    <3> QED BY <2>1, <3>1, <3>2
  <2>2. CASE i # 1
    <3>1. i - 1 \in 1 .. Len(s) /\ f[i] = g[i] /\ f[i - 1] = g[i - 1]
      BY <1>1, <2>2
    <3> QED BY <1>5, <2>2, <3>1
  <2> QED BY <2>1, <2>2
<1> HIDE DEF f
<1> QED BY <1>6, <1>7 DEF Flattens

LEMMA FlattenBy ==
  ASSUME NEW V, NEW s \in Seq(Seq(V)), Len(s) > 0
  PROVE  \E f : Flattens(f, V, s) /\ FlattenSeq(s) = f[Len(s)]
<1> DEFINE Rec(f) == f = [i \in 1 .. Len(s) |-> IF i = 1 THEN s[i] ELSE f[i - 1] \o s[i]]
<1>1. PICK h : Flattens(h, V, s)
  BY FlattenExists
<1>2. Rec(h)
  <2>1. h = [i \in 1 .. Len(s) |-> h[i]]
    BY <1>1 DEF Flattens
  <2> QED BY <1>1, <2>1 DEF Flattens
<1>3. \E f : Rec(f) /\ FlattenSeq(s) = f[Len(s)]
  <2>1. FlattenSeq(s) = (CHOOSE f : Rec(f))[Len(s)]
    BY DEF FlattenSeq
  <2> HIDE DEF Rec
  <2> QED BY <1>2, <2>1, Zenon
<1>4. PICK f : Rec(f) /\ FlattenSeq(s) = f[Len(s)]
  BY <1>3
<1>5. \A i \in 1 .. Len(s) : f[i] = IF i = 1 THEN s[i] ELSE f[i - 1] \o s[i]
  BY <1>4
<1>6. DOMAIN f = 1 .. Len(s) /\ f = [i \in 1 .. Len(s) |-> f[i]]
  BY <1>4
<1> HIDE DEF Rec
<1> DEFINE T == {n \in Nat : n + 1 <= Len(s) => f[n + 1] \in Seq(V)}
<1>7. 0 \in T
  <2>1. 1 \in 1 .. Len(s) /\ s[1] \in Seq(V)
    OBVIOUS
  <2>2. f[1] = s[1]
    BY <1>5, <2>1
  <2> QED BY <2>1, <2>2
<1>8. ASSUME NEW n \in T PROVE n + 1 \in T
  <2> SUFFICES ASSUME (n + 1) + 1 <= Len(s) PROVE f[(n + 1) + 1] \in Seq(V)
    OBVIOUS
  <2>1. /\ (n + 1) + 1 \in 1 .. Len(s) /\ (n + 1) + 1 # 1 /\ ((n + 1) + 1) - 1 = n + 1
        /\ f[n + 1] \in Seq(V) /\ s[(n + 1) + 1] \in Seq(V)
    OBVIOUS
  <2>2. f[(n + 1) + 1] = f[n + 1] \o s[(n + 1) + 1]
    BY <1>5, <2>1
  <2> QED BY <2>1, <2>2
<1>9. T = Nat
  <2>1. T \subseteq Nat
    OBVIOUS
  <2> HIDE DEF T
  <2> QED BY <1>7, <1>8, <2>1, Induction
<1>10. \A i \in 1 .. Len(s) : f[i] \in Seq(V)
  <2> TAKE i \in 1 .. Len(s)
  <2>1. i - 1 \in Nat /\ (i - 1) + 1 = i /\ i <= Len(s)
    OBVIOUS
  <2>2. i - 1 \in T
    <3> HIDE DEF T
    <3> QED BY <1>9, <2>1
  <2> QED BY <2>1, <2>2
<1>11. f \in [1 .. Len(s) -> Seq(V)]
  BY <1>6, <1>10
<1>12. Flattens(f, V, s)
  BY <1>5, <1>11 DEF Flattens
<1> QED BY <1>4, <1>12

LEMMA FlattenNone == FlattenSeq(<<>>) = <<>>
BY DEF FlattenSeq

LEMMA FlattenTyped ==
  ASSUME NEW V, NEW s \in Seq(Seq(V))
  PROVE  FlattenSeq(s) \in Seq(V)
<1>1. CASE Len(s) = 0
  <2>1. s = <<>> /\ <<>> \in Seq(V)
    BY <1>1
  <2>2. FlattenSeq(s) = <<>>
    BY <2>1, FlattenNone
  <2> QED BY <2>1, <2>2
<1>2. CASE Len(s) > 0
  <2>1. PICK f : Flattens(f, V, s) /\ FlattenSeq(s) = f[Len(s)]
    BY <1>2, FlattenBy
  <2>2. Len(s) \in 1 .. Len(s)
    BY <1>2
  <2> QED BY <2>1, <2>2 DEF Flattens
<1> QED BY <1>1, <1>2

LEMMA FlattenAppend ==
  ASSUME NEW V, NEW s \in Seq(Seq(V)), NEW e \in Seq(V)
  PROVE  FlattenSeq(Append(s, e)) = FlattenSeq(s) \o e
<1> DEFINE t == Append(s, e)
<1>1. /\ t \in Seq(Seq(V)) /\ Len(t) = Len(s) + 1 /\ Len(t) > 0 /\ Len(s) \in Nat
      /\ t[Len(s) + 1] = e /\ \A i \in 1 .. Len(s) : t[i] = s[i]
  OBVIOUS
<1> HIDE DEF t
<1>2. PICK g : Flattens(g, V, t) /\ FlattenSeq(t) = g[Len(t)]
  BY <1>1, FlattenBy
<1>3. \A i \in 1 .. Len(s) + 1 : g[i] = IF i = 1 THEN t[i] ELSE g[i - 1] \o t[i]
  BY <1>1, <1>2 DEF Flattens
<1>4. CASE Len(s) = 0
  <2>1. s = <<>> /\ FlattenSeq(t) = e
    <3>1. FlattenSeq(t) = t[1]
      BY <1>1, <1>2, <1>3, <1>4
    <3> QED BY <1>1, <1>4, <3>1
  <2>2. <<>> \o e = e
    OBVIOUS
  <2> QED BY <2>1, <2>2, FlattenNone DEF t
<1>5. CASE Len(s) > 0
  <2>1. PICK f : Flattens(f, V, s) /\ FlattenSeq(s) = f[Len(s)]
    BY <1>5, FlattenBy
  <2>2. \A i \in 1 .. Len(s) : f[i] = IF i = 1 THEN s[i] ELSE f[i - 1] \o s[i]
    BY <2>1 DEF Flattens
  <2> DEFINE T == {n \in Nat : n + 1 <= Len(s) => f[n + 1] = g[n + 1]}
  <2>3. 0 \in T
    <3>1. 1 \in 1 .. Len(s) /\ 1 \in 1 .. Len(s) + 1
      BY <1>1, <1>5
    <3>2. f[1] = s[1] /\ g[1] = t[1] /\ t[1] = s[1]
      BY <1>1, <1>3, <2>2, <3>1
    <3> QED BY <3>2
  <2>4. ASSUME NEW n \in T PROVE n + 1 \in T
    <3> SUFFICES ASSUME (n + 1) + 1 <= Len(s) PROVE f[(n + 1) + 1] = g[(n + 1) + 1]
      OBVIOUS
    <3>1. /\ (n + 1) + 1 \in 1 .. Len(s) /\ (n + 1) + 1 # 1 /\ ((n + 1) + 1) - 1 = n + 1
          /\ (n + 1) + 1 \in 1 .. Len(s) + 1 /\ f[n + 1] = g[n + 1]
      BY <1>1
    <3>2. f[(n + 1) + 1] = f[n + 1] \o s[(n + 1) + 1]
      BY <2>2, <3>1
    <3>3. g[(n + 1) + 1] = g[n + 1] \o t[(n + 1) + 1]
      BY <1>3, <3>1
    <3> QED BY <1>1, <3>1, <3>2, <3>3
  <2>5. T = Nat
    <3>1. T \subseteq Nat
      OBVIOUS
    <3> HIDE DEF T
    <3> QED BY <2>3, <2>4, <3>1, Induction
  <2>6. Len(s) - 1 \in Nat /\ (Len(s) - 1) + 1 = Len(s) /\ Len(s) <= Len(s)
    BY <1>1, <1>5
  <2>7. Len(s) - 1 \in T
    <3> HIDE DEF T
    <3> QED BY <2>5, <2>6
  <2>8. f[Len(s)] = g[Len(s)]
    BY <2>6, <2>7
  <2>9. g[Len(t)] = g[Len(s)] \o e
    <3>1. Len(s) + 1 \in 1 .. Len(s) + 1 /\ Len(s) + 1 # 1 /\ (Len(s) + 1) - 1 = Len(s)
      BY <1>1, <1>5
    <3> QED BY <1>1, <1>3, <3>1
  <2> QED BY <1>2, <2>1, <2>8, <2>9 DEF t
<1> QED BY <1>1, <1>4, <1>5

(* ConcatAssociative, under a name that the provers do not look into *)
Join(a, b) == a \o b

LEMMA JoinAssociates ==
  ASSUME NEW V, NEW a \in Seq(V), NEW b \in Seq(V), NEW c \in Seq(V)
  PROVE  Join(Join(a, b), c) = Join(a, Join(b, c))
BY ConcatAssociative DEF Join

LEMMA FlattenConcat ==
  ASSUME NEW V, NEW s \in Seq(Seq(V)), NEW t \in Seq(Seq(V))
  PROVE  FlattenSeq(s \o t) = FlattenSeq(s) \o FlattenSeq(t)
<1> DEFINE S == Seq(V)
           Splits(u) == FlattenSeq(s \o u) = FlattenSeq(s) \o FlattenSeq(u)
           T == {n \in Nat : \A u \in Seq(S) : Len(u) = n => Splits(u)}
<1>1. 0 \in T
  <2> SUFFICES ASSUME NEW u \in Seq(S), Len(u) = 0 PROVE Splits(u)
    OBVIOUS
  <2>1. u = <<>> /\ s \o u = s
    OBVIOUS
  <2>2. FlattenSeq(s) \o <<>> = FlattenSeq(s)
    BY FlattenTyped
  <2> QED BY <2>1, <2>2, FlattenNone
<1>2. ASSUME NEW n \in T PROVE n + 1 \in T
  <2> SUFFICES ASSUME NEW u \in Seq(S), Len(u) = n + 1 PROVE Splits(u)
    OBVIOUS
  <2>1. PICK v \in Seq(S), e \in S : u = Append(v, e) /\ Len(u) = Len(v) + 1
    <3>1. u # <<>>
      OBVIOUS
    <3>2. \E v \in Seq(S), e \in S : u = Append(v, e)
      <4> HIDE DEF S
      <4> QED BY <3>1, SequenceEmptyOrAppend
    <3>3. \A v \in Seq(S), e \in S : Len(Append(v, e)) = Len(v) + 1
      OBVIOUS
    <3> HIDE DEF S
    <3> QED BY <3>2, <3>3
  <2>2. Splits(v)
    <3>1. Len(v) = n
      BY <2>1
    <3> QED BY <3>1
  <2>3. s \o u = Append(s \o v, e) /\ s \o v \in Seq(S)
    BY <2>1
  <2>4. FlattenSeq(s \o u) = FlattenSeq(s \o v) \o e /\ FlattenSeq(u) = FlattenSeq(v) \o e
    BY <2>1, <2>3, FlattenAppend
  <2>5. FlattenSeq(s) \in Seq(V) /\ FlattenSeq(v) \in Seq(V) /\ e \in Seq(V)
    BY FlattenTyped
  <2>6. (FlattenSeq(s) \o FlattenSeq(v)) \o e = FlattenSeq(s) \o (FlattenSeq(v) \o e)
    <3> DEFINE a == FlattenSeq(s)
               b == FlattenSeq(v)
    <3>1. a \in Seq(V) /\ b \in Seq(V) /\ e \in Seq(V)
      BY <2>5
    <3> HIDE DEF a, b, S, T
    <3>2. Join(Join(a, b), e) = Join(a, Join(b, e))
      BY ONLY <3>1, JoinAssociates
    <3> QED BY <3>2, Zenon DEF a, b, Join
  <2> QED BY <2>2, <2>4, <2>6
<1>3. T = Nat
  <2>1. T \subseteq Nat
    OBVIOUS
  <2> HIDE DEF T
  <2> QED BY <1>1, <1>2, <2>1, Induction
<1>4. Len(t) \in Nat
  OBVIOUS
<1>5. Len(t) \in T
  <2> HIDE DEF T
  <2> QED BY <1>3, <1>4
<1> QED BY <1>5

LEMMA FlattenOne ==
  ASSUME NEW V, NEW e \in Seq(V)
  PROVE  FlattenSeq(<<e>>) = e
<1>1. <<>> \in Seq(Seq(V)) /\ Append(<<>>, e) = <<e>> /\ <<>> \o e = e
  BY ConcatEmptySeq
<1>2. FlattenSeq(Append(<<>>, e)) = FlattenSeq(<<>>) \o e
  BY <1>1, FlattenAppend
<1> QED BY <1>1, <1>2, FlattenNone
-----------------------------------------------------------------------------
(* BytesOf, unit by unit *)
Bytes(u) == IF u[2] > 0 THEN <<u>> ELSE <<>>

Pieces(units) == [n \in DOMAIN units |-> Bytes(units[n])]

LEMMA PiecesFacts ==
  ASSUME NEW s \in Seq(Unit)
  PROVE  /\ Pieces(s) \in Seq(Seq(Unit)) /\ BytesOf(s) = FlattenSeq(Pieces(s)) /\ BytesOf(s) \in Seq(Unit)
         /\ Len(Pieces(s)) = Len(s) /\ \A n \in 1 .. Len(s) : Pieces(s)[n] = Bytes(s[n])
<1>1. DOMAIN s = 1 .. Len(s) /\ Len(s) \in Nat /\ \A n \in 1 .. Len(s) : Bytes(s[n]) \in Seq(Unit)
  BY DEF Bytes
<1>2. Pieces(s) \in [1 .. Len(s) -> Seq(Unit)]
  BY <1>1 DEF Pieces
<1>3. Pieces(s) \in Seq(Seq(Unit)) /\ Len(Pieces(s)) = Len(s)
  <2> DEFINE p == Pieces(s)
             n == Len(s)
  <2>1. n \in Nat /\ p \in [1 .. n -> Seq(Unit)]
    BY <1>1, <1>2
  <2> HIDE DEF p, n
  <2>2. p \in Seq(Seq(Unit)) /\ Len(p) = n
    BY ONLY <2>1
  <2> QED BY <2>2 DEF p, n
<1>4. \A n \in 1 .. Len(s) : Pieces(s)[n] = Bytes(s[n])
  BY <1>1 DEF Pieces
<1>5. BytesOf(s) = FlattenSeq(Pieces(s))
  BY DEF BytesOf, Pieces, Bytes
<1> QED BY <1>3, <1>4, <1>5, FlattenTyped

LEMMA BytesOfConcat ==
  ASSUME NEW s \in Seq(Unit), NEW t \in Seq(Unit)
  PROVE  BytesOf(s \o t) = BytesOf(s) \o BytesOf(t)
<1>1. s \o t \in Seq(Unit) /\ Len(s \o t) = Len(s) + Len(t) /\ Len(s) \in Nat /\ Len(t) \in Nat
  OBVIOUS
<1> DEFINE p == Pieces(s)
           q == Pieces(t)
           r == Pieces(s \o t)
<1>2. /\ p \in Seq(Seq(Unit)) /\ Len(p) = Len(s) /\ \A n \in 1 .. Len(s) : p[n] = Bytes(s[n])
      /\ q \in Seq(Seq(Unit)) /\ Len(q) = Len(t) /\ \A n \in 1 .. Len(t) : q[n] = Bytes(t[n])
  BY PiecesFacts
<1>3. /\ r \in Seq(Seq(Unit)) /\ Len(r) = Len(s) + Len(t)
      /\ \A n \in 1 .. Len(s) + Len(t) : r[n] = Bytes((s \o t)[n])
  BY <1>1, PiecesFacts
<1> HIDE DEF p, q, r
<1>4. /\ p \o q \in Seq(Seq(Unit)) /\ Len(p \o q) = Len(s) + Len(t)
      /\ \A n \in 1 .. Len(s) + Len(t) : (p \o q)[n] = IF n <= Len(s) THEN p[n] ELSE q[n - Len(s)]
  <2>1. /\ p \o q \in Seq(Seq(Unit)) /\ Len(p \o q) = Len(p) + Len(q)
        /\ \A n \in 1 .. Len(p) + Len(q) : (p \o q)[n] = IF n <= Len(p) THEN p[n] ELSE q[n - Len(p)]
    <3>1. p \in Seq(Seq(Unit)) /\ q \in Seq(Seq(Unit))
      BY <1>2
    <3> QED BY <3>1, ConcatProperties
  <2> QED BY <1>2, <2>1
<1>5. \A n \in 1 .. Len(s) + Len(t) : (s \o t)[n] = IF n <= Len(s) THEN s[n] ELSE t[n - Len(s)]
  BY ConcatProperties
<1>6. ASSUME NEW n \in 1 .. Len(s) + Len(t) PROVE r[n] = (p \o q)[n]
  <2>1. CASE n <= Len(s)
    <3>1. n \in 1 .. Len(s)
      BY <1>1, <2>1
    <3> QED BY <1>2, <1>3, <1>4, <1>5, <2>1, <3>1
  <2>2. CASE n > Len(s)
    <3>1. n - Len(s) \in 1 .. Len(t) /\ ~(n <= Len(s))
      BY <1>1, <2>2
    <3> QED BY <1>2, <1>3, <1>4, <1>5, <3>1
  <2>3. n <= Len(s) \/ n > Len(s)
    BY <1>1
  <2> QED BY <2>1, <2>2, <2>3
<1>7. r = p \o q
  <2>1. Len(r) = Len(p \o q) /\ \A n \in 1 .. Len(r) : r[n] = (p \o q)[n]
    BY <1>3, <1>4, <1>6
  <2>2. r \in Seq(Seq(Unit)) /\ p \o q \in Seq(Seq(Unit))
    BY <1>3, <1>4
  <2> QED BY <2>1, <2>2, SeqEqual
<1>8. FlattenSeq(r) = FlattenSeq(p) \o FlattenSeq(q)
  BY <1>2, <1>7, FlattenConcat
<1> QED BY <1>1, <1>8, PiecesFacts DEF p, q, r

LEMMA BytesOfOne ==
  ASSUME NEW u \in Unit
  PROVE  BytesOf(<<u>>) = Bytes(u)
<1>1. <<u>> \in Seq(Unit) /\ Bytes(u) \in Seq(Unit)
  BY DEF Bytes
<1>2. Pieces(<<u>>) = <<Bytes(u)>>
  BY DEF Pieces
<1> QED BY <1>1, <1>2, PiecesFacts, FlattenOne

(* Where every unit is a byte BytesOf leaves none out. *)
LEMMA BytesOfText ==
  ASSUME NEW s \in Seq(Unit), \A n \in 1 .. Len(s) : s[n][2] > 0
  PROVE  BytesOf(s) = s
<1> DEFINE Same(t) == (\A n \in 1 .. Len(t) : t[n][2] > 0) => BytesOf(t) = t
           T == {n \in Nat : \A t \in Seq(Unit) : Len(t) = n => Same(t)}
<1>1. 0 \in T
  <2> SUFFICES ASSUME NEW t \in Seq(Unit), Len(t) = 0 PROVE BytesOf(t) = t
    OBVIOUS
  <2>1. t = <<>> /\ Pieces(t) = <<>>
    BY DEF Pieces
  <2> QED BY <2>1, PiecesFacts, FlattenNone
<1>2. ASSUME NEW n \in T PROVE n + 1 \in T
  <2> SUFFICES ASSUME NEW t \in Seq(Unit), Len(t) = n + 1, \A k \in 1 .. Len(t) : t[k][2] > 0
               PROVE  BytesOf(t) = t
    OBVIOUS
  <2>1. PICK v \in Seq(Unit), e \in Unit : t = Append(v, e)
    <3>1. t # <<>>
      OBVIOUS
    <3> QED BY <3>1, SequenceEmptyOrAppend
  <2>2. Len(v) = n /\ (\A k \in 1 .. Len(v) : v[k][2] > 0) /\ e[2] > 0
    <3>1. Len(v) = n /\ Len(t) \in 1 .. Len(t) /\ t[Len(t)] = e
      BY <2>1
    <3>2. \A k \in 1 .. Len(v) : k \in 1 .. Len(t) /\ v[k] = t[k]
      BY <2>1, <3>1
    <3> QED BY <3>1, <3>2
  <2>3. BytesOf(v) = v
    BY <2>2
  <2>4. t = v \o <<e>> /\ <<e>> \in Seq(Unit)
    BY <2>1, AppendIsConcat
  <2>5. BytesOf(<<e>>) = <<e>>
    BY <2>2, BytesOfOne DEF Bytes
  <2> QED BY <2>3, <2>4, <2>5, BytesOfConcat
<1>3. T = Nat
  <2>1. T \subseteq Nat
    OBVIOUS
  <2> HIDE DEF T
  <2> QED BY <1>1, <1>2, <2>1, Induction
<1>4. Len(s) \in T
  <2>1. Len(s) \in Nat
    OBVIOUS
  <2> HIDE DEF T
  <2> QED BY <1>3, <2>1
<1> QED BY <1>4

-----------------------------------------------------------------------------
(* What was read, and what is in the FIFO, are the bytes that were written. *)
Through == FlattenSeq(received) \o fifo

BytesInv == BytesOf(Through) = FlattenSeq(Written)

LEMMA ThroughTyped ==
  ASSUME TypeInv
  PROVE  /\ received \in Seq(Seq(Unit)) /\ fifo \in Seq(Unit) /\ FlattenSeq(received) \in Seq(Unit)
         /\ Through \in Seq(Unit)
<1>1. received \in Seq(Seq(Unit)) /\ fifo \in Seq(Unit)
  BY DEF TypeInv
<1>2. FlattenSeq(received) \in Seq(Unit)
  BY <1>1, FlattenTyped
<1> DEFINE r == FlattenSeq(received)
<1>3. r \o fifo \in Seq(Unit)
  <2> HIDE DEF r
  <2>1. r \in Seq(Unit)
    BY <1>2 DEF r
  <2> QED BY <1>1, <2>1, ConcatProperties
<1> QED BY <1>1, <1>2, <1>3 DEF Through

(* A read() that hands over what it takes changes nothing about what came through. *)
LEMMA HandedOver ==
  ASSUME TypeInv, NEW k \in 1 .. Len(fifo),
         received' = Append(received, SubSeq(fifo, 1, k)), fifo' = Drop(fifo, k)
  PROVE  Through' = Through
<1> DEFINE r == FlattenSeq(received)
           t == SubSeq(fifo, 1, k)
           d == Drop(fifo, k)
<1>1. received \in Seq(Seq(Unit)) /\ fifo \in Seq(Unit) /\ r \in Seq(Unit)
  BY ThroughTyped
<1>2. t \in Seq(Unit) /\ d \in Seq(Unit)
  BY <1>1 DEF Drop
<1>3. t \o d = fifo
  <2>1. /\ 1 \in 1 .. Len(fifo) + 1 /\ k \in 1 - 1 .. Len(fifo) /\ Len(fifo) \in k .. Len(fifo)
        /\ SubSeq(fifo, 1, Len(fifo)) = fifo
    BY <1>1
  <2>2. SubSeq(fifo, 1, k) \o SubSeq(fifo, k + 1, Len(fifo)) = SubSeq(fifo, 1, Len(fifo))
    BY <1>1, <2>1, ConcatAdjacentSubSeq
  <2> QED BY <2>1, <2>2 DEF Drop
<1>4. FlattenSeq(received') = r \o t
  <2>1. received' = Append(received, t)
    OBVIOUS
  <2> HIDE DEF t
  <2> QED BY <1>1, <1>2, <2>1, FlattenAppend
<1>5. fifo' = d
  OBVIOUS
<1> HIDE DEF r, t, d
<1>6. (r \o t) \o d = r \o (t \o d)
  <2>1. r \in Seq(Unit) /\ t \in Seq(Unit) /\ d \in Seq(Unit)
    BY <1>1, <1>2
  <2>2. Join(Join(r, t), d) = Join(r, Join(t, d))
    BY ONLY <2>1, JoinAssociates
  <2> QED BY <2>2, Zenon DEF Join
<1>7. Through' = (r \o t) \o d
  BY <1>4, <1>5 DEF Through
<1>8. Through = r \o fifo
  BY DEF Through, r
<1> QED BY <1>3, <1>6, <1>7, <1>8

(* A number, or a length, is no byte. *)
LEMMA NumberTaken ==
  ASSUME TypeInv, fifo # <<>>, fifo[1][2] = 0, fifo' = Tail(fifo), UNCHANGED received
  PROVE  BytesOf(Through') = BytesOf(Through)
<1> DEFINE r == FlattenSeq(received)
           d == Tail(fifo)
           u == fifo[1]
<1>1. fifo \in Seq(Unit) /\ r \in Seq(Unit)
  BY ThroughTyped
<1>2. d \in Seq(Unit) /\ u \in Unit /\ <<u>> \in Seq(Unit) /\ fifo = <<u>> \o d
  BY <1>1
<1>3. BytesOf(<<u>>) = <<>>
  BY <1>2, BytesOfOne DEF Bytes
<1>4. Through' = r \o d /\ Through = r \o fifo
  BY DEF Through
<1> HIDE DEF r, d, u
<1>5. BytesOf(fifo) = BytesOf(d)
  <2>1. BytesOf(fifo) = <<>> \o BytesOf(d)
    BY <1>2, <1>3, BytesOfConcat
  <2>2. BytesOf(d) \in Seq(Unit)
    BY <1>2, PiecesFacts
  <2> DEFINE b == BytesOf(d)
  <2> HIDE DEF b
  <2>3. b \in Seq(Unit)
    BY <2>2 DEF b
  <2>4. <<>> \o b = b
    BY ONLY <2>3, ConcatEmptySeq
  <2> QED BY <2>1, <2>4, Zenon DEF b
<1>6. BytesOf(r \o d) = BytesOf(r) \o BytesOf(d) /\ BytesOf(r \o fifo) = BytesOf(r) \o BytesOf(fifo)
  BY <1>1, <1>2, BytesOfConcat
<1> QED BY ONLY <1>4, <1>5, <1>6, Zenon

(* What is written is behind all that came through before. *)
LEMMA WrittenBehind ==
  ASSUME TypeInv, NEW more \in Seq(Unit), fifo' = fifo \o more, UNCHANGED received
  PROVE  BytesOf(Through') = BytesOf(Through) \o BytesOf(more)
<1> DEFINE r == FlattenSeq(received)
<1>1. fifo \in Seq(Unit) /\ r \in Seq(Unit) /\ Through \in Seq(Unit)
  BY ThroughTyped
<1>2. Through' = r \o (fifo \o more) /\ Through = r \o fifo
  BY DEF Through
<1> HIDE DEF r
<1>3. r \o (fifo \o more) = (r \o fifo) \o more
  <2>1. more \in Seq(Unit)
    OBVIOUS
  <2>2. Join(Join(r, fifo), more) = Join(r, Join(fifo, more))
    BY ONLY <1>1, <2>1, JoinAssociates
  <2> QED BY <2>2, Zenon DEF Join
<1>4. Through' = Through \o more
  BY <1>2, <1>3
<1> QED BY <1>1, <1>4, BytesOfConcat
-----------------------------------------------------------------------------
(* The bytes of a string up to the n-th. *)
LEMMA TextUnits ==
  ASSUME NEW i \in Nat, NEW n \in Nat
  PROVE  /\ Units(i, 1, n) \in Seq(Unit) /\ Len(Units(i, 1, n)) = n
         /\ \A j \in 1 .. n : Units(i, 1, n)[j] = <<i, j>>
<1> DEFINE k == 1
<1>1. k \in Nat /\ n + 1 >= k /\ n - k + 1 = n /\ \A j \in 1 .. n : k + j - 1 = j
  OBVIOUS
<1> HIDE DEF k
<1>2. /\ Units(i, k, n) \in Seq(Unit) /\ Len(Units(i, k, n)) = n - k + 1
      /\ \A j \in 1 .. n - k + 1 : Units(i, k, n)[j] = <<i, k + j - 1>>
  BY <1>1, UnitsProperties
<1>3. /\ Units(i, k, n) \in Seq(Unit) /\ Len(Units(i, k, n)) = n
      /\ \A j \in 1 .. n : Units(i, k, n)[j] = <<i, j>>
  BY <1>1, <1>2
<1> QED BY <1>3 DEF k

(* what has been written of item i *)
Text(i) == Units(i, 1, script[i] - IF i = sending THEN left ELSE 0)

LEMMA TextsTyped ==
  ASSUME TypeInv
  PROVE  /\ Written \in Seq(Seq(Unit)) /\ Len(Written) = sending
         /\ \A i \in 1 .. sending : Written[i] = Text(i)
<1>1. /\ sending \in Nat /\ sending <= Len(script) /\ left \in Nat
      /\ (sending > 0 => left <= script[sending]) /\ \A i \in 1 .. sending : script[i] \in Nat
  BY Sizes DEF TypeInv
<1>2. ASSUME NEW i \in 1 .. sending PROVE Text(i) \in Seq(Unit)
  <2> DEFINE n == script[i] - IF i = sending THEN left ELSE 0
  <2>1. i \in Nat /\ n \in Nat
    BY <1>1
  <2> QED BY <2>1, TextUnits DEF Text
<1>3. Written = [i \in 1 .. sending |-> Text(i)]
  BY DEF Written, Text
<1> QED BY <1>1, <1>2, <1>3

(* The string of the item that is being written gets longer, the others stay as they are. *)
LEMMA TextsBefore ==
  ASSUME TypeInv, UNCHANGED script, NEW i \in 1 .. sending, i # sending \/ left = 0,
         i # sending' \/ left' = 0
  PROVE  Text(i)' = Text(i) /\ Text(i) = Units(i, 1, script[i])
<1>1. script[i] \in Nat
  BY Sizes DEF TypeInv
<1>2. script[i] - 0 = script[i]
  BY <1>1
<1>3. (IF i = sending THEN left ELSE 0) = 0 /\ (IF i = sending' THEN left' ELSE 0) = 0
  OBVIOUS
<1> QED BY <1>2, <1>3 DEF Text

TextsAre == /\ Written \in Seq(Seq(Unit)) /\ Len(Written) = sending
            /\ \A i \in 1 .. sending : Written[i] = Text(i)

LEMMA TextsTypedAfter == TypeInv' => TextsAre'
<1>1. TypeInv => TextsAre
  BY TextsTyped DEF TextsAre
<1> QED BY <1>1, PTL

(* A number adds no byte, on either side. *)
LEMMA WriteNumberBytes == IInv /\ BytesInv /\ WriteNumber => BytesInv'
<1> SUFFICES ASSUME IInv, BytesInv, WriteNumber PROVE BytesInv'
  OBVIOUS
<1>1. TypeInv /\ TypeInv'
  BY WriteNumberInv DEF IInv
<1>2. /\ left = 0 /\ sending' = sending + 1 /\ left' = script[sending'] /\ sending \in Nat
      /\ fifo' = Append(fifo, <<sending', 0>>) /\ UNCHANGED <<script, received>>
  BY <1>1, Sizes DEF WriteNumber, readerVars
<1>3. Written' = Append(Written, <<>>)
  <2>1. /\ Written \in Seq(Seq(Unit)) /\ Len(Written) = sending
        /\ \A i \in 1 .. sending : Written[i] = Text(i)
    BY <1>1, TextsTyped
  <2>2. /\ Written' \in Seq(Seq(Unit)) /\ Len(Written') = sending'
        /\ \A i \in 1 .. sending' : Written'[i] = Text(i)'
    BY <1>1, TextsTypedAfter DEF TextsAre
  <2>3. \A i \in 1 .. sending : Text(i)' = Text(i)
    <3> TAKE i \in 1 .. sending
    <3>1. i # sending'
      BY <1>2
    <3> QED BY <1>1, <1>2, <3>1, TextsBefore
  <2>4. ASSUME NEW i, i = sending' PROVE Text(i)' = <<>>
    <3>1. script[sending'] \in Nat /\ sending' \in Nat
      <4>1. sending' \in 1 .. Len(script)
        BY <1>2, <1>1, Sizes DEF WriteNumber
      <4> QED BY <1>1, <1>2, <4>1, Sizes
    <3>2. (script'[i] - IF i = sending' THEN left' ELSE 0) = 0
      BY <1>2, <2>4, <3>1
    <3>3. Text(i)' = Units(sending', 1, 0)
      BY <2>4, <3>2 DEF Text
    <3>4. Units(sending', 1, 0) \in Seq(Unit) /\ Len(Units(sending', 1, 0)) = 0
      BY <3>1, TextUnits
    <3> QED BY <3>3, <3>4
  <2>5. <<>> \in Seq(Unit)
    OBVIOUS
  <2>6. /\ Append(Written, <<>>) \in Seq(Seq(Unit)) /\ Len(Append(Written, <<>>)) = sending + 1
        /\ \A i \in 1 .. sending : Append(Written, <<>>)[i] = Written[i]
        /\ Append(Written, <<>>)[sending + 1] = <<>>
    BY <2>1, <2>5, AppendProperties
  <2>7. \A i \in 1 .. sending + 1 : Written'[i] = Append(Written, <<>>)[i]
    <3> TAKE i \in 1 .. sending + 1
    <3>1. CASE i = sending + 1
      <4>1. Text(i)' = <<>> /\ i \in 1 .. sending'
        BY <1>2, <2>4, <3>1
      <4> QED BY <2>2, <2>6, <3>1, <4>1
    <3>2. CASE i # sending + 1
      <4>1. i \in 1 .. sending /\ i \in 1 .. sending'
        BY <1>2, <3>2
      <4> QED BY <2>1, <2>2, <2>3, <2>6, <4>1
    <3> QED BY <3>1, <3>2
  <2> QED BY <1>2, <2>2, <2>6, <2>7, SeqEqual
<1>4. FlattenSeq(Written') = FlattenSeq(Written)
  <2>1. FlattenSeq(Append(Written, <<>>)) = FlattenSeq(Written) \o <<>>
    <3>1. Written \in Seq(Seq(Unit)) /\ <<>> \in Seq(Unit)
      BY <1>1, TextsTyped
    <3> QED BY <3>1, FlattenAppend
  <2>2. FlattenSeq(Written) \in Seq(Unit)
    BY <1>1, TextsTyped, FlattenTyped
  <2> QED BY <1>3, <2>1, <2>2, ConcatEmptySeq
<1>5. BytesOf(Through') = BytesOf(Through)
  <2> DEFINE u == <<sending', 0>>
  <2>1. u \in Unit /\ u[2] = 0 /\ <<u>> \in Seq(Unit)
    BY <1>2 DEF Unit
  <2>2. fifo' = fifo \o <<u>>
    <3>1. fifo' = Append(fifo, u)
      BY <1>2
    <3> HIDE DEF u
    <3> QED BY <1>1, <2>1, <3>1, ThroughTyped, AppendIsConcat
  <2> HIDE DEF u
  <2>3. BytesOf(Through') = BytesOf(Through) \o BytesOf(<<u>>)
    BY <1>1, <1>2, <2>1, <2>2, WrittenBehind
  <2>4. BytesOf(<<u>>) = <<>>
    BY <2>1, BytesOfOne DEF Bytes
  <2>5. BytesOf(Through) \in Seq(Unit)
    BY <1>1, ThroughTyped, PiecesFacts
  <2> QED BY <2>3, <2>4, <2>5, ConcatEmptySeq
<1>6. BytesInv' <=> BytesOf(Through') = FlattenSeq(Written')
  BY DEF BytesInv, BytesOf
<1> QED BY <1>4, <1>5, <1>6 DEF BytesInv

(* What write() puts into the FIFO is what the string gets longer by. *)
LEMMA WriteTextBytes == IInv /\ BytesInv /\ WriteText => BytesInv'
<1> SUFFICES ASSUME IInv, BytesInv, WriteText PROVE BytesInv'
  OBVIOUS
<1>1. TypeInv /\ TypeInv'
  BY WriteTextInv DEF IInv
<1>2. PICK n \in 1 .. left :
        /\ fifo' = fifo \o Units(sending, script[sending] - left + 1, script[sending] - left + n)
        /\ left' = left - n
  BY DEF WriteText
<1>0. PICK i : i = sending
  OBVIOUS
<1> USE <1>0
<1> DEFINE a == script[i] - left
           more == Units(i, a + 1, a + n)
<1>3. /\ i \in 1 .. sending /\ i \in Nat /\ script[i] \in Nat /\ left \in 1 .. script[i] /\ n \in 1 .. left
      /\ UNCHANGED <<script, sending, received>>
  <2>1. left > 0 /\ UNCHANGED <<script, sending, received>>
    BY DEF WriteText, readerVars
  <2>2. sending \in Nat /\ left \in Nat /\ (sending = 0 => left = 0) /\ (sending > 0 => left <= script[sending])
    BY <1>1, Sizes DEF TypeInv
  <2>3. sending > 0 /\ script[sending] \in Nat
    BY <1>1, <2>1, <2>2, Sizes
  <2> QED BY <2>1, <2>2, <2>3
<1>4. a \in Nat /\ a + n \in Nat /\ a + 1 \in Nat /\ (a + n) - (a + 1) + 1 = n /\ (a + n) + 1 >= a + 1
      /\ script[i] - left' = a + n /\ \A j \in 1 .. n : (a + 1) + j - 1 = a + j
  <2> DEFINE z == script[i]
  <2>1. z \in Nat /\ left \in 1 .. z /\ n \in 1 .. left /\ left' = left - n
    BY <1>2, <1>3
  <2>2. a = z - left
    OBVIOUS
  <2> HIDE DEF z, a
  <2>3. a \in Nat
    BY <2>1, <2>2
  <2>4. z - left' = a + n
    BY <2>1, <2>2
  <2>5. a + n \in Nat /\ a + 1 \in Nat /\ (a + n) - (a + 1) + 1 = n /\ (a + n) + 1 >= a + 1
        /\ \A j \in 1 .. n : (a + 1) + j - 1 = a + j
    BY <2>1, <2>3
  <2> QED BY <2>3, <2>4, <2>5 DEF z
<1> HIDE DEF a
<1>5. /\ more \in Seq(Unit) /\ Len(more) = n
      /\ \A j \in 1 .. n : more[j] = <<i, a + j>>
  <2> DEFINE k == a + 1
             l == a + n
  <2>1. k \in Nat /\ l \in Nat /\ l + 1 >= k /\ l - k + 1 = n /\ i \in Nat /\ \A j \in 1 .. n : k + j - 1 = a + j
    BY <1>3, <1>4
  <2> HIDE DEF k, l
  <2>2. /\ Units(i, k, l) \in Seq(Unit) /\ Len(Units(i, k, l)) = l - k + 1
        /\ \A j \in 1 .. l - k + 1 : Units(i, k, l)[j] = <<i, k + j - 1>>
    BY <2>1, UnitsProperties
  <2> QED BY <2>1, <2>2 DEF k, l
<1>6. fifo' = fifo \o more
  BY <1>2 DEF a
<1> HIDE DEF more
<1>7. BytesOf(more) = more
  <2>1. \A j \in 1 .. Len(more) : more[j][2] > 0
    <3> TAKE j \in 1 .. Len(more)
    <3>1. more[j] = <<i, a + j>> /\ a + j > 0
      BY <1>4, <1>5
    <3> QED BY <3>1
  <2> QED BY <1>5, <2>1, BytesOfText
<1>8. BytesOf(Through') = BytesOf(Through) \o more
  BY <1>1, <1>3, <1>5, <1>6, <1>7, WrittenBehind
<1>9. Text(i) = Units(i, 1, a) /\ Units(i, 1, a + n) = Units(i, 1, a) \o more
  <2>1. Text(i) = Units(i, 1, a)
    BY DEF Text, a
  <2> DEFINE p == Units(i, 1, a)
             q == Units(i, 1, a + n)
  <2>2. p \in Seq(Unit) /\ Len(p) = a /\ \A j \in 1 .. a : p[j] = <<i, j>>
    BY <1>3, <1>4, TextUnits
  <2>3. q \in Seq(Unit) /\ Len(q) = a + n /\ \A j \in 1 .. a + n : q[j] = <<i, j>>
    BY <1>3, <1>4, TextUnits
  <2> HIDE DEF p, q
  <2>4. /\ p \o more \in Seq(Unit) /\ Len(p \o more) = a + n
        /\ \A j \in 1 .. a + n : (p \o more)[j] = IF j <= a THEN p[j] ELSE more[j - a]
    BY <1>5, <2>2, ConcatProperties
  <2>5. ASSUME NEW j \in 1 .. a + n PROVE q[j] = (p \o more)[j]
    <3>1. CASE j <= a
      <4>1. j \in 1 .. a
        BY <3>1
      <4> QED BY <2>2, <2>3, <2>4, <3>1, <4>1
    <3>2. CASE j > a
      <4>1. j - a \in 1 .. n /\ ~(j <= a) /\ a + (j - a) = j
        BY <1>4, <3>2
      <4> QED BY <1>5, <2>3, <2>4, <4>1
    <3>3. j <= a \/ j > a
      BY <1>4
    <3> QED BY <3>1, <3>2, <3>3
  <2>6. q = p \o more
    BY <2>3, <2>4, <2>5, SeqEqual
  <2> QED BY <2>1, <2>6 DEF p, q
<1>10. Text(i)' = Text(i) \o more
  <2>1. script'[i] - (IF i = sending' THEN left' ELSE 0) = a + n
    BY <1>3, <1>4
  <2> QED BY <1>3, <1>9, <2>1 DEF Text
<1>11. /\ Written \in Seq(Seq(Unit)) /\ Len(Written) = i
       /\ \A j \in 1 .. i : Written[j] = Text(j)
  BY <1>1, TextsTyped
<1>12. /\ Written' \in Seq(Seq(Unit)) /\ Len(Written') = i
       /\ \A j \in 1 .. i : Written'[j] = Text(j)'
  BY <1>1, <1>3, TextsTypedAfter DEF TextsAre
<1>13. \A j \in 1 .. i : j # i => Text(j)' = Text(j)
  <2> TAKE j \in 1 .. i
  <2> HAVE j # i
  <2>1. j # sending /\ j # sending' /\ j \in 1 .. sending
    BY <1>3
  <2> QED BY <1>1, <1>3, <2>1, TextsBefore
<1>14. PICK P \in Seq(Seq(Unit)), e \in Seq(Unit) : Written = Append(P, e)
  <2>1. Written # <<>>
    BY <1>3, <1>11
  <2> DEFINE S == Seq(Unit)
  <2>2. Written \in Seq(S)
    BY <1>11
  <2>3. \E P \in Seq(S), e \in S : Written = Append(P, e)
    <3> HIDE DEF S
    <3> QED BY <2>1, <2>2, SequenceEmptyOrAppend
  <2> QED BY <2>3
<1>15. /\ Len(P) + 1 = i /\ e = Text(i)
       /\ \A j \in 1 .. Len(P) : j \in 1 .. i /\ j # i /\ P[j] = Text(j)
  <2>1. /\ Len(Append(P, e)) = Len(P) + 1 /\ Append(P, e)[Len(P) + 1] = e /\ Len(P) \in Nat
        /\ \A j \in 1 .. Len(P) : Append(P, e)[j] = P[j]
    BY AppendProperties
  <2>2. Len(P) + 1 = i /\ i \in 1 .. i /\ \A j \in 1 .. Len(P) : j \in 1 .. i /\ j # i
    BY <1>11, <1>14, <2>1
  <2> QED BY <1>11, <1>14, <2>1, <2>2
<1>16. e \o more \in Seq(Unit)
  BY <1>5
<1>17. Written' = Append(P, e \o more)
  <2> DEFINE w == Append(P, e \o more)
  <2>1. /\ w \in Seq(Seq(Unit)) /\ Len(w) = Len(P) + 1 /\ w[Len(P) + 1] = e \o more
        /\ \A j \in 1 .. Len(P) : w[j] = P[j]
    BY <1>16, AppendProperties
  <2> HIDE DEF w
  <2>2. ASSUME NEW j \in 1 .. i PROVE Written'[j] = w[j]
    <3>1. CASE j = i
      BY <1>10, <1>12, <1>15, <2>1, <3>1
    <3>2. CASE j # i
      <4>1. j \in 1 .. Len(P)
        BY <1>15, <3>2
      <4> QED BY <1>12, <1>13, <1>15, <2>1, <3>2, <4>1
    <3> QED BY <3>1, <3>2
  <2>3. Written' = w
    <3>1. Written' \in Seq(Seq(Unit)) /\ Len(Written') = i /\ w \in Seq(Seq(Unit)) /\ Len(w) = i
      BY <1>12, <1>15, <2>1
    <3>2. Len(Written') = Len(w) /\ \A j \in 1 .. Len(Written') : Written'[j] = w[j]
      BY <2>2, <3>1
    <3> QED BY <3>1, <3>2, SeqEqual
  <2> QED BY <2>3 DEF w
<1>18. FlattenSeq(Written') = FlattenSeq(Written) \o more
  <2> DEFINE f == FlattenSeq(P)
  <2>1. FlattenSeq(Written) = f \o e /\ FlattenSeq(Written') = f \o (e \o more) /\ f \in Seq(Unit)
    BY <1>14, <1>16, <1>17, FlattenAppend, FlattenTyped
  <2> HIDE DEF f
  <2>2. (f \o e) \o more = f \o (e \o more)
    <3>1. f \in Seq(Unit) /\ e \in Seq(Unit) /\ more \in Seq(Unit)
      BY <1>5, <2>1
    <3>2. Join(Join(f, e), more) = Join(f, Join(e, more))
      BY ONLY <3>1, JoinAssociates
    <3> QED BY <3>2, Zenon DEF Join
  <2> QED BY <2>1, <2>2
<1>19. BytesInv' <=> BytesOf(Through') = FlattenSeq(Written')
  BY DEF BytesInv, BytesOf
<1> QED BY <1>8, <1>18, <1>19 DEF BytesInv

(* What came through is as it was, and so is what was written. *)
LEMMA ReadBytes ==
  ASSUME BytesInv, UNCHANGED senderVars, BytesOf(Through') = BytesOf(Through)
  PROVE  BytesInv'
<1>1. Written' = Written
  BY DEF Written, senderVars
<1>2. BytesInv' <=> BytesOf(Through') = FlattenSeq(Written')
  BY DEF BytesInv, BytesOf
<1> QED BY <1>1, <1>2 DEF BytesInv

LEMMA StepBytes == IInv /\ BytesInv /\ [Next]_framingVars => BytesInv'
<1> SUFFICES ASSUME IInv, BytesInv, [Next]_framingVars PROVE BytesInv'
  OBVIOUS
<1>1. TypeInv /\ fifo \in Seq(Unit)
  BY DEF IInv, TypeInv
<1>2. CASE WriteNumber  BY <1>2, WriteNumberBytes
<1>3. CASE WriteText  BY <1>3, WriteTextBytes
<1>4. CASE ReadInt
  <2>1. fifo # <<>> /\ received' = Append(received, <<fifo[1]>>) /\ fifo' = Tail(fifo) /\ UNCHANGED senderVars
    BY <1>4 DEF ReadInt, Aligned
  <2> DEFINE k == 1
  <2>2. k \in 1 .. Len(fifo)
    BY <1>1, <2>1
  <2>3. SubSeq(fifo, 1, k) = <<fifo[1]>>
    <3>1. Len(fifo) \in Nat \ {0} /\ fifo[1] \in Unit
      BY <1>1, <2>1
    <3>2. SubSeq(fifo, 1, k) = [j \in 1 .. 1 |-> fifo[j]]
      BY <1>1, <3>1
    <3>3. [j \in 1 .. 1 |-> fifo[j]] = <<fifo[1]>>
      OBVIOUS
    <3> QED BY <3>2, <3>3
  <2>4. Drop(fifo, k) = Tail(fifo)
    BY <1>1, <2>1 DEF Drop
  <2> HIDE DEF k
  <2>5. received' = Append(received, SubSeq(fifo, 1, k)) /\ fifo' = Drop(fifo, k)
    BY <2>1, <2>3, <2>4
  <2> QED BY <1>1, <2>1, <2>2, <2>5, HandedOver, ReadBytes
<1>5. CASE ReadSize
  BY <1>1, <1>5, NumberTaken, ReadBytes DEF ReadSize, Aligned
<1>6. CASE ReadGarbage
  <2>1. UNCHANGED <<senderVars, fifo, received>>
    BY <1>6 DEF ReadGarbage
  <2> QED BY <2>1, ReadBytes DEF Through
<1>7. CASE ReadText
  <2>1. PICK n : /\ n = IF Len(fifo) < buf_size THEN Len(fifo) ELSE buf_size
                 /\ received' = Append(received, SubSeq(fifo, 1, n))
                 /\ fifo' = SubSeq(fifo, n + 1, Len(fifo))
    BY <1>7 DEF ReadText
  <2>2. reading = "text" /\ fifo # <<>> /\ UNCHANGED senderVars
    BY <1>7 DEF ReadText
  <2>3. buf_size \in Nat /\ buf_size > 0
    BY <2>2 DEF IInv, TypeInv, ReaderInv
  <2>4. n \in 1 .. Len(fifo)
    <3>1. Len(fifo) \in Nat \ {0}
      BY <1>1, <2>2
    <3> QED BY <2>1, <2>3, <3>1
  <2>5. fifo' = Drop(fifo, n)
    BY <2>1 DEF Drop
  <2>6. Through' = Through
    BY <1>1, <2>1, <2>4, <2>5, HandedOver
  <2> QED BY <2>2, <2>6, ReadBytes
<1>8. CASE UNCHANGED framingVars
  <2>1. UNCHANGED <<senderVars, fifo, received>>
    BY <1>8 DEF framingVars, readerVars
  <2> QED BY <2>1, ReadBytes DEF Through
<1> QED BY <1>2, <1>3, <1>4, <1>5, <1>6, <1>7, <1>8 DEF Next, Write, Read

(***************************************************************************)
(* Whatever the lengths, and wherever write() cuts a string and read_msg   *)
(* takes less than one: the bytes that were read, followed by those in the *)
(* FIFO, are all the bytes written so far, once and in their order, and    *)
(* the FIFO is never over its capacity.                                    *)
(***************************************************************************)
THEOREM BytesGoThrough == Spec => []BytesInOrder
<1>1. Init => BytesInv
  <2> SUFFICES ASSUME Init PROVE BytesInv
    OBVIOUS
  <2>1. received = <<>> /\ fifo = <<>> /\ sending = 0
    BY DEF Init
  <2>2. Written = <<>>
    BY <2>1 DEF Written
  <2>3. Through = <<>>
    BY <2>1, FlattenNone, ConcatEmptySeq DEF Through
  <2>4. BytesOf(<<>>) = <<>>
    <3>1. <<>> \in Seq(Unit) /\ Pieces(<<>>) = <<>>
      BY DEF Pieces
    <3> QED BY <3>1, PiecesFacts, FlattenNone
  <2> QED BY <2>2, <2>3, <2>4, FlattenNone DEF BytesInv
<1>2. IInv /\ BytesInv => BytesInOrder
  <2> SUFFICES ASSUME IInv, BytesInv PROVE BytesInOrder
    OBVIOUS
  <2>1. TypeInv
    BY DEF IInv
  <2>2. TypeOK
    <3>1. left \in 0 .. (IF sending = 0 THEN 0 ELSE script[sending])
      BY <2>1, Sizes DEF TypeInv
    <3>2. Len(fifo) \in 0 .. CAPACITY
      BY <2>1, FramingAssumption DEF TypeInv
    <3> QED BY <2>1, <3>1, <3>2 DEF TypeInv, TypeOK
  <2> QED BY <2>2 DEF BytesInOrder, BytesInv, Through
<1> QED BY <1>1, <1>2, StepBytes, Invariance, PTL DEF Spec
=============================================================================
