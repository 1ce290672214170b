-------------------------- MODULE Responses_proofs --------------------------
(***************************************************************************)
(* What the converter of Responses streams makes of an answer, and what    *)
(* the loop makes of that, for any texts, calls and fragments: the blocks  *)
(* of the events, the arguments of the calls, and an answer in turn as it  *)
(* was sent.  Each is an invariant over the events sent so far, on top of  *)
(* the indices of Lanes_proofs.                                            *)
(***************************************************************************)
EXTENDS Lanes_proofs

-----------------------------------------------------------------------------
(* The blocks of a rebuilt answer: every block is started once, gets its deltas *)
(* while it is open, and is stopped once; no two items share an index.          *)

(* The blocks of an answer as its events show them: a block is open from   *)
(* its start on, as long as only deltas followed.                          *)
OpenIn(w, n, x, i) ==
  \E k \in 1..n : /\ w[k].type = "start" /\ w[k].index = x /\ w[k].item = i
                  /\ \A j \in (k + 1)..n : w[j].index = x => w[j].type = "delta"
WellIn(w, n) == \A k \in 1..n : w[k].type \in {"delta", "stop"} => OpenIn(w, k - 1, w[k].index, w[k].item)
OnceIn(w, n) == \A k, l \in 1..n : w[k].type = "start" /\ w[l].type = "start" /\ w[k].index = w[l].index => k = l
StoppedIn(w, n, k) == \E l \in (k + 1)..n : w[l].type = "stop" /\ w[l].index = w[k].index

(* What is known of the items (index, started, closed), and what the events *)
(* say of them.                                                             *)
Indices(idx, st, cl) ==
  /\ idx \in [Items -> Int] /\ st \in [Items -> BOOLEAN] /\ cl \in [Items -> BOOLEAN]
  /\ \A i, j \in Items : idx[i] = idx[j] /\ idx[i] # -1 => i = j
  /\ \A i \in Items : (st[i] => idx[i] # -1) /\ (cl[i] => st[i])
Blocks(w, n, idx, st, cl) ==
  /\ n \in Nat /\ Indices(idx, st, cl) /\ WellIn(w, n) /\ OnceIn(w, n)
  /\ \A k \in 1..n : w[k].type # "end"
  /\ \A k \in 1..n : w[k].type = "start" =>
       /\ w[k].item \in Items /\ st[w[k].item] /\ w[k].index = idx[w[k].item]
       /\ cl[w[k].item] => StoppedIn(w, n, k)
  /\ \A i \in Items : st[i] /\ ~cl[i] => OpenIn(w, n, idx[i], i)

(* What the first events say of an open block is not undone by later ones.  *)
LEMMA OpenStays ==
  ASSUME NEW n \in Nat, NEW c \in 0..n, NEW w, NEW out, Same(w, out, n), NEW x, NEW i, OpenIn(out, c, x, i)
  PROVE  OpenIn(w, c, x, i)
<1>1. PICK k \in 1..c : /\ out[k].type = "start" /\ out[k].index = x /\ out[k].item = i
                        /\ \A j \in (k + 1)..c : out[j].index = x => out[j].type = "delta"
  BY DEF OpenIn
<1>2. k \in 1..n /\ \A j \in (k + 1)..c : j \in 1..n
  OBVIOUS
<1> QED
  BY <1>1, <1>2 DEF OpenIn, Same

(* An open block stays open as long as it gets only deltas.                 *)
LEMMA OpenGoesOn ==
  ASSUME NEW w, NEW out, NEW n, NEW ev, NEW m, Goes(w, out, n, ev, m), NEW x, NEW i, OpenIn(out, n, x, i),
         NEW c \in 0..m, \A k \in 1..c : ev[k].index = x => ev[k].type = "delta"
  PROVE  OpenIn(w, n + c, x, i)
<1>1. n \in Nat /\ m \in Nat /\ Same(w, out, n) /\ \A k \in 1..m : w[n + k] = ev[k]
  BY DEF Goes
<1>2. PICK k \in 1..n : /\ w[k].type = "start" /\ w[k].index = x /\ w[k].item = i
                        /\ \A j \in (k + 1)..n : w[j].index = x => w[j].type = "delta"
  <2>1. OpenIn(w, n, x, i)
    <3>1. n \in 0..n
      BY <1>1
    <3> QED
      BY <1>1, <3>1, OpenStays
  <2> QED
    BY <2>1 DEF OpenIn
<1>3. ASSUME NEW j \in (k + 1)..(n + c), w[j].index = x PROVE w[j].type = "delta"
  <2>1. CASE j \in (k + 1)..n
    BY <1>2, <1>3, <2>1
  <2>2. CASE j \notin (k + 1)..n
    <3>1. j \in 1..(n + c) /\ j \notin 1..n /\ c \in Nat
      BY <1>1, <2>2
    <3>2. PICK l \in 1..c : j = n + l
      BY <1>1, <3>1, Positions
    <3>3. l \in 1..m
      BY <1>1
    <3> QED
      BY <1>1, <1>3, <3>2, <3>3
  <2> QED
    BY <2>1, <2>2
<1>4. k \in 1..(n + c)
  BY <1>1
<1> QED
  BY <1>2, <1>3, <1>4 DEF OpenIn

(* A stopped block stays stopped.                                           *)
LEMMA StoppedStays ==
  ASSUME NEW n \in Nat, NEW m \in Nat, NEW w, NEW out, Same(w, out, n), NEW k \in 1..n, StoppedIn(out, n, k)
  PROVE  StoppedIn(w, n + m, k)
<1>1. PICK l \in (k + 1)..n : out[l].type = "stop" /\ out[l].index = out[k].index
  BY DEF StoppedIn
<1>2. l \in 1..n /\ l \in (k + 1)..(n + m)
  OBVIOUS
<1> QED
  BY <1>1, <1>2 DEF StoppedIn, Same

(* What belonged to an open block still does.                               *)
LEMMA WellStays ==
  ASSUME NEW n \in Nat, NEW w, NEW out, Same(w, out, n), WellIn(out, n), NEW k \in 1..n, w[k].type \in {"delta", "stop"}
  PROVE  OpenIn(w, k - 1, w[k].index, w[k].item)
<1>1. w[k] = out[k] /\ k - 1 \in 0..n
  BY DEF Same
<1>2. OpenIn(out, k - 1, w[k].index, w[k].item)
  BY <1>1 DEF WellIn
<1> QED
  BY <1>1, <1>2, OpenStays

(* The events that one item sends in a step, and what they make of it.      *)
Changes(idx, st, cl, idx1, st1, cl1, i) ==
  /\ i \in Items /\ idx1 \in [Items -> Int] /\ st1 \in [Items -> BOOLEAN] /\ cl1 \in [Items -> BOOLEAN]
  /\ \A j \in Items \ {i} : idx1[j] = idx[j] /\ st1[j] = st[j] /\ cl1[j] = cl[j]
  /\ idx1[i] = idx[i] \/ (idx[i] = -1 /\ idx1[i] # -1 /\ \A j \in Items : idx[j] # idx1[i])
  /\ (st1[i] => idx1[i] # -1) /\ (st[i] => st1[i]) /\ (cl[i] => cl1[i])
Speaks(idx, st, cl, idx1, st1, cl1, i, ev, m) ==
  /\ m > 0 => st1[i] /\ ~cl[i]
  /\ ~st[i] /\ st1[i] => m > 0
  /\ ~cl[i] /\ cl1[i] => m = 1 /\ st[i]
  /\ \A k \in 1..m :
       /\ ev[k].index = idx1[i] /\ ev[k].item = i
       /\ ev[k].type = IF k = 1 /\ ~st[i] THEN "start" ELSE IF cl1[i] THEN "stop" ELSE "delta"

(* One item changes; the indices are still apart.                           *)
LEMMA ChangedIndices ==
  ASSUME NEW idx, NEW st, NEW cl, Indices(idx, st, cl), NEW idx1, NEW st1, NEW cl1, NEW i,
         Changes(idx, st, cl, idx1, st1, cl1, i), cl1[i] => st1[i]
  PROVE  Indices(idx1, st1, cl1)
<1>1. \A j, l \in Items : idx[j] = idx[l] /\ idx[j] # -1 => j = l
  BY DEF Indices
<1>2. ASSUME NEW j \in Items, NEW l \in Items, idx1[j] = idx1[l], idx1[j] # -1 PROVE j = l
  BY <1>1, <1>2 DEF Changes, Indices
<1>3. ASSUME NEW j \in Items PROVE (st1[j] => idx1[j] # -1) /\ (cl1[j] => st1[j])
  BY <1>3 DEF Changes, Indices
<1> QED
  BY <1>2, <1>3 DEF Indices, Changes

(* The events of one item, in order, leave well-formed blocks.              *)
LEMMA OneSpeaks ==
  ASSUME NEW w, NEW out, NEW n, NEW ev, NEW m, Goes(w, out, n, ev, m), NEW idx, NEW st, NEW cl, Blocks(out, n, idx, st, cl),
         NEW idx1, NEW st1, NEW cl1, NEW i, Changes(idx, st, cl, idx1, st1, cl1, i),
         Speaks(idx, st, cl, idx1, st1, cl1, i, ev, m)
  PROVE  Blocks(w, n + m, idx1, st1, cl1)
<1>0. n \in Nat /\ m \in Nat /\ n + m \in Nat /\ n \in 0..n /\ Same(w, out, n) /\ \A k \in 1..m : w[n + k] = ev[k]
  BY DEF Goes
<1>1. /\ i \in Items /\ st[i] \in BOOLEAN /\ cl[i] \in BOOLEAN /\ st1[i] \in BOOLEAN /\ cl1[i] \in BOOLEAN
      /\ cl1[i] => st1[i]
  BY DEF Blocks, Indices, Changes, Speaks
<1>2. Indices(idx1, st1, cl1)
  BY <1>1, ChangedIndices DEF Blocks
<1>3. \A k \in 1..m : /\ w[n + k].index = idx1[i] /\ w[n + k].item = i
                      /\ w[n + k].type = IF k = 1 /\ ~st[i] THEN "start" ELSE IF cl1[i] THEN "stop" ELSE "delta"
  BY <1>0 DEF Speaks
<1>4. \A j \in Items : st[j] => idx1[j] = idx[j]
  BY DEF Changes, Blocks, Indices
<1>5. ASSUME m > 0 PROVE st1[i] /\ ~cl[i]
  BY <1>5 DEF Speaks
<1>6. ASSUME NEW k \in 1..n, w[k].type = "start"
      PROVE  /\ w[k].item \in Items /\ st[w[k].item] /\ w[k].index = idx[w[k].item] /\ w[k].index = idx1[w[k].item]
             /\ cl[w[k].item] => StoppedIn(w, n + m, k)
  <2>1. out[k] = w[k]
    BY DEF Same, Goes
  <2>2. /\ w[k].item \in Items /\ st[w[k].item] /\ w[k].index = idx[w[k].item]
        /\ cl[w[k].item] => StoppedIn(out, n, k)
    BY <1>6, <2>1 DEF Blocks
  <2>3. StoppedIn(out, n, k) => StoppedIn(w, n + m, k)
    BY <1>0, StoppedStays
  <2> QED
    BY <1>4, <2>2, <2>3
<1>7. ASSUME NEW c \in 0..m, c > 0 \/ st[i], st1[i], ~cl[i], \A k \in 1..c : (k = 1 /\ ~st[i]) \/ ~cl1[i]
      PROVE  OpenIn(w, n + c, idx1[i], i)
  <2>1. CASE st[i]
    <3>1. OpenIn(out, n, idx1[i], i)
      BY <1>1, <1>4, <1>7, <2>1 DEF Blocks
    <3>2. \A k \in 1..c : k \in 1..m /\ ev[k].type = "delta"
      BY <1>0, <1>7, <2>1 DEF Speaks
    <3> QED
      BY <3>1, <3>2, OpenGoesOn
  <2>2. CASE ~st[i]
    <3>1. c >= 1 /\ 1 \in 1..m /\ n + 1 \in 1..(n + c)
      BY <1>0, <1>7, <2>2
    <3>2. w[n + 1].type = "start" /\ w[n + 1].index = idx1[i] /\ w[n + 1].item = i
      BY <1>3, <2>2, <3>1
    <3>3. ASSUME NEW j \in (n + 2)..(n + c) PROVE w[j].type = "delta"
      <4>1. j \in 1..(n + c) /\ j \notin 1..n /\ c \in Nat
        BY <1>0
      <4>2. PICK l \in 1..c : j = n + l
        BY <1>0, <4>1, Positions
      <4>3. l \in 1..m /\ l # 1
        BY <1>0, <3>3, <4>2
      <4>4. ~cl1[i]
        BY <1>7, <4>2, <4>3
      <4> QED
        BY <1>3, <4>2, <4>3, <4>4
    <3>4. (n + 1) + 1 = n + 2
      BY <1>0
    <3> QED
      BY <3>1, <3>2, <3>3, <3>4 DEF OpenIn
  <2> QED
    BY <2>1, <2>2
<1>8. WellIn(w, n + m)
  <2>1. SUFFICES ASSUME NEW k \in 1..(n + m), w[k].type \in {"delta", "stop"}
                 PROVE  OpenIn(w, k - 1, w[k].index, w[k].item)
    BY DEF WellIn
  <2>2. CASE k \in 1..n
    BY <1>0, <2>1, <2>2, WellStays DEF Blocks
  <2>3. CASE k \notin 1..n
    <3>1. PICK l \in 1..m : k = n + l
      BY <1>0, <2>3, Positions
    <3>2. PICK c \in 0..m : c = l - 1 /\ k - 1 = n + c
      BY <1>0, <3>1
    <3>3. m > 0 /\ st1[i] /\ ~cl[i] /\ w[k].index = idx1[i] /\ w[k].item = i
      BY <1>0, <1>3, <1>5, <3>1
    <3>4. ~(l = 1 /\ ~st[i])
      BY <1>3, <2>1, <3>1
    <3>5. c > 0 \/ st[i]
      BY <1>1, <3>1, <3>2, <3>4
    <3>6. ASSUME NEW a \in 1..c PROVE ~cl1[i]
      <4>1. m # 1
        BY <3>2
      <4> QED
        BY <3>3, <4>1, <1>1 DEF Speaks
    <3>7. OpenIn(w, n + c, idx1[i], i)
      BY <1>7, <3>3, <3>5, <3>6
    <3> QED
      BY <3>2, <3>3, <3>7
  <2> QED
    BY <2>2, <2>3
<1>9. \A l \in 1..m : w[n + l].type = "start" => l = 1 /\ ~st[i]
  BY <1>3
<1>10. OnceIn(w, n + m)
  <2>1. SUFFICES ASSUME NEW k \in 1..(n + m), NEW l \in 1..(n + m),
                        w[k].type = "start", w[l].type = "start", w[k].index = w[l].index
                 PROVE  k = l
    BY DEF OnceIn
  <2>2. ASSUME NEW a \in 1..n, NEW b \in 1..m, w[a].type = "start", w[n + b].type = "start",
               w[a].index = w[n + b].index PROVE FALSE
    <3>1. /\ w[a].item \in Items /\ st[w[a].item] /\ w[a].index = idx1[w[a].item] /\ w[a].index = idx[w[a].item]
      BY <1>6, <2>2
    <3>2. w[n + b].index = idx1[i] /\ ~st[i]
      BY <1>3, <1>9, <2>2
    <3>3. idx1[w[a].item] # -1
      BY <3>1, <2>2 DEF Blocks, Indices
    <3>4. w[a].item = i
      BY <1>1, <1>2, <2>2, <3>1, <3>2, <3>3 DEF Indices
    <3> QED
      BY <3>1, <3>2, <3>4
  <2>3. CASE k \in 1..n /\ l \in 1..n
    <3>1. w[k] = out[k] /\ w[l] = out[l]
      BY <1>0, <2>3 DEF Same
    <3> QED
      BY <2>1, <2>3, <3>1 DEF Blocks, OnceIn
  <2>4. CASE k \in 1..n /\ l \notin 1..n
    <3>1. PICK b \in 1..m : l = n + b
      BY <1>0, <2>4, Positions
    <3> QED
      BY <2>1, <2>2, <2>4, <3>1
  <2>5. CASE k \notin 1..n /\ l \in 1..n
    <3>1. PICK b \in 1..m : k = n + b
      BY <1>0, <2>5, Positions
    <3> QED
      BY <2>1, <2>2, <2>5, <3>1
  <2>6. CASE k \notin 1..n /\ l \notin 1..n
    <3>1. PICK a \in 1..m : k = n + a
      BY <1>0, <2>6, Positions
    <3>2. PICK b \in 1..m : l = n + b
      BY <1>0, <2>6, Positions
    <3>3. a = 1 /\ b = 1
      BY <1>9, <2>1, <3>1, <3>2
    <3> QED
      BY <3>1, <3>2, <3>3
  <2> QED
    BY <2>3, <2>4, <2>5, <2>6
<1>11. ASSUME NEW k \in 1..(n + m) PROVE w[k].type # "end"
  <2>1. CASE k \in 1..n
    BY <1>0, <2>1 DEF Same, Blocks
  <2>2. CASE k \notin 1..n
    <3>1. PICK l \in 1..m : k = n + l
      BY <1>0, <2>2, Positions
    <3> QED
      BY <1>3, <3>1
  <2> QED
    BY <2>1, <2>2
<1>12. ASSUME NEW k \in 1..(n + m), w[k].type = "start"
       PROVE  /\ w[k].item \in Items /\ st1[w[k].item] /\ w[k].index = idx1[w[k].item]
              /\ cl1[w[k].item] => StoppedIn(w, n + m, k)
  <2>1. CASE k \in 1..n
    <3>1. /\ w[k].item \in Items /\ st[w[k].item] /\ w[k].index = idx1[w[k].item]
          /\ cl[w[k].item] => StoppedIn(w, n + m, k)
      BY <1>6, <1>12, <2>1
    <3>2. st1[w[k].item]
      BY <3>1 DEF Changes
    <3>3. CASE w[k].item # i
      BY <3>1, <3>2, <3>3 DEF Changes
    <3>4. CASE w[k].item = i
      <4>1. CASE cl[i]
        BY <3>1, <3>2, <3>4, <4>1
      <4>2. CASE ~cl[i] /\ cl1[i]
        <5>1. m = 1 /\ st[i] /\ 1 \in 1..m
          BY <1>0, <4>2 DEF Speaks
        <5>2. w[n + 1].type = "stop" /\ w[n + 1].index = idx1[i]
          BY <1>3, <4>2, <5>1
        <5>3. n + 1 \in (k + 1)..(n + m)
          BY <1>0, <2>1, <5>1
        <5>4. StoppedIn(w, n + m, k)
          BY <3>1, <3>4, <5>2, <5>3 DEF StoppedIn
        <5> QED
          BY <3>1, <3>2, <3>4, <5>4
      <4>3. CASE ~cl1[i]
        BY <3>1, <3>2, <3>4, <4>3
      <4> QED
        BY <1>1, <4>1, <4>2, <4>3
    <3> QED
      BY <3>3, <3>4
  <2>2. CASE k \notin 1..n
    <3>1. PICK l \in 1..m : k = n + l
      BY <1>0, <2>2, Positions
    <3>2. l = 1 /\ ~st[i] /\ w[k].item = i /\ w[k].index = idx1[i] /\ m > 0
      BY <1>0, <1>3, <1>9, <1>12, <3>1
    <3>3. st1[i] /\ ~cl[i] /\ ~cl1[i]
      BY <1>1, <1>5, <3>2 DEF Speaks
    <3> QED
      BY <1>1, <3>2, <3>3
  <2> QED
    BY <2>1, <2>2
<1>13. ASSUME NEW j \in Items, st1[j], ~cl1[j] PROVE OpenIn(w, n + m, idx1[j], j)
  <2>1. CASE j = i
    <3>1. ~cl[i] /\ (m > 0 \/ st[i])
      BY <1>1, <1>13, <2>1 DEF Changes, Speaks
    <3>2. m \in 0..m
      BY <1>0
    <3> QED
      BY <1>7, <1>13, <2>1, <3>1, <3>2
  <2>2. CASE j # i
    <3>1. st[j] /\ ~cl[j] /\ idx1[j] = idx[j] /\ idx1[j] # -1
      BY <1>13, <2>2 DEF Changes, Blocks, Indices
    <3>2. OpenIn(out, n, idx1[j], j)
      BY <3>1 DEF Blocks
    <3>3. \A k \in 1..m : ev[k].index # idx1[j]
      BY <1>1, <1>2, <2>2, <3>1 DEF Indices, Speaks
    <3>4. m \in 0..m
      BY <1>0
    <3> QED
      BY <3>2, <3>3, <3>4, OpenGoesOn
  <2> QED
    BY <2>1, <2>2
<1> QED
  BY <1>0, <1>2, <1>8, <1>10, <1>11, <1>12, <1>13 DEF Blocks

(* Items that are started one after the other.                              *)
Starting(idx, st, cl, st1, who, ev, m) ==
  /\ who \in [1..m -> Items] /\ \A k, l \in 1..m : who[k] = who[l] => k = l
  /\ \A k \in 1..m : ~st[who[k]] /\ idx[who[k]] # -1
  /\ \A k \in 1..m : ev[k].type = "start" /\ ev[k].index = idx[who[k]] /\ ev[k].item = who[k]
  /\ st1 \in [Items -> BOOLEAN]
  /\ \A i \in Items : st1[i] <=> st[i] \/ \E k \in 1..m : who[k] = i

(* So do the starts of the items that are not started yet.                  *)
LEMMA ManyStart ==
  ASSUME NEW w, NEW out, NEW n, NEW ev, NEW m, Goes(w, out, n, ev, m), NEW idx, NEW st, NEW cl, Blocks(out, n, idx, st, cl),
         NEW st1, NEW who, Starting(idx, st, cl, st1, who, ev, m)
  PROVE  Blocks(w, n + m, idx, st1, cl)
<1>0. n \in Nat /\ m \in Nat /\ n + m \in Nat /\ n \in 0..n /\ m \in 0..m /\ Same(w, out, n) /\ \A k \in 1..m : w[n + k] = ev[k]
  BY DEF Goes
<1>1. Indices(idx, st1, cl)
  BY DEF Blocks, Indices, Starting
<1>2. \A k \in 1..m : /\ w[n + k].type = "start" /\ w[n + k].index = idx[who[k]] /\ w[n + k].item = who[k]
                      /\ who[k] \in Items /\ ~st[who[k]] /\ idx[who[k]] # -1 /\ ~cl[who[k]] /\ st1[who[k]]
  <2>1. SUFFICES ASSUME NEW k \in 1..m
                 PROVE  /\ w[n + k].type = "start" /\ w[n + k].index = idx[who[k]] /\ w[n + k].item = who[k]
                        /\ who[k] \in Items /\ ~st[who[k]] /\ idx[who[k]] # -1 /\ ~cl[who[k]] /\ st1[who[k]]
    OBVIOUS
  <2>2. w[n + k] = ev[k]
    BY <1>0
  <2>3. PICK i \in Items : i = who[k]
    BY DEF Starting
  <2>4. /\ ev[k].type = "start" /\ ev[k].index = idx[i] /\ ev[k].item = i /\ ~st[i] /\ idx[i] # -1
    BY <2>3 DEF Starting
  <2>5. ~cl[i]
    BY <2>4 DEF Blocks, Indices
  <2>6. st1[i]
    BY <2>3 DEF Starting
  <2> QED
    BY <2>2, <2>3, <2>4, <2>5, <2>6
<1>3. ASSUME NEW k \in 1..n, w[k].type = "start"
      PROVE  /\ w[k].item \in Items /\ st[w[k].item] /\ w[k].index = idx[w[k].item]
             /\ cl[w[k].item] => StoppedIn(w, n + m, k)
  <2>1. out[k] = w[k]
    BY DEF Same, Goes
  <2>2. /\ w[k].item \in Items /\ st[w[k].item] /\ w[k].index = idx[w[k].item]
        /\ cl[w[k].item] => StoppedIn(out, n, k)
    BY <1>3, <2>1 DEF Blocks
  <2>3. StoppedIn(out, n, k) => StoppedIn(w, n + m, k)
    BY <1>0, StoppedStays
  <2> QED
    BY <2>2, <2>3
<1>4. WellIn(w, n + m)
  <2>1. SUFFICES ASSUME NEW k \in 1..(n + m), w[k].type \in {"delta", "stop"}
                 PROVE  OpenIn(w, k - 1, w[k].index, w[k].item)
    BY DEF WellIn
  <2>2. CASE k \in 1..n
    BY <1>0, <2>1, <2>2, WellStays DEF Blocks
  <2>3. CASE k \notin 1..n
    <3>1. PICK l \in 1..m : k = n + l
      BY <1>0, <2>3, Positions
    <3> QED
      BY <1>2, <2>1, <3>1
  <2> QED
    BY <2>2, <2>3
<1>5. ASSUME NEW i \in Items, NEW j \in Items, idx[i] = idx[j], idx[i] # -1 PROVE i = j
  BY <1>5 DEF Blocks, Indices
<1>6. OnceIn(w, n + m)
  <2>1. SUFFICES ASSUME NEW k \in 1..(n + m), NEW l \in 1..(n + m),
                        w[k].type = "start", w[l].type = "start", w[k].index = w[l].index
                 PROVE  k = l
    BY DEF OnceIn
  <2>2. ASSUME NEW a \in 1..n, NEW b \in 1..m, w[a].type = "start", w[a].index = w[n + b].index PROVE FALSE
    <3>1. w[a].item \in Items /\ st[w[a].item] /\ w[a].index = idx[w[a].item]
      BY <1>3, <2>2
    <3>2. idx[w[a].item] = idx[who[b]] /\ who[b] \in Items /\ idx[who[b]] # -1 /\ ~st[who[b]]
      BY <1>2, <2>2, <3>1
    <3>3. w[a].item = who[b]
      BY <1>5, <3>1, <3>2
    <3> QED
      BY <3>1, <3>2, <3>3
  <2>3. CASE k \in 1..n /\ l \in 1..n
    <3>1. w[k] = out[k] /\ w[l] = out[l]
      BY <1>0, <2>3 DEF Same
    <3> QED
      BY <2>1, <2>3, <3>1 DEF Blocks, OnceIn
  <2>4. CASE k \in 1..n /\ l \notin 1..n
    <3>1. PICK b \in 1..m : l = n + b
      BY <1>0, <2>4, Positions
    <3> QED
      BY <2>1, <2>2, <2>4, <3>1
  <2>5. CASE k \notin 1..n /\ l \in 1..n
    <3>1. PICK b \in 1..m : k = n + b
      BY <1>0, <2>5, Positions
    <3> QED
      BY <2>1, <2>2, <2>5, <3>1
  <2>6. CASE k \notin 1..n /\ l \notin 1..n
    <3>1. PICK a \in 1..m : k = n + a
      BY <1>0, <2>6, Positions
    <3>2. PICK b \in 1..m : l = n + b
      BY <1>0, <2>6, Positions
    <3>3. who[a] = who[b]
      BY <1>2, <1>5, <2>1, <3>1, <3>2
    <3> QED
      BY <3>1, <3>2, <3>3 DEF Starting
  <2> QED
    BY <2>3, <2>4, <2>5, <2>6
<1>7. ASSUME NEW k \in 1..(n + m) PROVE w[k].type # "end"
  <2>1. CASE k \in 1..n
    BY <1>0, <2>1 DEF Same, Blocks
  <2>2. CASE k \notin 1..n
    <3>1. PICK l \in 1..m : k = n + l
      BY <1>0, <2>2, Positions
    <3> QED
      BY <1>2, <3>1
  <2> QED
    BY <2>1, <2>2
<1>8. ASSUME NEW k \in 1..(n + m), w[k].type = "start"
      PROVE  /\ w[k].item \in Items /\ st1[w[k].item] /\ w[k].index = idx[w[k].item]
             /\ cl[w[k].item] => StoppedIn(w, n + m, k)
  <2>1. CASE k \in 1..n
    BY <1>3, <1>8, <2>1 DEF Starting
  <2>2. CASE k \notin 1..n
    <3>1. PICK l \in 1..m : k = n + l
      BY <1>0, <2>2, Positions
    <3> QED
      BY <1>2, <3>1
  <2> QED
    BY <2>1, <2>2
<1>9. ASSUME NEW j \in Items, st1[j], ~cl[j] PROVE OpenIn(w, n + m, idx[j], j)
  <2>1. CASE st[j]
    <3>1. OpenIn(out, n, idx[j], j) /\ idx[j] # -1
      BY <1>9, <2>1 DEF Blocks, Indices
    <3>2. ASSUME NEW k \in 1..m, ev[k].index = idx[j] PROVE FALSE
      <4>1. who[k] \in Items /\ idx[who[k]] = idx[j] /\ ~st[who[k]]
        BY <1>0, <1>2, <3>2
      <4>2. who[k] = j
        BY <1>5, <3>1, <4>1
      <4> QED
        BY <2>1, <4>1, <4>2
    <3> QED
      BY <1>0, <3>1, <3>2, OpenGoesOn
  <2>2. CASE ~st[j]
    <3>1. PICK k \in 1..m : who[k] = j
      BY <1>9, <2>2 DEF Starting
    <3>2. n + k \in 1..(n + m) /\ w[n + k].type = "start" /\ w[n + k].index = idx[j] /\ w[n + k].item = j
      BY <1>0, <1>2, <3>1
    <3>3. ASSUME NEW a \in (n + k + 1)..(n + m), w[a].index = idx[j] PROVE FALSE
      <4>1. a \in 1..(n + m) /\ a \notin 1..n
        BY <1>0
      <4>2. PICK l \in 1..m : a = n + l
        BY <1>0, <4>1, Positions
      <4>3. l # k
        BY <1>0, <4>2
      <4>4. who[l] \in Items /\ idx[who[l]] = idx[who[k]] /\ idx[who[l]] # -1
        BY <1>2, <3>1, <3>3, <4>2
      <4>5. who[l] = who[k]
        BY <1>2, <1>5, <4>4
      <4> QED
        BY <4>3, <4>5 DEF Starting
    <3> QED
      BY <3>2, <3>3 DEF OpenIn
  <2> QED
    BY <2>1, <2>2
<1> QED
  BY <1>0, <1>1, <1>4, <1>6, <1>7, <1>8, <1>9 DEF Blocks

(* All that is open is stopped.                                             *)
Stopping(idx, st, cl, who, ev, m) ==
  /\ who \in [1..m -> Items] /\ \A k, l \in 1..m : who[k] = who[l] => k = l
  /\ \A k \in 1..m : st[who[k]] /\ ~cl[who[k]]
  /\ \A k \in 1..m : ev[k].type = "stop" /\ ev[k].index = idx[who[k]] /\ ev[k].item = who[k]
  /\ \A i \in Items : st[i] /\ ~cl[i] => \E k \in 1..m : who[k] = i
Finished(w, n) == WellIn(w, n) /\ OnceIn(w, n) /\ \A k \in 1..n : w[k].type = "start" => StoppedIn(w, n, k)

(* Once every open block is stopped, the answer is finished.                *)
LEMMA AllStop ==
  ASSUME NEW w, NEW out, NEW n, NEW ev, NEW m, Goes(w, out, n, ev, m), NEW idx, NEW st, NEW cl, Blocks(out, n, idx, st, cl),
         NEW who, Stopping(idx, st, cl, who, ev, m)
  PROVE  Finished(w, n + m)
<1>0. n \in Nat /\ m \in Nat /\ n + m \in Nat /\ n \in 0..n /\ Same(w, out, n) /\ \A k \in 1..m : w[n + k] = ev[k]
  BY DEF Goes
<1>1. \A k \in 1..m : /\ w[n + k].type = "stop" /\ w[n + k].index = idx[who[k]] /\ w[n + k].item = who[k]
                      /\ who[k] \in Items /\ st[who[k]] /\ ~cl[who[k]] /\ idx[who[k]] # -1
  <2>1. SUFFICES ASSUME NEW k \in 1..m
                 PROVE  /\ w[n + k].type = "stop" /\ w[n + k].index = idx[who[k]] /\ w[n + k].item = who[k]
                        /\ who[k] \in Items /\ st[who[k]] /\ ~cl[who[k]] /\ idx[who[k]] # -1
    OBVIOUS
  <2>2. w[n + k] = ev[k]
    BY <1>0
  <2>3. PICK i \in Items : i = who[k]
    BY DEF Stopping
  <2>4. ev[k].type = "stop" /\ ev[k].index = idx[i] /\ ev[k].item = i /\ st[i] /\ ~cl[i]
    BY <2>3 DEF Stopping
  <2>5. idx[i] # -1
    BY <2>4 DEF Blocks, Indices
  <2> QED
    BY <2>2, <2>3, <2>4, <2>5
<1>2. WellIn(w, n + m)
  <2>1. SUFFICES ASSUME NEW k \in 1..(n + m), w[k].type \in {"delta", "stop"}
                 PROVE  OpenIn(w, k - 1, w[k].index, w[k].item)
    BY DEF WellIn
  <2>2. CASE k \in 1..n
    BY <1>0, <2>1, <2>2, WellStays DEF Blocks
  <2>3. CASE k \notin 1..n
    <3>1. PICK l \in 1..m : k = n + l
      BY <1>0, <2>3, Positions
    <3>2. PICK c \in 0..m : c = l - 1 /\ k - 1 = n + c
      BY <1>0, <3>1
    <3>3. OpenIn(out, n, w[k].index, w[k].item)
      <4>1. PICK i \in Items : i = who[l]
        BY <1>1
      <4>2. st[i] /\ ~cl[i] /\ w[k].index = idx[i] /\ w[k].item = i
        BY <1>1, <3>1, <4>1
      <4>3. OpenIn(out, n, idx[i], i)
        BY <4>2 DEF Blocks
      <4> QED
        BY <4>2, <4>3
    <3>4. ASSUME NEW a \in 1..c, ev[a].index = w[k].index PROVE FALSE
      <4>1. a \in 1..m /\ a # l
        BY <1>0, <3>1, <3>2
      <4>2. idx[who[a]] = idx[who[l]] /\ idx[who[a]] # -1 /\ who[a] \in Items /\ who[l] \in Items
        BY <1>0, <1>1, <3>1, <3>4, <4>1
      <4>3. who[a] = who[l]
        BY <4>2 DEF Blocks, Indices
      <4> QED
        BY <4>1, <4>3 DEF Stopping
    <3>5. OpenIn(w, n + c, w[k].index, w[k].item)
      BY <3>3, <3>4, OpenGoesOn
    <3> QED
      BY <3>2, <3>5
  <2> QED
    BY <2>2, <2>3
<1>3. ASSUME NEW k \in 1..(n + m), w[k].type = "start" PROVE k \in 1..n /\ out[k] = w[k]
  <2>1. CASE k \in 1..n
    BY <1>0, <2>1 DEF Same
  <2>2. CASE k \notin 1..n
    <3>1. PICK l \in 1..m : k = n + l
      BY <1>0, <2>2, Positions
    <3> QED
      BY <1>1, <1>3, <3>1
  <2> QED
    BY <2>1, <2>2
<1>4. OnceIn(w, n + m)
  BY <1>3 DEF OnceIn, Blocks
<1>5. ASSUME NEW k \in 1..(n + m), w[k].type = "start" PROVE StoppedIn(w, n + m, k)
  <2>1. /\ k \in 1..n /\ out[k] = w[k] /\ w[k].item \in Items /\ st[w[k].item] /\ w[k].index = idx[w[k].item]
        /\ cl[w[k].item] => StoppedIn(out, n, k)
    BY <1>3, <1>5 DEF Blocks
  <2>2. CASE cl[w[k].item]
    BY <1>0, <2>1, <2>2, StoppedStays
  <2>3. CASE ~cl[w[k].item]
    <3>1. PICK l \in 1..m : who[l] = w[k].item
      BY <2>1, <2>3 DEF Stopping
    <3>2. n + l \in (k + 1)..(n + m)
      BY <1>0, <2>1
    <3> QED
      BY <1>1, <2>1, <3>1, <3>2 DEF StoppedIn
  <2> QED
    BY <2>2, <2>3
<1> QED
  BY <1>2, <1>4, <1>5 DEF Finished

(* An event that is none of a block ends the answer.                        *)
LEMMA LastSaid ==
  ASSUME NEW w, NEW out, NEW n \in Nat, NEW e, e.type \notin {"start", "delta", "stop"}, Same(w, out, n), w[n + 1] = e,
         WellIn(out, n), OnceIn(out, n)
  PROVE  WellIn(w, n + 1) /\ OnceIn(w, n + 1) /\ (Finished(out, n) => Finished(w, n + 1))
<1>1. \A k \in 1..(n + 1) : k \in 1..n \/ k = n + 1
  OBVIOUS
<1>2. \A k \in 1..(n + 1) : w[k].type \in {"start", "delta", "stop"} => k \in 1..n /\ w[k] = out[k]
  BY <1>1 DEF Same
<1>3. WellIn(w, n + 1)
  BY <1>2, WellStays DEF WellIn
<1>4. OnceIn(w, n + 1)
  BY <1>2 DEF OnceIn
<1>5. ASSUME Finished(out, n), NEW k \in 1..(n + 1), w[k].type = "start" PROVE StoppedIn(w, n + 1, k)
  <2>1. k \in 1..n /\ StoppedIn(out, n, k) /\ 1 \in Nat
    BY <1>2, <1>5 DEF Finished
  <2> QED
    BY <2>1, StoppedStays
<1> QED
  BY <1>3, <1>4, <1>5 DEF Finished

Events == [type : {"start", "delta", "stop", "end", "error"}, index : Int,
           item : Items \cup {"none", "end_turn", "tool_use"}, frags : Seq(Nat)]
IndexOf(a, b) == [i \in Items |-> IF i \in CallItems THEN a[i].index ELSE b[i].index]
StartedOf(a, b) == [i \in Items |-> IF i \in CallItems THEN a[i].started ELSE b[i].started]
ClosedOf(a, b) == [i \in Items |-> IF i \in CallItems THEN a[i].stopped ELSE b[i].closed]

IsEvent(e, type, x, who, fs) == e \in Events /\ e.type = type /\ e.index = x /\ e.item = who /\ e.frags = fs

LEMMA EventIs ==
  ASSUME NEW type, NEW x \in Int, NEW who \in Items \cup {"none", "end_turn", "tool_use"}, NEW fs \in Seq(Nat),
         type \in {"start", "delta", "stop", "end", "error"}
  PROVE  IsEvent(Event(type, x, who, fs), type, x, who, fs)
BY DEF Event, Events, IsEvent

LEMMA EventsAre ==
  ASSUME NEW x, x \in Int, NEW who, who \in Items, NEW fs, fs \in Seq(Nat)
  PROVE  /\ IsEvent(StartOf(x, who), "start", x, who, <<>>) /\ IsEvent(StopOf(x, who), "stop", x, who, <<>>)
         /\ IsEvent(DeltaOf(x, who, fs), "delta", x, who, fs)
<1>1. PICK none \in Seq(Nat) : none = <<>>
  <2>1. <<>> \in Seq(Nat)
    OBVIOUS
  <2> QED
    BY <2>1
<1>2. who \in Items \cup {"none", "end_turn", "tool_use"}
  OBVIOUS
<1>3. /\ StartOf(x, who) = Event("start", x, who, none) /\ StopOf(x, who) = Event("stop", x, who, none)
      /\ DeltaOf(x, who, fs) = Event("delta", x, who, fs)
  BY <1>1, Zenon DEF StartOf, StopOf, DeltaOf
<1>4. IsEvent(StartOf(x, who), "start", x, who, none)
  BY <1>2, <1>3, EventIs
<1>5. IsEvent(StopOf(x, who), "stop", x, who, none)
  BY <1>2, <1>3, EventIs
<1>6. IsEvent(DeltaOf(x, who, fs), "delta", x, who, fs)
  BY <1>2, <1>3, EventIs
<1> QED
  BY <1>1, <1>4, <1>5, <1>6


LEMMA TwoIs ==
  ASSUME NEW S, NEW d \in S, NEW e \in S, NEW ev, Follows(ev, <<d>>, <<e>>)
  PROVE  ev \in Seq(S) /\ Len(ev) = 2 /\ ev[1] = d /\ ev[2] = e
<1>1. <<d>> \in Seq(S) /\ Len(<<d>>) = 1 /\ <<d>>[1] = d /\ <<e>> \in Seq(S) /\ Len(<<e>>) = 1 /\ <<e>>[1] = e
  OBVIOUS
<1>2. ev \in Seq(S) /\ Len(ev) = Len(<<d>>) + Len(<<e>>) /\ Goes(ev, <<d>>, Len(<<d>>), <<e>>, Len(<<e>>))
  BY <1>1, FollowsIs, Zenon
<1>3. 1 \in 1..1
  OBVIOUS
<1> QED
  BY <1>1, <1>2, <1>3 DEF Goes, Same

(* Lists of what is so far, in the order in which it came.                  *)
Listed(s, S, T) ==
  /\ s \in Seq(S) /\ \A k, l \in 1..Len(s) : s[k] = s[l] => k = l
  /\ \A x \in S : x \in T <=> \E k \in 1..Len(s) : s[k] = x

(* One more in the list.                                                    *)
LEMMA ListedMore ==
  ASSUME NEW S, NEW T, NEW s, Listed(s, S, T), NEW x \in S, x \notin T, NEW U, \A y \in S : y \in U <=> y \in T \/ y = x
  PROVE  Append(s, x) \in Seq(S) /\ Listed(Append(s, x), S, U)
<1>1. s \in Seq(S) /\ Len(s) \in Nat
  BY DEF Listed
<1>2. PICK n \in Nat : n = Len(s)
  BY <1>1
<1>3. PICK r : r = Append(s, x)
  OBVIOUS
<1>4. r \in Seq(S) /\ Len(r) = n + 1 /\ r[n + 1] = x /\ \A k \in 1..n : r[k] = s[k]
  BY <1>1, <1>2, <1>3
<1>5. \A k \in 1..(n + 1) : k \in 1..n \/ k = n + 1
  BY <1>2
<1>6. \A k \in 1..n : s[k] \in T /\ s[k] # x /\ s[k] \in S
  BY <1>1, <1>2 DEF Listed
<1>7. \A k, l \in 1..n : s[k] = s[l] => k = l
  BY <1>2 DEF Listed
<1>8. \A k, l \in 1..(n + 1) : r[k] = r[l] => k = l
  BY <1>4, <1>5, <1>6, <1>7
<1>9. ASSUME NEW y \in S PROVE y \in U <=> \E k \in 1..(n + 1) : r[k] = y
  <2>1. y \in T <=> \E k \in 1..n : s[k] = y
    BY <1>2 DEF Listed
  <2>2. (\E k \in 1..(n + 1) : r[k] = y) <=> (\E k \in 1..n : s[k] = y) \/ y = x
    <3>1. \A k \in 1..n : k \in 1..(n + 1)
      BY <1>2
    <3>2. n + 1 \in 1..(n + 1)
      BY <1>2
    <3> QED
      BY <1>4, <1>5, <3>1, <3>2
  <2> QED
    BY <2>1, <2>2
<1>10. Listed(r, S, U)
  BY <1>4, <1>8, <1>9 DEF Listed
<1> QED
  BY <1>3, <1>4, <1>10

(* The answer while it is under way, and when it is over.                   *)
Opened ==
  /\ opened \in [text : Seq(TextItems), call : Seq(CallItems)]
  /\ Listed(opened.text, TextItems, {t \in TextItems : text[t].started})
  /\ Listed(opened.call, CallItems, {f \in CallItems : acc[f].index # -1})
Underway ==
  /\ \A f \in CallItems : ~acc[f].stopped /\ (acc[f].named <=> acc[f].started)
  /\ \A t \in TextItems : text[t].closed => item[t].done
InBlocks == Blocks(sent, Len(sent), IndexOf(acc, text), StartedOf(acc, text), ClosedOf(acc, text))
BlockInv ==
  /\ sent \in Seq(Events)
  /\ upstream # "ended" => InBlocks /\ Opened /\ Underway
  /\ upstream = "ended" => BlocksAreWellFormed

(* The index, the start and the end of an item, whichever kind it is.       *)
LEMMA OfIs ==
  ASSUME NEW a \in [CallItems -> Accumulators], NEW b \in [TextItems -> TextBlocks]
  PROVE  /\ IndexOf(a, b) \in [Items -> Int] /\ StartedOf(a, b) \in [Items -> BOOLEAN]
         /\ ClosedOf(a, b) \in [Items -> BOOLEAN]
         /\ \A f \in CallItems : /\ IndexOf(a, b)[f] = a[f].index /\ StartedOf(a, b)[f] = a[f].started
                                 /\ ClosedOf(a, b)[f] = a[f].stopped
         /\ \A t \in TextItems : /\ IndexOf(a, b)[t] = b[t].index /\ StartedOf(a, b)[t] = b[t].started
                                 /\ ClosedOf(a, b)[t] = b[t].closed
<1>2. ASSUME NEW f \in CallItems PROVE a[f].index \in Int /\ a[f].started \in BOOLEAN /\ a[f].stopped \in BOOLEAN
  BY DEF Accumulators
<1>3. ASSUME NEW t \in TextItems PROVE b[t].index \in Int /\ b[t].started \in BOOLEAN /\ b[t].closed \in BOOLEAN
  BY DEF TextBlocks
<1>4. \A i \in Items : (i \in CallItems <=> i \notin TextItems) /\ (i \in CallItems \/ i \in TextItems)
  BY ItemsAreFinite DEF Items
<1>5. CallItems \subseteq Items /\ TextItems \subseteq Items
  BY DEF Items
<1> QED
  BY <1>2, <1>3, <1>4, <1>5 DEF IndexOf, StartedOf, ClosedOf

(* One item has its say: the indices, the blocks and the events after it.   *)
Says(i, x, st, cl, x1, st1, cl1, ev, m) ==
  /\ x1 = IF x = -1 THEN nextIndex ELSE x
  /\ (st => st1) /\ (cl => cl1)
  /\ (m > 0 => st1 /\ ~cl) /\ (~st /\ st1 => m > 0) /\ (~cl /\ cl1 => m = 1 /\ st)
  /\ \A k \in 1..m : /\ ev[k].index = x1 /\ ev[k].item = i
                     /\ ev[k].type = IF k = 1 /\ ~st THEN "start" ELSE IF cl1 THEN "stop" ELSE "delta"

(* What one item says is what OneSpeaks asks for.                           *)
LEMMA SaysChanges ==
  ASSUME NEW i \in Items, NEW idx, NEW on, NEW off, Indices(idx, on, off), NEW idx1, NEW on1, NEW off1,
         idx1 \in [Items -> Int], on1 \in [Items -> BOOLEAN], off1 \in [Items -> BOOLEAN],
         \A j \in Items \ {i} : idx1[j] = idx[j] /\ on1[j] = on[j] /\ off1[j] = off[j],
         nextIndex \in Nat, \A j \in Items : idx[j] # nextIndex,
         NEW ev, NEW m \in Nat, Says(i, idx[i], on[i], off[i], idx1[i], on1[i], off1[i], ev, m)
  PROVE  Changes(idx, on, off, idx1, on1, off1, i) /\ Speaks(idx, on, off, idx1, on1, off1, i, ev, m)
<1>1. /\ idx[i] \in Int /\ on[i] \in BOOLEAN /\ off[i] \in BOOLEAN
      /\ idx1[i] \in Int /\ on1[i] \in BOOLEAN /\ off1[i] \in BOOLEAN
  BY DEF Indices
<1>2. idx1[i] # -1 /\ (idx1[i] = idx[i] \/ (idx[i] = -1 /\ \A j \in Items : idx[j] # idx1[i]))
  BY <1>1 DEF Says
<1>3. Changes(idx, on, off, idx1, on1, off1, i)
  BY <1>1, <1>2 DEF Changes, Says
<1>4. Speaks(idx, on, off, idx1, on1, off1, i, ev, m)
  BY <1>1 DEF Speaks, Says
<1> QED
  BY <1>3, <1>4

OthersStay(i) ==
  (\A f \in CallItems \ {i} : acc'[f] = acc[f]) /\ (\A t \in TextItems \ {i} : text'[t] = text[t])

LEMMA OthersAre ==
  ASSUME Indexed, Indexed', NEW i \in Items, OthersStay(i), NEW j \in Items \ {i}
  PROVE  /\ IndexOf(acc', text')[j] = IndexOf(acc, text)[j] /\ StartedOf(acc', text')[j] = StartedOf(acc, text)[j]
         /\ ClosedOf(acc', text')[j] = ClosedOf(acc, text)[j]
<1>1. CASE j \in CallItems
  <2>1. acc'[j] = acc[j]
    BY <1>1 DEF OthersStay
  <2> QED
    BY <1>1, <2>1 DEF IndexOf, StartedOf, ClosedOf
<1>2. CASE j \notin CallItems
  <2>1. text'[j] = text[j]
    BY <1>2 DEF OthersStay, Items
  <2> QED
    BY <1>2, <2>1 DEF IndexOf, StartedOf, ClosedOf
<1> QED
  BY <1>1, <1>2

(* A step in which one item has its say keeps the blocks in order.          *)
LEMMA ItemSpeaks ==
  ASSUME Indexed, Indexed', sent \in Seq(Events), InBlocks, NEW i \in Items, NEW ev \in Seq(Events), Follows(sent', sent, ev),
         OthersStay(i),
         Says(i, IndexOf(acc, text)[i], StartedOf(acc, text)[i], ClosedOf(acc, text)[i],
              IndexOf(acc', text')[i], StartedOf(acc', text')[i], ClosedOf(acc', text')[i], ev, Len(ev))
  PROVE  InBlocks' /\ sent' \in Seq(Events)
<1>1. sent' \in Seq(Events) /\ Len(sent') = Len(sent) + Len(ev) /\ Goes(sent', sent, Len(sent), ev, Len(ev)) /\ Len(ev) \in Nat
  BY FollowsIs
<1>2. PICK idx, on, off : idx = IndexOf(acc, text) /\ on = StartedOf(acc, text) /\ off = ClosedOf(acc, text)
  OBVIOUS
<1>3. PICK idx1, on1, off1 : idx1 = IndexOf(acc', text') /\ on1 = StartedOf(acc', text') /\ off1 = ClosedOf(acc', text')
  OBVIOUS
<1>4. /\ \A f \in CallItems : idx[f] = acc[f].index
      /\ \A t \in TextItems : idx[t] = text[t].index
  BY <1>2, OfIs, Zenon DEF Indexed
<1>5. acc' \in [CallItems -> Accumulators] /\ text' \in [TextItems -> TextBlocks]
  BY DEF Indexed
<1>0. idx1 \in [Items -> Int] /\ on1 \in [Items -> BOOLEAN] /\ off1 \in [Items -> BOOLEAN]
  BY <1>3, <1>5, OfIs, Zenon
<1>6. \A j \in Items \ {i} : idx1[j] = idx[j] /\ on1[j] = on[j] /\ off1[j] = off[j]
  BY <1>2, <1>3, OthersAre, Zenon
<1>7. nextIndex \in Nat
  BY MadeIs
<1>8. \A j \in Items : idx[j] # nextIndex
  <2>1. \A x \in -1..(nextIndex - 1) : x # nextIndex
    BY <1>7
  <2>2. \A f \in CallItems : acc[f].index # nextIndex
    BY <2>1 DEF Indexed
  <2>3. \A t \in TextItems : text[t].index # nextIndex
    BY <2>1 DEF Indexed
  <2> QED
    BY <1>4, <2>2, <2>3 DEF Items
<1>9. Indices(idx, on, off)
  BY <1>2 DEF InBlocks, Blocks
<1>10. Changes(idx, on, off, idx1, on1, off1, i) /\ Speaks(idx, on, off, idx1, on1, off1, i, ev, Len(ev))
  <2>1. Says(i, idx[i], on[i], off[i], idx1[i], on1[i], off1[i], ev, Len(ev))
    BY <1>2, <1>3
  <2> QED
    BY <1>0, <1>1, <1>6, <1>7, <1>8, <1>9, <2>1, SaysChanges
<1>11. Blocks(sent, Len(sent), idx, on, off)
  BY <1>2 DEF InBlocks
<1>12. Blocks(sent', Len(sent) + Len(ev), idx1, on1, off1)
  BY <1>1, <1>10, <1>11, OneSpeaks
<1> QED
  BY <1>1, <1>3, <1>12 DEF InBlocks

(* The accumulator a frame finds, or makes.                                 *)
LEMMA FreshStarts ==
  ASSUME Indexed, InBlocks, Underway, NEW f \in CallItems
  PROVE  /\ Fresh(f).started = acc[f].started /\ ~Fresh(f).stopped /\ (Fresh(f).named <=> Fresh(f).started)
         /\ ~acc[f].stopped /\ f \in Items /\ (acc[f].started => acc[f].index # -1)
         /\ (acc[f].index = -1 => Fresh(f) = NewAccumulator(nextIndex))
<1>1. acc \in [CallItems -> Accumulators] /\ text \in [TextItems -> TextBlocks] /\ f \in Items
  BY DEF Indexed, Items
<1>2. IndexOf(acc, text)[f] = acc[f].index /\ StartedOf(acc, text)[f] = acc[f].started
  BY <1>1, OfIs
<1>3. acc[f].started => acc[f].index # -1
  BY <1>1, <1>2 DEF InBlocks, Blocks, Indices
<1>4. acc[f].started \in BOOLEAN /\ (acc[f].named <=> acc[f].started) /\ ~acc[f].stopped
  BY <1>1 DEF Accumulators, Underway
<1>5. CASE acc[f].index = -1
  BY <1>1, <1>3, <1>4, <1>5 DEF Fresh, NewAccumulator
<1>6. CASE acc[f].index # -1
  BY <1>1, <1>3, <1>4, <1>6 DEF Fresh
<1> QED
  BY <1>5, <1>6

(* What a call answers a frame with: its accumulator and at most one event. *)
Answers(r, a, who) ==
  /\ r.acc \in Accumulators /\ r.acc.index = a.index /\ ~r.acc.stopped
  /\ (r.acc.named <=> r.acc.started) /\ (a.started => r.acc.started)
  /\ \/ r.events = <<>> /\ (r.acc.started => a.started)
     \/ r.acc.started /\ \E e \in Events : /\ r.events = <<e>> /\ e.index = a.index /\ e.item = who
                                          /\ e.type = IF a.started THEN "delta" ELSE "start"

(* A call that is named is started.                                        *)
Even(a) == ~a.stopped /\ (a.named <=> a.started)
Grown(a, frags) == IF a.started THEN a.buffer ELSE a.buffer \o frags

Delta(r, a, who, frags) ==
  /\ r.acc \in Accumulators /\ r.acc.index = a.index /\ ~r.acc.stopped /\ r.acc.started = a.started
  /\ (r.acc.named <=> r.acc.started) /\ r.acc.received = (a.received \/ frags # <<>>)
  /\ r.acc.buffer = Grown(a, frags)
  /\ r.events = IF a.started /\ frags # <<>> THEN <<DeltaOf(a.index, who, frags)>> ELSE <<>>

(* Arguments are sent on at once, or kept until the call is started.        *)
LEMMA DeltaIs ==
  ASSUME NEW a \in Accumulators, Even(a), NEW who, NEW frags \in Seq(Nat)
  PROVE  Delta(HandleDelta(a, who, FALSE, frags), a, who, frags)
<1>1. /\ a.index \in Int /\ a.started \in BOOLEAN /\ a.stopped \in BOOLEAN /\ a.named \in BOOLEAN
      /\ a.received \in BOOLEAN /\ a.buffer \in Seq(Nat) /\ ~a.stopped /\ (a.named <=> a.started)
  BY DEF Accumulators, Even
<1>2. PICK more \in Seq(Nat) : more = a.buffer \o frags
  <2>1. a.buffer \o frags \in Seq(Nat)
    BY <1>1
  <2> QED
    BY <2>1
<1>3. PICK r : r = HandleDelta(a, who, FALSE, frags)
  OBVIOUS
<1>4. PICK put : put = [a EXCEPT !.named = a.started, !.started = a.started, !.received = @ \/ frags # <<>>,
                                 !.buffer = IF a.started THEN @ ELSE more]
  OBVIOUS
<1>5. PICK said : said = IF a.started /\ frags # <<>> THEN <<DeltaOf(a.index, who, frags)>> ELSE <<>>
  OBVIOUS
<1>6. (<<>> \o <<>>) \o said = said
  <2>1. CASE a.started /\ frags # <<>>
    <3>1. PICK d : d = DeltaOf(a.index, who, frags)
      OBVIOUS
    <3>2. (<<>> \o <<>>) \o <<d>> = <<d>>
      OBVIOUS
    <3> QED
      BY <1>5, <2>1, <3>1, <3>2
  <2>2. CASE ~(a.started /\ frags # <<>>)
    <3>1. (<<>> \o <<>>) \o <<>> = <<>>
      OBVIOUS
    <3> QED
      BY <1>5, <2>2, <3>1
  <2> QED
    BY <2>1, <2>2
<1>7. /\ (a.named \/ FALSE) = a.started /\ (~a.started /\ (a.named \/ FALSE)) = FALSE
      /\ (a.started \/ FALSE) = a.started
  BY <1>1
<1>8. r = [acc |-> put, events |-> (<<>> \o <<>>) \o said]
  BY <1>1, <1>2, <1>3, <1>4, <1>5, <1>7 DEF HandleDelta
<1>9. r.acc = put /\ r.events = said
  BY <1>6, <1>8
<1>10. /\ put \in Accumulators /\ put.index = a.index /\ put.stopped = a.stopped /\ put.started = a.started
       /\ put.named = a.started /\ put.received = (a.received \/ frags # <<>>)
       /\ put.buffer = IF a.started THEN a.buffer ELSE more
  BY <1>1, <1>2, <1>4 DEF Accumulators
<1>11. Delta(r, a, who, frags)
  BY <1>1, <1>2, <1>5, <1>9, <1>10 DEF Grown, Delta
<1> QED
  BY <1>3, <1>11

(* The four answers of the code to a frame of a call are such answers.      *)
LEMMA DeltaAnswers ==
  ASSUME NEW a \in Accumulators, Even(a), NEW who \in Items, NEW frags \in Seq(Nat)
  PROVE  Answers(HandleDelta(a, who, FALSE, frags), a, who)
<1>1. PICK r : r = HandleDelta(a, who, FALSE, frags)
  OBVIOUS
<1>2. PICK e \in Events : /\ e = DeltaOf(a.index, who, frags) /\ e.index = a.index /\ e.item = who /\ e.type = "delta"
  <2>1. PICK x \in Int : x = a.index
    BY DEF Accumulators
  <2>2. IsEvent(DeltaOf(x, who, frags), "delta", x, who, frags)
    BY EventsAre
  <2> QED
    BY <2>1, <2>2 DEF IsEvent
<1>3. Delta(r, a, who, frags)
  BY <1>1, DeltaIs
<1>4. Answers(r, a, who)
  BY <1>2, <1>3, Zenon DEF Answers, Delta
<1> QED
  BY <1>1, <1>4

LEMMA DoneAnswers ==
  ASSUME NEW a \in Accumulators, Even(a), NEW who \in Items, NEW frags \in Seq(Nat)
  PROVE  Answers(HandleDone(a, who, frags), a, who)
<1>1. CASE a.received \/ frags = <<>>
  <2>1. HandleDone(a, who, frags).acc = a /\ HandleDone(a, who, frags).events = <<>>
    BY <1>1 DEF HandleDone
  <2> QED
    BY <2>1, Zenon DEF Answers, Even
<1>2. CASE ~(a.received \/ frags = <<>>)
  <2>1. HandleDone(a, who, frags) = HandleDelta(a, who, FALSE, frags)
    BY <1>2 DEF HandleDone
  <2> QED
    BY <2>1, DeltaAnswers
<1> QED
  BY <1>1, <1>2

LEMMA MarkAnswers ==
  ASSUME NEW a \in Accumulators, ~a.stopped, ~a.started, NEW who \in Items
  PROVE  Answers(MarkStarted(a, who), a, who)
<1>1. PICK e \in Events : e = StartOf(a.index, who) /\ e.index = a.index /\ e.item = who /\ e.type = "start"
  <2>1. PICK x \in Int : x = a.index
    BY DEF Accumulators
  <2>2. <<>> \in Seq(Nat)
    OBVIOUS
  <2>3. IsEvent(StartOf(x, who), "start", x, who, <<>>)
    BY <2>2, EventsAre
  <2> QED
    BY <2>1, <2>3 DEF IsEvent
<1>2. PICK b : b = [a EXCEPT !.named = TRUE, !.started = TRUE]
  OBVIOUS
<1>3. b \in Accumulators /\ b.index = a.index /\ b.stopped = a.stopped /\ b.named = TRUE /\ b.started = TRUE
  BY <1>2 DEF Accumulators
<1>4. MarkStarted(a, who).acc = b /\ MarkStarted(a, who).events = <<e>>
  BY <1>1, <1>2 DEF MarkStarted
<1> QED
  BY <1>1, <1>3, <1>4, Zenon DEF Answers

LEMMA BareAnswers ==
  ASSUME NEW a \in Accumulators, Even(a), NEW who \in Items
  PROVE  Answers([acc |-> a, events |-> <<>>], a, who)
BY DEF Answers, Even

(* The answer after a frame of a call.                                      *)
LEMMA CallSpeaks ==
  ASSUME Indexed, Indexed', sent \in Seq(Events), InBlocks, Opened, Underway, NEW f \in CallItems,
         NEW r, Answers(r, Fresh(f), f), WithCall(f, r), text' = text,
         \A t \in TextItems : item[t].done => item'[t].done
  PROVE  sent' \in Seq(Events) /\ InBlocks' /\ Opened' /\ Underway'
<1>1. acc \in [CallItems -> Accumulators] /\ text \in [TextItems -> TextBlocks] /\ f \in Items
  BY DEF Indexed, Items
<1>2. acc' = [acc EXCEPT ![f] = r.acc] /\ sent' = sent \o r.events
  BY DEF WithCall, Sends
<1>3. acc'[f] = r.acc /\ \A g \in CallItems \ {f} : acc'[g] = acc[g]
  BY <1>1, <1>2
<1>4. PICK a \in Accumulators : /\ a = Fresh(f) /\ a.index = IF acc[f].index = -1 THEN nextIndex ELSE acc[f].index
                                /\ a.started = acc[f].started /\ acc[f].started \in BOOLEAN
  <2>1. acc[f].started \in BOOLEAN
    BY <1>1 DEF Accumulators
  <2> QED
    BY <2>1, FreshIs, FreshStarts
<1>5. Answers(r, a, f)
  BY <1>4
<1>6. ~acc[f].stopped
  BY FreshStarts
<1>7. acc' \in [CallItems -> Accumulators] /\ text' \in [TextItems -> TextBlocks]
  BY DEF Indexed
<1>8. OthersStay(f)
  BY <1>3 DEF OthersStay
<1>9. /\ IndexOf(acc, text)[f] = acc[f].index /\ StartedOf(acc, text)[f] = acc[f].started /\ ClosedOf(acc, text)[f] = acc[f].stopped
      /\ IndexOf(acc', text')[f] = r.acc.index /\ StartedOf(acc', text')[f] = r.acc.started /\ ClosedOf(acc', text')[f] = r.acc.stopped
  <2>1. /\ IndexOf(acc, text)[f] = acc[f].index /\ StartedOf(acc, text)[f] = acc[f].started /\ ClosedOf(acc, text)[f] = acc[f].stopped
    BY <1>1 DEF IndexOf, StartedOf, ClosedOf
  <2>2. /\ IndexOf(acc', text')[f] = acc'[f].index /\ StartedOf(acc', text')[f] = acc'[f].started
        /\ ClosedOf(acc', text')[f] = acc'[f].stopped
    BY <1>1 DEF IndexOf, StartedOf, ClosedOf
  <2> QED
    BY <1>3, <2>1, <2>2
<1>10. PICK ev \in Seq(Events) : /\ ev = r.events
                                 /\ Says(f, acc[f].index, acc[f].started, acc[f].stopped, r.acc.index, r.acc.started, r.acc.stopped, ev, Len(ev))
  <2>0. r.acc.started \in BOOLEAN /\ ~r.acc.stopped
    BY DEF Answers, Accumulators
  <2>1. CASE r.events = <<>> /\ (r.acc.started => a.started)
    <3>1. PICK ev \in Seq(Events) : ev = <<>> /\ Len(ev) = 0
      <4>1. <<>> \in Seq(Events) /\ Len(<<>>) = 0
        OBVIOUS
      <4> QED
        BY <4>1
    <3>2. Says(f, acc[f].index, acc[f].started, acc[f].stopped, r.acc.index, r.acc.started, r.acc.stopped, ev, 0)
      BY <1>4, <1>5, <1>6, <2>0, <2>1 DEF Answers, Says
    <3> QED
      BY <2>1, <3>1, <3>2
  <2>2. CASE r.acc.started /\ \E e \in Events : /\ r.events = <<e>> /\ e.index = a.index /\ e.item = f
                                                /\ e.type = IF a.started THEN "delta" ELSE "start"
    <3>1. PICK e \in Events : /\ r.events = <<e>> /\ e.index = a.index /\ e.item = f
                              /\ e.type = IF a.started THEN "delta" ELSE "start"
      BY <2>2
    <3>2. PICK ev \in Seq(Events) : ev = <<e>> /\ Len(ev) = 1 /\ ev[1] = e
      BY OneIs
    <3>3. \A k \in 1..1 : k = 1
      OBVIOUS
    <3>4. r.acc.index = a.index
      BY <1>5 DEF Answers
    <3>5. Says(f, acc[f].index, acc[f].started, acc[f].stopped, r.acc.index, r.acc.started, r.acc.stopped, ev, 1)
      BY <1>4, <1>6, <2>0, <2>2, <3>1, <3>2, <3>3, <3>4 DEF Says
    <3> QED
      BY <3>1, <3>2, <3>5
  <2> QED
    BY <1>5, <2>1, <2>2 DEF Answers
<1>11. Follows(sent', sent, ev)
  BY <1>2, <1>10 DEF Follows
<1>12. InBlocks' /\ sent' \in Seq(Events)
  BY <1>1, <1>8, <1>9, <1>10, <1>11, ItemSpeaks
<1>13. Opened'
  <2>1. {t \in TextItems : text'[t].started} = {t \in TextItems : text[t].started}
    OBVIOUS
  <2>2. r.acc.index # -1
    <3>1. nextIndex # -1
      BY MadeIs
    <3> QED
      BY <1>4, <1>5, <3>1 DEF Answers
  <2>3. CASE acc[f].index = -1
    <3>1. opened' = [opened EXCEPT !.call = Append(@, f)]
      BY <2>3 DEF WithCall
    <3>2. PICK more : more = Append(opened.call, f)
      OBVIOUS
    <3>3. PICK T, U : T = {g \in CallItems : acc[g].index # -1} /\ U = {g \in CallItems : acc'[g].index # -1}
      OBVIOUS
    <3>4. f \notin T /\ \A g \in CallItems : g \in U <=> g \in T \/ g = f
      BY <1>3, <2>2, <2>3, <3>3
    <3>5. Listed(opened.call, CallItems, T)
      BY <3>3 DEF Opened
    <3>6. more \in Seq(CallItems) /\ Listed(more, CallItems, U)
      BY <3>2, <3>4, <3>5, ListedMore
    <3>7. opened \in [text : Seq(TextItems), call : Seq(CallItems)]
      BY DEF Opened
    <3>8. opened' = [opened EXCEPT !.call = more]
      BY <3>1, <3>2
    <3>9. opened' \in [text : Seq(TextItems), call : Seq(CallItems)] /\ opened'.text = opened.text /\ opened'.call = more
      BY <3>6, <3>7, <3>8
    <3> QED
      BY <2>1, <3>3, <3>6, <3>9 DEF Opened
  <2>4. CASE acc[f].index # -1
    <3>1. opened' = opened
      BY <2>4 DEF WithCall
    <3>2. \A g \in CallItems : acc'[g].index # -1 <=> acc[g].index # -1
      BY <1>3, <2>2, <2>4
    <3>3. {g \in CallItems : acc'[g].index # -1} = {g \in CallItems : acc[g].index # -1}
      BY <3>2
    <3> QED
      BY <2>1, <3>1, <3>3 DEF Opened
  <2> QED
    BY <2>3, <2>4
<1>14. Underway'
  <2>1. \A g \in CallItems : ~acc'[g].stopped /\ (acc'[g].named <=> acc'[g].started)
    BY <1>3, <1>5 DEF Answers, Underway
  <2> QED
    BY <2>1 DEF Underway
<1> QED
  BY <1>12, <1>13, <1>14

(* The answer goes on.                                                      *)
Ongoing == sent \in Seq(Events) /\ InBlocks /\ Opened /\ Underway
DoneStays == \A t \in TextItems : item[t].done => item'[t].done

(* What holds of an answer under way, and the other way round.              *)
LEMMA GoesOn ==
  ASSUME upstream = "open", upstream' = upstream, Ongoing'
  PROVE  BlockInv'
BY DEF Ongoing, BlockInv

LEMMA WasOngoing ==
  ASSUME BlockInv, upstream = "open"
  PROVE  Ongoing
BY DEF Ongoing, BlockInv

(* A frame to which nothing is said.                                        *)
LEMMA NothingSaid ==
  ASSUME Ongoing, UNCHANGED <<acc, text, sent, opened>>, DoneStays
  PROVE  Ongoing'
<1>1. InBlocks' /\ sent' \in Seq(Events)
  BY DEF Ongoing, InBlocks
<1>2. Opened'
  BY DEF Ongoing, Opened
<1>3. Underway'
  BY DEF Ongoing, Underway, DoneStays
<1> QED
  BY <1>1, <1>2, <1>3 DEF Ongoing

(* A frame of a call keeps an answer in order.                              *)
LEMMA CallGoesOn ==
  ASSUME Indexed, Indexed', Ongoing, NEW f \in CallItems, NEW r, Answers(r, Fresh(f), f), WithCall(f, r), text' = text, DoneStays
  PROVE  Ongoing'
<1>1. sent \in Seq(Events) /\ InBlocks /\ Opened /\ Underway
  BY DEF Ongoing
<1>2. \A t \in TextItems : item[t].done => item'[t].done
  BY DEF DoneStays
<1>3. sent' \in Seq(Events) /\ InBlocks' /\ Opened' /\ Underway'
  BY <1>1, <1>2, CallSpeaks
<1> QED
  BY <1>3 DEF Ongoing

(* What is done stays done.                                                 *)
LEMMA ItemStays ==
  ASSUME ServerShape, NEW i \in Items
  PROVE  /\ \A how : item' = [item EXCEPT ![i].announced = how] => DoneStays
         /\ item' = [item EXCEPT ![i].frags = @ + 1] => DoneStays
         /\ item' = [item EXCEPT ![i].done = TRUE] => DoneStays
<1>1. item \in [Items -> ItemRecords]
  BY DEF ServerShape, ItemRecords
<1>2. \A t \in TextItems : t \in Items /\ item[t] \in ItemRecords
  BY <1>1 DEF Items
<1>3. ASSUME NEW how, item' = [item EXCEPT ![i].announced = how] PROVE DoneStays
  BY <1>1, <1>2, <1>3 DEF DoneStays, ItemRecords
<1>4. ASSUME item' = [item EXCEPT ![i].frags = @ + 1] PROVE DoneStays
  BY <1>1, <1>2, <1>4 DEF DoneStays, ItemRecords
<1>5. ASSUME item' = [item EXCEPT ![i].done = TRUE] PROVE DoneStays
  BY <1>1, <1>2, <1>5 DEF DoneStays, ItemRecords
<1> QED
  BY <1>3, <1>4, <1>5

(* Each frame in turn keeps the blocks in order: a call is added,           *)
LEMMA CallAddedBlocks ==
  ASSUME ResponseInv, ResponseInv', BlockInv, NEW f \in CallItems, CallAdded(f)
  PROVE  BlockInv'
<1>1. upstream = "open" /\ upstream' = upstream /\ text' = text /\ Indexed /\ Indexed' /\ ServerShape /\ f \in Items
  BY DEF CallAdded, MaySend, ResponseInv, Items
<1>2. Ongoing
  BY <1>1, WasOngoing
<1>3. PICK how \in {"bare", "named"} :
        /\ Announce(f, how)
        /\ IF acc[f].index # -1 THEN UNCHANGED <<acc, opened, nextIndex, reason, sent>>
           ELSE WithCall(f, IF how = "named" THEN MarkStarted(Fresh(f), f) ELSE [acc |-> Fresh(f), events |-> <<>>])
  <2>1. PICK how \in IF style = "late" THEN {"bare", "named"} ELSE {"named"} :
          /\ Announce(f, how)
          /\ IF acc[f].index # -1 THEN UNCHANGED <<acc, opened, nextIndex, reason, sent>>
             ELSE WithCall(f, IF how = "named" THEN MarkStarted(Fresh(f), f) ELSE [acc |-> Fresh(f), events |-> <<>>])
    BY DEF CallAdded
  <2>2. how \in {"bare", "named"}
    OBVIOUS
  <2> QED
    BY <2>1, <2>2
<1>4. DoneStays
  BY <1>1, <1>3, ItemStays DEF Announce
<1>5. CASE acc[f].index # -1
  BY <1>1, <1>2, <1>3, <1>4, <1>5, NothingSaid, GoesOn
<1>6. CASE acc[f].index = -1
  <2>1. Fresh(f) \in Accumulators
    BY <1>1, FreshIs
  <2>2. Even(Fresh(f)) /\ ~Fresh(f).stopped
    BY <1>1, <1>2, FreshStarts DEF Even, Ongoing
  <2>3. ~Fresh(f).started
    BY <1>6 DEF Fresh, NewAccumulator
  <2>4. PICK r : r = IF how = "named" THEN MarkStarted(Fresh(f), f) ELSE [acc |-> Fresh(f), events |-> <<>>]
    OBVIOUS
  <2>5. Answers(r, Fresh(f), f)
    <3>1. CASE how = "named"
      BY <1>1, <2>1, <2>2, <2>3, <2>4, <3>1, MarkAnswers
    <3>2. CASE how # "named"
      BY <1>1, <2>1, <2>2, <2>4, <3>2, BareAnswers
    <3> QED
      BY <3>1, <3>2
  <2>6. WithCall(f, r)
    BY <1>3, <1>6, <2>4
  <2> QED
    BY <1>1, <1>2, <1>4, <2>5, <2>6, CallGoesOn, GoesOn
<1> QED
  BY <1>5, <1>6

(* its arguments come,                                                      *)
LEMMA ArgumentsBlocks ==
  ASSUME ResponseInv, ResponseInv', BlockInv, NEW f \in CallItems, ArgumentsDelta(f) \/ ArgumentsDone(f)
  PROVE  BlockInv'
<1>1. upstream = "open" /\ upstream' = upstream /\ text' = text /\ Indexed /\ Indexed' /\ ServerShape /\ f \in Items
  BY DEF ArgumentsDelta, ArgumentsDone, MayAddress, MaySend, ResponseInv, Items
<1>2. Ongoing
  BY <1>1, WasOngoing
<1>3. PICK a : a = Fresh(f)
  OBVIOUS
<1>4. a \in Accumulators /\ Even(a)
  BY <1>1, <1>2, <1>3, FreshIs, FreshStarts DEF Even, Ongoing
<1>5. DoneStays
  BY <1>1, ItemStays DEF ArgumentsDelta, ArgumentsDone
<1>6. CASE ArgumentsDelta(f)
  <2>1. PICK frags : frags = <<item[f].frags + 1>>
    OBVIOUS
  <2>2. frags \in Seq(Nat)
    <3>1. item[f] \in ItemRecords
      BY <1>1, ItemIs
    <3>2. MaxFrags \in Nat
      BY ResponseAssumption
    <3> QED
      BY <2>1, <3>1, <3>2 DEF ItemRecords
  <2>3. WithCall(f, HandleDelta(a, f, FALSE, frags))
    BY <1>3, <1>6, <2>1 DEF ArgumentsDelta
  <2>4. Answers(HandleDelta(a, f, FALSE, frags), a, f)
    BY <1>1, <1>4, <2>2, DeltaAnswers
  <2> QED
    BY <1>1, <1>2, <1>3, <1>5, <2>3, <2>4, CallGoesOn, GoesOn
<1>7. CASE ArgumentsDone(f)
  <2>1. PICK frags \in Seq(Nat) : frags = Whole(f)
    BY <1>1, WholeIs
  <2>3. WithCall(f, HandleDone(a, f, frags))
    BY <1>3, <1>7, <2>1 DEF ArgumentsDone
  <2>4. Answers(HandleDone(a, f, frags), a, f)
    BY <1>1, <1>4, DoneAnswers
  <2> QED
    BY <1>1, <1>2, <1>3, <1>5, <2>3, <2>4, CallGoesOn, GoesOn
<1> QED
  BY <1>6, <1>7

(* A frame of a text keeps an answer in order.                              *)
LEMMA TextGoesOn ==
  ASSUME Indexed, Indexed', Ongoing, NEW t \in TextItems, NEW b \in TextBlocks, acc' = acc, text' = [text EXCEPT ![t] = b],
         NEW ev \in Seq(Events), Follows(sent', sent, ev), DoneStays, b.closed => item'[t].done,
         Says(t, text[t].index, text[t].started, text[t].closed, b.index, b.started, b.closed, ev, Len(ev)),
         opened' = IF b.started = text[t].started THEN opened ELSE [opened EXCEPT !.text = Append(@, t)]
  PROVE  Ongoing'
<1>1. acc \in [CallItems -> Accumulators] /\ text \in [TextItems -> TextBlocks] /\ t \in Items
  BY DEF Indexed, Items
<1>2. acc' \in [CallItems -> Accumulators] /\ text' \in [TextItems -> TextBlocks]
  BY DEF Indexed
<1>3. text'[t] = b /\ \A u \in TextItems \ {t} : text'[u] = text[u]
  BY <1>1
<1>4. OthersStay(t)
  BY <1>3 DEF OthersStay
<1>5. t \notin CallItems
  BY ItemsAreFinite
<1>6. /\ IndexOf(acc, text)[t] = text[t].index /\ StartedOf(acc, text)[t] = text[t].started /\ ClosedOf(acc, text)[t] = text[t].closed
      /\ IndexOf(acc', text')[t] = b.index /\ StartedOf(acc', text')[t] = b.started /\ ClosedOf(acc', text')[t] = b.closed
  BY <1>1, <1>3, <1>5 DEF IndexOf, StartedOf, ClosedOf
<1>7. sent \in Seq(Events) /\ InBlocks /\ Opened /\ Underway
  BY DEF Ongoing
<1>8. InBlocks' /\ sent' \in Seq(Events)
  BY <1>1, <1>4, <1>6, <1>7, ItemSpeaks
<1>9. Opened'
  <2>1. {f \in CallItems : acc'[f].index # -1} = {f \in CallItems : acc[f].index # -1}
    OBVIOUS
  <2>2. PICK T, U : T = {u \in TextItems : text[u].started} /\ U = {u \in TextItems : text'[u].started}
    OBVIOUS
  <2>3. Listed(opened.text, TextItems, T) /\ opened \in [text : Seq(TextItems), call : Seq(CallItems)]
    BY <1>7, <2>2 DEF Opened
  <2>4. text[t].started \in BOOLEAN /\ b.started \in BOOLEAN /\ (text[t].started => b.started)
    BY <1>1 DEF TextBlocks, Says
  <2>5. CASE b.started = text[t].started
    <3>1. U = T
      BY <1>3, <2>2, <2>5
    <3>2. opened' = opened
      BY <2>5
    <3> QED
      BY <1>7, <2>1, <2>2, <3>1, <3>2 DEF Opened
  <2>6. CASE b.started # text[t].started
    <3>1. t \notin T /\ \A u \in TextItems : u \in U <=> u \in T \/ u = t
      BY <1>3, <2>2, <2>4, <2>6
    <3>2. PICK more : more = Append(opened.text, t)
      OBVIOUS
    <3>3. more \in Seq(TextItems) /\ Listed(more, TextItems, U)
      BY <2>3, <3>1, <3>2, ListedMore
    <3>4. opened' = [opened EXCEPT !.text = more]
      BY <2>6, <3>2
    <3>5. opened' \in [text : Seq(TextItems), call : Seq(CallItems)] /\ opened'.call = opened.call /\ opened'.text = more
      BY <2>3, <3>3, <3>4
    <3> QED
      BY <1>7, <2>1, <2>2, <3>3, <3>5 DEF Opened
  <2> QED
    BY <2>5, <2>6
<1>10. Underway'
  <2>1. \A u \in TextItems : text'[u].closed => item'[u].done
    BY <1>3, <1>7 DEF Underway, DoneStays
  <2> QED
    BY <1>7, <2>1 DEF Underway
<1> QED
  BY <1>8, <1>9, <1>10 DEF Ongoing

LEMMA NoEvents ==
  ASSUME NEW ev, ev = <<>>, sent \in Seq(Events)
  PROVE  ev \in Seq(Events) /\ Len(ev) = 0 /\ Follows(sent, sent, ev)
<1>1. sent = sent \o <<>>
  OBVIOUS
<1>2. <<>> \in Seq(Events) /\ Len(<<>>) = 0
  OBVIOUS
<1> QED
  BY <1>1, <1>2 DEF Follows

LEMMA TextIs ==
  ASSUME Indexed, InBlocks, NEW t \in TextItems
  PROVE  /\ text[t] \in TextBlocks /\ text[t].index \in Int /\ text[t].started \in BOOLEAN /\ text[t].closed \in BOOLEAN
         /\ (text[t].started => text[t].index # -1) /\ (text[t].closed => text[t].started)
         /\ nextIndex \in Nat
<1>1. acc \in [CallItems -> Accumulators] /\ text \in [TextItems -> TextBlocks] /\ t \in Items /\ nextIndex \in Nat
  BY MadeIs DEF Indexed, Items
<1>2. t \notin CallItems
  BY ItemsAreFinite
<1>3. IndexOf(acc, text)[t] = text[t].index /\ StartedOf(acc, text)[t] = text[t].started /\ ClosedOf(acc, text)[t] = text[t].closed
  BY <1>1, <1>2 DEF IndexOf, StartedOf, ClosedOf
<1>4. (StartedOf(acc, text)[t] => IndexOf(acc, text)[t] # -1) /\ (ClosedOf(acc, text)[t] => StartedOf(acc, text)[t])
  BY <1>1 DEF InBlocks, Blocks, Indices
<1> QED
  BY <1>1, <1>3, <1>4 DEF TextBlocks

(* a message is added,                                                      *)
LEMMA MessageAddedBlocks ==
  ASSUME ResponseInv, ResponseInv', BlockInv, NEW t \in TextItems, MessageAdded(t)
  PROVE  BlockInv'
<1>1. /\ upstream = "open" /\ upstream' = upstream /\ Indexed /\ Indexed' /\ ServerShape /\ t \in Items
      /\ acc' = acc /\ opened' = opened /\ sent' = sent
  BY DEF MessageAdded, MaySend, ResponseInv, Items
<1>2. Ongoing
  BY <1>1, WasOngoing
<1>3. DoneStays
  BY <1>1, ItemStays DEF MessageAdded, Announce
<1>4. CASE text[t].index # -1
  BY <1>1, <1>2, <1>3, <1>4, NothingSaid, GoesOn DEF MessageAdded
<1>5. CASE text[t].index = -1
  <2>1. /\ text[t] \in TextBlocks /\ text[t].index \in Int /\ ~text[t].started /\ ~text[t].closed /\ nextIndex \in Nat
        /\ text[t].started \in BOOLEAN /\ text[t].closed \in BOOLEAN
    BY <1>1, <1>2, <1>5, TextIs DEF Ongoing
  <2>2. PICK b : b = [text[t] EXCEPT !.index = nextIndex]
    OBVIOUS
  <2>3. b \in TextBlocks /\ b.index = nextIndex /\ b.started = text[t].started /\ b.closed = text[t].closed
    BY <2>1, <2>2 DEF TextBlocks
  <2>4. text' = [text EXCEPT ![t] = b]
    BY <1>5, <2>2 DEF MessageAdded
  <2>5. PICK ev \in Seq(Events) : ev = <<>> /\ Len(ev) = 0 /\ Follows(sent, sent, ev)
    BY <1>2, NoEvents DEF Ongoing
  <2>6. Says(t, text[t].index, text[t].started, text[t].closed, b.index, b.started, b.closed, ev, 0)
    BY <1>5, <2>1, <2>3 DEF Says
  <2>7. Follows(sent', sent, ev)
    BY <1>1, <2>5
  <2>8. ~b.closed
    BY <2>1, <2>3
  <2> QED
    BY <1>1, <1>2, <1>3, <2>3, <2>4, <2>5, <2>6, <2>7, <2>8, TextGoesOn, GoesOn
<1> QED
  BY <1>4, <1>5

(* its text comes,                                                          *)
LEMMA TextDeltaBlocks ==
  ASSUME ResponseInv, ResponseInv', BlockInv, NEW t \in TextItems, TextDelta(t)
  PROVE  BlockInv'
<1>1. /\ upstream = "open" /\ upstream' = upstream /\ Indexed /\ Indexed' /\ ServerShape /\ t \in Items
      /\ acc' = acc /\ ~item[t].done
  BY DEF TextDelta, MayAddress, MaySend, ResponseInv, Items
<1>2. Ongoing /\ sent \in Seq(Events) /\ InBlocks
  BY <1>1, WasOngoing DEF Ongoing
<1>3. DoneStays
  BY <1>1, ItemStays DEF TextDelta
<1>4. PICK x : x = IF text[t].index = -1 THEN nextIndex ELSE text[t].index
  OBVIOUS
<1>5. /\ text[t] \in TextBlocks /\ text[t].index \in Int /\ text[t].started \in BOOLEAN /\ text[t].closed \in BOOLEAN
      /\ nextIndex \in Nat
  BY <1>1, <1>2, TextIs
<1>6. ~text[t].closed
  BY <1>1, <1>2 DEF Ongoing, Underway
<1>7. x \in Int /\ x # -1
  BY <1>4, <1>5
<1>8. PICK b : b = [index |-> x, started |-> TRUE, closed |-> FALSE]
  OBVIOUS
<1>9. b \in TextBlocks /\ b.index = x /\ b.started = TRUE /\ b.closed = FALSE
  BY <1>7, <1>8 DEF TextBlocks
<1>10. PICK frags : frags = <<item[t].frags + 1>>
  OBVIOUS
<1>11. frags \in Seq(Nat)
  <2>1. item[t] \in ItemRecords
    BY <1>1, ItemIs
  <2>2. MaxFrags \in Nat
    BY ResponseAssumption
  <2> QED
    BY <1>10, <2>1, <2>2 DEF ItemRecords
<1>12. PICK d \in Events : d = StartOf(x, t) /\ d.type = "start" /\ d.index = x /\ d.item = t
  <2>1. IsEvent(StartOf(x, t), "start", x, t, <<>>)
    BY <1>1, <1>7, <1>11, EventsAre
  <2> QED
    BY <2>1 DEF IsEvent
<1>13. PICK e \in Events : e = DeltaOf(x, t, frags) /\ e.type = "delta" /\ e.index = x /\ e.item = t
  <2>1. IsEvent(DeltaOf(x, t, frags), "delta", x, t, frags)
    BY <1>1, <1>7, <1>11, EventsAre
  <2> QED
    BY <2>1 DEF IsEvent
<1>14. text' = [text EXCEPT ![t] = b]
  BY <1>4, <1>8 DEF TextDelta
<1>15. sent' = sent \o ((IF text[t].started THEN <<>> ELSE <<d>>) \o <<e>>)
  BY <1>4, <1>10, <1>12, <1>13 DEF TextDelta, Sends
<1>16. PICK ev \in Seq(Events) :
         /\ ev = (IF text[t].started THEN <<>> ELSE <<d>>) \o <<e>>
         /\ Says(t, text[t].index, text[t].started, text[t].closed, b.index, b.started, b.closed, ev, Len(ev))
  <2>1. CASE text[t].started
    <3>1. PICK ev \in Seq(Events) : ev = <<e>> /\ Len(ev) = 1 /\ ev[1] = e
      BY OneIs
    <3>2. \A k \in 1..1 : k = 1
      OBVIOUS
    <3>3. Says(t, text[t].index, text[t].started, text[t].closed, b.index, b.started, b.closed, ev, 1)
      BY <1>4, <1>6, <1>9, <1>13, <2>1, <3>1, <3>2 DEF Says
    <3>4. ev = <<>> \o <<e>>
      BY <3>1
    <3> QED
      BY <2>1, <3>1, <3>3, <3>4
  <2>2. CASE ~text[t].started
    <3>1. PICK ev : ev = <<d>> \o <<e>>
      OBVIOUS
    <3>2. ev \in Seq(Events) /\ Len(ev) = 2 /\ ev[1] = d /\ ev[2] = e
      BY <3>1, TwoIs DEF Follows
    <3>3. \A k \in 1..2 : k = 1 \/ k = 2
      OBVIOUS
    <3>4. Says(t, text[t].index, text[t].started, text[t].closed, b.index, b.started, b.closed, ev, 2)
      BY <1>4, <1>6, <1>9, <1>12, <1>13, <2>2, <3>2, <3>3 DEF Says
    <3> QED
      BY <2>2, <3>1, <3>2, <3>4
  <2> QED
    BY <2>1, <2>2
<1>17. Follows(sent', sent, ev)
  BY <1>15, <1>16 DEF Follows
<1>18. opened' = IF b.started = text[t].started THEN opened ELSE [opened EXCEPT !.text = Append(@, t)]
  BY <1>5, <1>9 DEF TextDelta
<1> QED
  BY <1>1, <1>2, <1>3, <1>9, <1>14, <1>16, <1>17, <1>18, TextGoesOn, GoesOn

(* and is done.                                                             *)
LEMMA TextDoneBlocks ==
  ASSUME ResponseInv, ResponseInv', BlockInv, NEW t \in TextItems, TextDone(t)
  PROVE  BlockInv'
<1>1. /\ upstream = "open" /\ upstream' = upstream /\ Indexed /\ Indexed' /\ ServerShape /\ t \in Items
      /\ acc' = acc /\ opened' = opened /\ item' = [item EXCEPT ![t].done = TRUE]
  BY DEF TextDone, MayAddress, MaySend, ResponseInv, Items
<1>2. Ongoing /\ sent \in Seq(Events) /\ InBlocks
  BY <1>1, WasOngoing DEF Ongoing
<1>3. DoneStays
  BY <1>1, ItemStays
<1>4. CASE ~CloseText(t)
  BY <1>1, <1>2, <1>3, <1>4, NothingSaid, GoesOn DEF TextDone
<1>5. CASE CloseText(t)
  <2>1. /\ text[t] \in TextBlocks /\ text[t].index \in Int /\ text[t].started \in BOOLEAN /\ text[t].closed \in BOOLEAN
        /\ text[t].started /\ ~text[t].closed /\ text[t].index # -1
    BY <1>1, <1>2, <1>5, TextIs DEF CloseText
  <2>2. PICK b : b = [text[t] EXCEPT !.closed = TRUE]
    OBVIOUS
  <2>3. b \in TextBlocks /\ b.index = text[t].index /\ b.started = text[t].started /\ b.closed = TRUE
    BY <2>1, <2>2 DEF TextBlocks
  <2>4. text' = [text EXCEPT ![t] = b] /\ Sends(<<StopOf(text[t].index, t)>>)
    BY <1>5, <2>2 DEF TextDone
  <2>5. PICK x \in Int : x = text[t].index
    BY <2>1
  <2>6. PICK e \in Events : e = StopOf(x, t) /\ e.type = "stop" /\ e.index = x /\ e.item = t
    <3>0. <<>> \in Seq(Nat)
      OBVIOUS
    <3>1. IsEvent(StopOf(x, t), "stop", x, t, <<>>)
      BY <1>1, <3>0, EventsAre
    <3> QED
      BY <3>1 DEF IsEvent
  <2>7. PICK ev \in Seq(Events) : ev = <<e>> /\ Len(ev) = 1 /\ ev[1] = e
    BY OneIs
  <2>8. \A k \in 1..1 : k = 1
    OBVIOUS
  <2>9. Says(t, text[t].index, text[t].started, text[t].closed, b.index, b.started, b.closed, ev, 1)
    BY <2>1, <2>3, <2>5, <2>6, <2>7, <2>8 DEF Says
  <2>10. Follows(sent', sent, ev)
    BY <2>4, <2>5, <2>6, <2>7 DEF Follows, Sends
  <2>11. item'[t].done
    BY <1>1 DEF ServerShape
  <2> QED
    BY <1>1, <1>2, <1>3, <2>3, <2>4, <2>7, <2>9, <2>10, <2>11, TextGoesOn, GoesOn
<1> QED
  BY <1>4, <1>5

(* response.completed: the late calls start.                                *)
LEMMA CompletedBlocks ==
  ASSUME ResponseInv, ResponseInv', BlockInv, Completed
  PROVE  BlockInv'
<1>1. /\ upstream = "open" /\ upstream' = "completed" /\ Indexed /\ Indexed' /\ text' = text /\ opened' = opened
      /\ item' = item /\ acc \in [CallItems -> Accumulators] /\ text \in [TextItems -> TextBlocks]
  BY DEF Completed, ResponseInv, Indexed
<1>2. sent \in Seq(Events) /\ InBlocks /\ Opened /\ Underway
  BY <1>1 DEF BlockInv
<1>3. PICK S : S = {f \in CallItems : Startable(f)}
  OBVIOUS
<1>4. IsFiniteSet(S) /\ S \subseteq CallItems /\ CallItems \subseteq Items
  <2>1. S \subseteq Items
    BY <1>3, ItemsAreFinite
  <2> QED
    BY <1>3, <2>1, ItemsAreFinite, FS_Subset
<1>5. PICK late \in SetToSeqs(S) : Sends([k \in 1..Len(late) |-> StartOf(acc[late[k]].index, late[k])])
  BY <1>3 DEF Completed
<1>6. /\ Len(late) \in Nat /\ late \in [1..Len(late) -> S]
      /\ \A k, l \in 1..Len(late) : late[k] = late[l] => k = l
      /\ \A x \in S : \E k \in 1..Len(late) : late[k] = x
  BY <1>4, SeqsOf
<1>7. PICK n \in Nat : n = Len(late)
  BY <1>6
<1>8. PICK ev : ev = [k \in 1..n |-> StartOf(acc[late[k]].index, late[k])]
  OBVIOUS
<1>9. ASSUME NEW k \in 1..n
      PROVE  /\ late[k] \in S /\ ev[k] \in Events /\ ev[k].type = "start" /\ ev[k].item = late[k]
             /\ ev[k].index = acc[late[k]].index
  <2>1. PICK f \in CallItems : f = late[k] /\ f \in S
    BY <1>4, <1>6, <1>7
  <2>2. PICK x \in Int : x = acc[f].index
    BY <1>1 DEF Accumulators
  <2>3. ev[k] = StartOf(x, f)
    BY <1>8, <2>1, <2>2
  <2>4. <<>> \in Seq(Nat) /\ f \in Items
    BY <1>4
  <2>5. IsEvent(StartOf(x, f), "start", x, f, <<>>)
    BY <2>4, EventsAre
  <2> QED
    BY <2>1, <2>2, <2>3, <2>5 DEF IsEvent
<1>10. ev \in Seq(Events) /\ Len(ev) = n
  <2>1. \A k \in 1..n : ev[k] \in Events
    BY <1>9
  <2> QED
    BY <1>8, <2>1
<1>11. Follows(sent', sent, ev)
  BY <1>5, <1>7, <1>8 DEF Follows, Sends
<1>12. sent' \in Seq(Events) /\ Len(sent') = Len(sent) + n /\ Goes(sent', sent, Len(sent), ev, n)
  BY <1>2, <1>10, <1>11, FollowsIs
<1>13. PICK idx, on, off : idx = IndexOf(acc, text) /\ on = StartedOf(acc, text) /\ off = ClosedOf(acc, text)
  OBVIOUS
<1>14. PICK on1 : on1 = StartedOf(acc', text')
  OBVIOUS
<1>15. \A f \in CallItems : /\ acc'[f].index = acc[f].index /\ acc'[f].stopped = acc[f].stopped
                            /\ acc'[f].started \in BOOLEAN /\ acc[f].started \in BOOLEAN
                            /\ (f \in S => acc'[f].started /\ acc'[f].named /\ ~acc[f].started /\ acc[f].index # -1)
                            /\ (f \notin S => acc'[f] = acc[f])
  <2>1. SUFFICES ASSUME NEW f \in CallItems
                 PROVE  /\ acc'[f].index = acc[f].index /\ acc'[f].stopped = acc[f].stopped
                        /\ acc'[f].started \in BOOLEAN /\ acc[f].started \in BOOLEAN
                        /\ (f \in S => acc'[f].started /\ acc'[f].named /\ ~acc[f].started /\ acc[f].index # -1)
                        /\ (f \notin S => acc'[f] = acc[f])
    OBVIOUS
  <2>2. acc'[f] = IF Startable(f) THEN MarkStarted(acc[f], f).acc ELSE acc[f]
    BY DEF Completed
  <2>3. acc[f] \in Accumulators
    BY <1>1
  <2>4. CASE f \in S
    <3>1. acc'[f] = [acc[f] EXCEPT !.named = TRUE, !.started = TRUE]
      BY <1>3, <2>2, <2>4 DEF MarkStarted
    <3>2. acc[f].index # -1 /\ ~acc[f].started
      BY <1>3, <2>4 DEF Startable
    <3> QED
      BY <2>3, <2>4, <3>1, <3>2 DEF Accumulators
  <2>5. CASE f \notin S
    BY <1>3, <2>2, <2>3, <2>5 DEF Accumulators
  <2> QED
    BY <2>4, <2>5
<1>16. IndexOf(acc', text') = idx /\ ClosedOf(acc', text') = off
  BY <1>1, <1>13, <1>15 DEF IndexOf, ClosedOf
<1>17. /\ on1 \in [Items -> BOOLEAN]
       /\ \A f \in CallItems : on[f] = acc[f].started /\ on1[f] = acc'[f].started /\ idx[f] = acc[f].index
       /\ \A t \in TextItems : on1[t] = on[t] /\ on[t] \in BOOLEAN
  <2>1. acc' \in [CallItems -> Accumulators] /\ text' \in [TextItems -> TextBlocks]
    BY <1>1 DEF Indexed
  <2>2. on1 \in [Items -> BOOLEAN] /\ on \in [Items -> BOOLEAN]
    BY <1>1, <1>13, <1>14, <2>1, OfIs
  <2>3. \A f \in CallItems : on[f] = acc[f].started /\ on1[f] = acc'[f].started /\ idx[f] = acc[f].index
    BY <1>4, <1>13, <1>14 DEF StartedOf, IndexOf
  <2>4. \A t \in TextItems : t \in Items /\ t \notin CallItems
    BY ItemsAreFinite
  <2>5. \A t \in TextItems : on1[t] = on[t]
    BY <1>1, <1>13, <1>14, <2>4 DEF StartedOf
  <2> QED
    BY <2>2, <2>3, <2>4, <2>5
<1>18. \A i \in Items : on1[i] <=> on[i] \/ \E k \in 1..n : late[k] = i
  <2>1. ASSUME NEW i \in CallItems PROVE on1[i] <=> on[i] \/ \E k \in 1..n : late[k] = i
    <3>1. (\E k \in 1..n : late[k] = i) <=> i \in S
      BY <1>6, <1>7
    <3> QED
      BY <1>15, <1>17, <3>1
  <2>2. ASSUME NEW i \in TextItems PROVE on1[i] <=> on[i] \/ \E k \in 1..n : late[k] = i
    <3>1. \A k \in 1..n : late[k] # i
      BY <1>4, <1>9, ItemsAreFinite
    <3> QED
      BY <1>17, <3>1
  <2> QED
    BY <2>1, <2>2 DEF Items
<1>19. Starting(idx, on, off, on1, late, ev, n)
  <2>1. late \in [1..n -> Items]
    BY <1>4, <1>6, <1>7
  <2>2. \A k \in 1..n : ~on[late[k]] /\ idx[late[k]] # -1 /\ ev[k].index = idx[late[k]]
    BY <1>4, <1>9, <1>15, <1>17
  <2> QED
    BY <1>6, <1>7, <1>9, <1>17, <1>18, <2>1, <2>2 DEF Starting
<1>20. Blocks(sent, Len(sent), idx, on, off)
  BY <1>2, <1>13 DEF InBlocks
<1>21. Blocks(sent', Len(sent) + n, idx, on1, off)
  BY <1>12, <1>19, <1>20, ManyStart
<1>22. InBlocks'
  BY <1>12, <1>14, <1>16, <1>21 DEF InBlocks
<1>23. Opened'
  <2>1. {f \in CallItems : acc'[f].index # -1} = {f \in CallItems : acc[f].index # -1}
    BY <1>15
  <2> QED
    BY <1>1, <1>2, <2>1 DEF Opened
<1>24. Underway'
  <2>1. \A f \in CallItems : ~acc'[f].stopped /\ (acc'[f].named <=> acc'[f].started)
    BY <1>2, <1>15 DEF Underway
  <2> QED
    BY <1>1, <1>2, <2>1 DEF Underway
<1> QED
  BY <1>1, <1>12, <1>22, <1>23, <1>24 DEF BlockInv

(* What the two views of an answer have to do with each other.              *)
LEMMA FinishedIs ==
  ASSUME NEW w, NEW n \in Nat, n = Len(w)
  PROVE  /\ (WellIn(w, n) <=> WellFormed(w)) /\ (OnceIn(w, n) <=> StartedOnce(w))
         /\ (Finished(w, n) => WellFormed(w) /\ StartedOnce(w) /\ AllStopped(w))
<1>1. WellIn(w, n) <=> WellFormed(w)
  BY DEF WellIn, WellFormed, OpenIn
<1>2. OnceIn(w, n) <=> StartedOnce(w)
  BY DEF OnceIn, StartedOnce
<1>3. Finished(w, n) => AllStopped(w)
  BY DEF Finished, AllStopped, StoppedIn
<1> QED
  BY <1>1, <1>2, <1>3 DEF Finished

(* The blocks of an answer under way are well formed.                       *)
LEMMA OngoingIsWell ==
  ASSUME sent \in Seq(Events), InBlocks
  PROVE  BlocksAreWellFormed
<1>1. PICK n \in Nat : n = Len(sent)
  OBVIOUS
<1>2. WellIn(sent, n) /\ OnceIn(sent, n) /\ \A k \in 1..n : sent[k].type # "end"
  BY <1>1 DEF InBlocks, Blocks
<1>3. ~EndsWell
  <2>1. sent # <<>> => n \in 1..n
    BY <1>1
  <2> QED
    BY <1>1, <1>2, <2>1 DEF EndsWell, Last
<1> QED
  BY <1>1, <1>2, <1>3, FinishedIs DEF BlocksAreWellFormed

(* Nothing is sent yet.                                                     *)
LEMMA BlocksInitially == ResponseInit => BlockInv
<1> SUFFICES ASSUME ResponseInit PROVE BlockInv
  OBVIOUS
<1>1. /\ upstream = "open" /\ acc = [f \in CallItems |-> Unmade] /\ text = [t \in TextItems |-> NoText]
      /\ opened = [text |-> <<>>, call |-> <<>>] /\ sent = <<>>
  BY DEF ResponseInit
<1>2. sent \in Seq(Events) /\ Len(sent) = 0 /\ 0 \in Nat /\ \A k \in 1..0 : FALSE
  BY <1>1
<1>3. /\ Indexed
  BY ResponseInitially DEF ResponseInv
<1>4. PICK idx, on, off : idx = IndexOf(acc, text) /\ on = StartedOf(acc, text) /\ off = ClosedOf(acc, text)
  OBVIOUS
<1>5. /\ idx \in [Items -> Int] /\ on \in [Items -> BOOLEAN] /\ off \in [Items -> BOOLEAN]
  BY <1>3, <1>4, OfIs DEF Indexed
<1>6. \A i \in Items : idx[i] = -1 /\ on[i] = FALSE /\ off[i] = FALSE
  BY <1>1, <1>4 DEF IndexOf, StartedOf, ClosedOf, Unmade, NewAccumulator, NoText, Items
<1>7. Indices(idx, on, off)
  BY <1>5, <1>6 DEF Indices
<1>8. Blocks(sent, 0, idx, on, off)
  BY <1>2, <1>6, <1>7 DEF Blocks, WellIn, OnceIn
<1>9. InBlocks
  BY <1>2, <1>4, <1>8 DEF InBlocks
<1>10. Opened
  <2>1. opened.text = <<>> /\ opened.call = <<>> /\ opened \in [text : Seq(TextItems), call : Seq(CallItems)]
    BY <1>1
  <2>2. PICK none : none = <<>>
    OBVIOUS
  <2>3. none \in Seq(TextItems) /\ none \in Seq(CallItems) /\ Len(none) = 0
    BY <2>2
  <2>4. \A S, T : none \in Seq(S) /\ (\A x \in S : x \notin T) => Listed(none, S, T)
    BY <1>2, <2>3 DEF Listed
  <2>5. Listed(none, TextItems, {t \in TextItems : text[t].started})
    BY <1>1, <2>3, <2>4 DEF NoText
  <2>6. Listed(none, CallItems, {f \in CallItems : acc[f].index # -1})
    BY <1>1, <2>3, <2>4 DEF Unmade, NewAccumulator
  <2> QED
    BY <2>1, <2>2, <2>5, <2>6 DEF Opened
<1>11. Underway
  BY <1>1 DEF Underway, Unmade, NewAccumulator, NoText
<1> QED
  BY <1>1, <1>2, <1>9, <1>10, <1>11 DEF BlockInv

(* An error frame is the last event.                                        *)
LEMMA FailsBlocks ==
  ASSUME BlockInv, StreamFails
  PROVE  BlockInv'
<1>1. upstream # "ended" /\ upstream' = "ended" /\ sent' = sent \o <<ErrorEvent>>
  BY DEF StreamFails, Sends
<1>2. sent \in Seq(Events) /\ InBlocks
  BY <1>1 DEF BlockInv
<1>3. PICK e \in Events : e = ErrorEvent /\ e.type = "error"
  <2>1. <<>> \in Seq(Nat) /\ 0 \in Int /\ "none" \in Items \cup {"none", "end_turn", "tool_use"}
    OBVIOUS
  <2>2. IsEvent(Event("error", 0, "none", <<>>), "error", 0, "none", <<>>)
    BY <2>1, EventIs
  <2> QED
    BY <2>2 DEF ErrorEvent, IsEvent
<1>4. PICK ev \in Seq(Events) : ev = <<e>> /\ Len(ev) = 1 /\ ev[1] = e
  BY OneIs
<1>5. PICK n \in Nat : n = Len(sent)
  BY <1>2
<1>6. Follows(sent', sent, ev)
  BY <1>1, <1>3, <1>4 DEF Follows
<1>7. sent' \in Seq(Events) /\ Len(sent') = n + 1 /\ Goes(sent', sent, n, ev, 1)
  BY <1>2, <1>4, <1>5, <1>6, FollowsIs
<1>8. Same(sent', sent, n) /\ sent'[n + 1] = e
  BY <1>4, <1>7 DEF Goes
<1>9. WellIn(sent, n) /\ OnceIn(sent, n)
  BY <1>2, <1>5 DEF InBlocks, Blocks
<1>10. WellIn(sent', n + 1) /\ OnceIn(sent', n + 1)
  BY <1>3, <1>8, <1>9, LastSaid
<1>11. WellFormed(sent') /\ StartedOnce(sent')
  BY <1>7, <1>10, FinishedIs
<1>12. Last(sent') = e
  BY <1>7, <1>8 DEF Last
<1> QED
  BY <1>1, <1>3, <1>7, <1>11, <1>12 DEF BlockInv, BlocksAreWellFormed, EndsWell

(* What the end of the body stops, in one list.                             *)
OneList == opened.text \o opened.call
StopsOf(i) ==
  IF i \in CallItems THEN Finish(acc[i], i).events
  ELSE IF CloseText(i) THEN <<StopOf(text[i].index, i)>> ELSE <<>>

(* Every item that is open is in the list, and once.                        *)
LEMMA ListIs ==
  ASSUME Opened, Indexed
  PROVE  /\ Len(OneList) \in Nat /\ OneList \in [1..Len(OneList) -> Items] /\ OneList \in Seq(Items)
         /\ \A k, l \in 1..Len(OneList) : OneList[k] = OneList[l] => k = l
         /\ \A t \in TextItems : text[t].started => \E k \in 1..Len(OneList) : OneList[k] = t
         /\ \A f \in CallItems : acc[f].index # -1 => \E k \in 1..Len(OneList) : OneList[k] = f
<1>1. PICK a \in Seq(TextItems), b \in Seq(CallItems) : a = opened.text /\ b = opened.call
  BY DEF Opened
<1>2. PICK n \in Nat, m \in Nat : n = Len(a) /\ m = Len(b)
  OBVIOUS
<1>3. /\ \A k, l \in 1..n : a[k] = a[l] => k = l
      /\ \A k, l \in 1..m : b[k] = b[l] => k = l
      /\ \A t \in TextItems : text[t].started => \E k \in 1..n : a[k] = t
      /\ \A f \in CallItems : acc[f].index # -1 => \E k \in 1..m : b[k] = f
  BY <1>1, <1>2 DEF Opened, Listed
<1>4. a \in Seq(Items) /\ b \in Seq(Items)
  BY DEF Items
<1>5. PICK w : w = OneList
  OBVIOUS
<1>6. Follows(w, a, b)
  BY <1>1, <1>5 DEF Follows, OneList
<1>7. w \in Seq(Items) /\ Len(w) = n + m /\ Goes(w, a, n, b, m)
  BY <1>2, <1>4, <1>6, FollowsIs
<1>8. (\A k \in 1..n : w[k] = a[k] /\ a[k] \in TextItems) /\ (\A k \in 1..m : w[n + k] = b[k] /\ b[k] \in CallItems)
  BY <1>2, <1>7 DEF Goes, Same
<1>9. ASSUME NEW k \in 1..(n + m), NEW l \in 1..(n + m), w[k] = w[l] PROVE k = l
  <2>1. \A i \in TextItems : i \notin CallItems
    BY ItemsAreFinite
  <2>2. CASE k \in 1..n /\ l \in 1..n
    BY <1>3, <1>8, <1>9, <2>2
  <2>3. CASE k \in 1..n /\ l \notin 1..n
    <3>1. PICK c \in 1..m : l = n + c
      BY <2>3, Positions
    <3> QED
      BY <1>8, <1>9, <2>1, <2>3, <3>1
  <2>4. CASE k \notin 1..n /\ l \in 1..n
    <3>1. PICK c \in 1..m : k = n + c
      BY <2>4, Positions
    <3> QED
      BY <1>8, <1>9, <2>1, <2>4, <3>1
  <2>5. CASE k \notin 1..n /\ l \notin 1..n
    <3>1. PICK c \in 1..m : k = n + c
      BY <2>5, Positions
    <3>2. PICK d \in 1..m : l = n + d
      BY <2>5, Positions
    <3>3. b[c] = b[d]
      BY <1>8, <1>9, <3>1, <3>2
    <3>4. c = d
      BY <1>3, <3>3
    <3> QED
      BY <3>1, <3>2, <3>4
  <2> QED
    BY <2>2, <2>3, <2>4, <2>5
<1>10. ASSUME NEW t \in TextItems, text[t].started PROVE \E k \in 1..(n + m) : w[k] = t
  <2>1. PICK k \in 1..n : a[k] = t
    BY <1>3, <1>10
  <2>2. k \in 1..(n + m)
    OBVIOUS
  <2> QED
    BY <1>8, <2>1, <2>2
<1>11. ASSUME NEW f \in CallItems, acc[f].index # -1 PROVE \E k \in 1..(n + m) : w[k] = f
  <2>1. PICK k \in 1..m : b[k] = f
    BY <1>3, <1>11
  <2>2. n + k \in 1..(n + m)
    OBVIOUS
  <2> QED
    BY <1>8, <2>1, <2>2
<1>12. w \in [1..(n + m) -> Items] /\ n + m \in Nat
  BY <1>7
<1> QED
  BY <1>5, <1>7, <1>9, <1>10, <1>11, <1>12

Stops == {e \in Events : e.type = "stop"}

(* The two sweeps are one, over that list.                                  *)
LEMMA SweepsAre ==
  ASSUME Opened, Indexed, InBlocks, Underway
  PROVE  /\ [k \in 1..Len(OneList) |-> StopsOf(OneList[k])] \in Seq(Single(Stops))
         /\ TextSweep \o CallSweep = FlattenSeq([k \in 1..Len(OneList) |-> StopsOf(OneList[k])])
<1>1. PICK a \in Seq(TextItems), b \in Seq(CallItems) : a = opened.text /\ b = opened.call
  BY DEF Opened
<1>2. PICK n \in Nat, m \in Nat : n = Len(a) /\ m = Len(b)
  OBVIOUS
<1>3. PICK p, q : p = [k \in 1..n |-> StopsOf(a[k])] /\ q = [k \in 1..m |-> StopsOf(b[k])]
  OBVIOUS
<1>4. acc \in [CallItems -> Accumulators] /\ text \in [TextItems -> TextBlocks] /\ CallItems \subseteq Items /\ TextItems \subseteq Items
  BY DEF Indexed, Items
<1>5. ASSUME NEW i \in Items PROVE StopsOf(i) \in Single(Stops)
  <2>1. CASE i \in CallItems
    <3>1. PICK x \in Int : x = acc[i].index
      BY <1>4, <2>1 DEF Accumulators
    <3>2. PICK e \in Stops : e = StopOf(x, i)
      <4>1. <<>> \in Seq(Nat)
        OBVIOUS
      <4>2. IsEvent(StopOf(x, i), "stop", x, i, <<>>)
        BY <1>4, <4>1, EventsAre
      <4> QED
        BY <4>2 DEF IsEvent, Stops
    <3>3. StopsOf(i) = <<e>> \/ StopsOf(i) = <<>>
      BY <2>1, <3>1, <3>2 DEF StopsOf, Finish
    <3> QED
      BY <3>3 DEF Single
  <2>2. CASE i \notin CallItems
    <3>0. i \in TextItems
      BY <2>2 DEF Items
    <3>1. PICK x \in Int : x = text[i].index
      BY <1>4, <3>0 DEF TextBlocks
    <3>2. PICK e \in Stops : e = StopOf(x, i)
      <4>1. <<>> \in Seq(Nat)
        OBVIOUS
      <4>2. IsEvent(StopOf(x, i), "stop", x, i, <<>>)
        BY <1>4, <4>1, EventsAre
      <4> QED
        BY <4>2 DEF IsEvent, Stops
    <3>3. StopsOf(i) = <<e>> \/ StopsOf(i) = <<>>
      BY <2>2, <3>1, <3>2 DEF StopsOf
    <3> QED
      BY <3>3 DEF Single
  <2> QED
    BY <2>1, <2>2
<1>6. p \in Seq(Single(Stops)) /\ q \in Seq(Single(Stops)) /\ Len(p) = n /\ Len(q) = m
  <2>1. \A k \in 1..n : a[k] \in Items
    BY <1>2, <1>4
  <2>2. \A k \in 1..m : b[k] \in Items
    BY <1>2, <1>4
  <2>3. PICK T : T = Single(Stops)
    OBVIOUS
  <2>4. (\A k \in 1..n : p[k] \in T) /\ (\A k \in 1..m : q[k] \in T)
    BY <1>3, <1>5, <2>1, <2>2, <2>3
  <2>5. p \in [1..n -> T] /\ q \in [1..m -> T]
    BY <1>3, <2>4
  <2>6. p \in Seq(T) /\ q \in Seq(T) /\ Len(p) = n /\ Len(q) = m
    BY <2>5, SeqIs
  <2> QED
    BY <2>3, <2>6
<1>7. TextSweep = FlattenSeq(p)
  <2>1. [k \in 1..Len(opened.text) |->
                LET t == opened.text[k] IN IF CloseText(t) THEN <<StopOf(text[t].index, t)>> ELSE <<>>] = p
    <3>1. \A k \in 1..n : a[k] \in TextItems /\ a[k] \notin CallItems
      BY <1>2, ItemsAreFinite
    <3>2. \A k \in 1..n : StopsOf(a[k]) = IF CloseText(a[k]) THEN <<StopOf(text[a[k]].index, a[k])>> ELSE <<>>
      BY <3>1 DEF StopsOf
    <3> QED
      BY <1>1, <1>2, <1>3, <3>2, Zenon
  <2> QED
    BY <2>1 DEF TextSweep
<1>8. CallSweep = FlattenSeq(q)
  <2>1. [k \in 1..Len(opened.call) |-> Finish(acc[opened.call[k]], opened.call[k]).events] = q
    <3>1. \A k \in 1..m : b[k] \in CallItems
      BY <1>2
    <3>2. \A k \in 1..m : StopsOf(b[k]) = Finish(acc[b[k]], b[k]).events
      BY <3>1 DEF StopsOf
    <3> QED
      BY <1>1, <1>2, <1>3, <3>2, Zenon
  <2> QED
    BY <2>1 DEF CallSweep
<1>9. PICK w : w = OneList
  OBVIOUS
<1>10. Follows(w, a, b)
  BY <1>1, <1>9 DEF Follows, OneList
<1>11. w \in Seq(Items) /\ Len(w) = n + m /\ Goes(w, a, n, b, m)
  <2>1. a \in Seq(Items) /\ b \in Seq(Items)
    BY <1>4
  <2> QED
    BY <1>2, <1>10, <2>1, FollowsIs
<1>12. PICK r : r = p \o q
  OBVIOUS
<1>13. r \in Seq(Single(Stops)) /\ Len(r) = n + m /\ Goes(r, p, n, q, m)
  <2>1. PICK T : T = Single(Stops)
    OBVIOUS
  <2>2. Follows(r, p, q)
    BY <1>12 DEF Follows
  <2> QED
    BY <1>6, <2>1, <2>2, FollowsIs
<1>14. r = [k \in 1..Len(w) |-> StopsOf(w[k])]
  <2>1. ASSUME NEW k \in 1..(n + m) PROVE r[k] = StopsOf(w[k])
    <3>1. CASE k \in 1..n
      BY <1>3, <1>11, <1>13, <3>1 DEF Goes, Same
    <3>2. CASE k \notin 1..n
      <4>1. PICK c \in 1..m : k = n + c
        BY <3>2, Positions
      <4> QED
        BY <1>3, <1>11, <1>13, <4>1 DEF Goes
    <3> QED
      BY <3>1, <3>2
  <2> QED
    BY <1>11, <1>13, <2>1
<1>15. FlattenSeq(r) = FlattenSeq(p) \o FlattenSeq(q)
  <2>1. \A x \in Single(Stops) : x \in Seq(Stops)
    <3>1. SUFFICES ASSUME NEW x \in Single(Stops) PROVE x \in Seq(Stops)
      OBVIOUS
    <3>2. CASE x = <<>>
      BY <3>2
    <3>3. CASE x # <<>>
      <4>1. PICK e \in Stops : x = <<e>>
        BY <3>3 DEF Single
      <4> QED
        BY <4>1, OneIs
    <3> QED
      BY <3>2, <3>3
  <2>2. p \in Seq(Seq(Stops)) /\ q \in Seq(Seq(Stops))
    BY <1>6, <2>1
  <2> QED
    BY <1>12, <2>2, FlattenBoth
<1> QED
  BY <1>7, <1>8, <1>9, <1>13, <1>14, <1>15

(* The end of the body stops what is open.                                  *)
LEMMA EndsBlocks ==
  ASSUME ResponseInv, BlockInv, BodyEnds
  PROVE  BlockInv'
<1>1. upstream # "ended" /\ upstream' = "ended" /\ Indexed /\ reason \in {"end_turn", "tool_use"}
  BY DEF BodyEnds, ResponseInv, ServerShape
<1>2. sent \in Seq(Events) /\ InBlocks /\ Opened /\ Underway
  BY <1>1 DEF BlockInv
<1>3. PICK ev : ev = TextSweep \o CallSweep
  OBVIOUS
<1>4. PICK e \in Events : e = Event("end", 0, reason, <<>>) /\ e.type = "end"
  <2>1. <<>> \in Seq(Nat) /\ 0 \in Int /\ reason \in Items \cup {"none", "end_turn", "tool_use"}
    BY <1>1
  <2>2. IsEvent(Event("end", 0, reason, <<>>), "end", 0, reason, <<>>)
    BY <2>1, EventIs
  <2> QED
    BY <2>2 DEF IsEvent
<1>5. sent' = sent \o (ev \o <<e>>)
  BY <1>3, <1>4 DEF BodyEnds, Sends
<1>6. PICK w : w = OneList
  OBVIOUS
<1>7. PICK c \in Nat : c = Len(w)
  BY <1>1, <1>2, <1>6, ListIs
<1>8. /\ w \in [1..c -> Items] /\ \A k, l \in 1..c : w[k] = w[l] => k = l
      /\ \A t \in TextItems : text[t].started => \E k \in 1..c : w[k] = t
      /\ \A f \in CallItems : acc[f].index # -1 => \E k \in 1..c : w[k] = f
  BY <1>1, <1>2, <1>6, <1>7, ListIs
<1>9. PICK p : p = [k \in 1..c |-> StopsOf(w[k])]
  OBVIOUS
<1>10. p \in Seq(Single(Stops)) /\ ev = FlattenSeq(p) /\ Len(p) = c
  <2>1. p \in Seq(Single(Stops)) /\ ev = FlattenSeq(p)
    BY <1>1, <1>2, <1>3, <1>6, <1>7, <1>9, SweepsAre
  <2> QED
    BY <1>9, <2>1
<1>11. ev \in Seq(Events) /\ \E pos : Swept(p, c, ev, Len(ev), pos)
  <2>1. ev \in Seq(Stops) /\ \E pos : Swept(p, c, ev, Len(ev), pos)
    BY <1>10, SweepIs DEF SweepOf
  <2>2. Stops \subseteq Events
    BY DEF Stops
  <2> QED
    BY <2>1, <2>2
<1>12. PICK pos : Swept(p, c, ev, Len(ev), pos)
  BY <1>11
<1>13. PICK n \in Nat, m \in Nat : n = Len(sent) /\ m = Len(ev)
  BY <1>2, <1>11
<1>14. /\ pos \in [1..m -> 1..c] /\ \A j, k \in 1..m : pos[j] = pos[k] => j = k
       /\ \A j \in 1..m : p[pos[j]] = <<ev[j]>>
       /\ \A k \in 1..c : p[k] # <<>> => \E j \in 1..m : pos[j] = k
  BY <1>12, <1>13 DEF Swept
<1>15. PICK idx, on, off : idx = IndexOf(acc, text) /\ on = StartedOf(acc, text) /\ off = ClosedOf(acc, text)
  OBVIOUS
<1>16. acc \in [CallItems -> Accumulators] /\ text \in [TextItems -> TextBlocks] /\ CallItems \subseteq Items /\ TextItems \subseteq Items
  BY <1>1 DEF Indexed, Items
<1>17. /\ \A f \in CallItems : idx[f] = acc[f].index /\ on[f] = acc[f].started /\ off[f] = acc[f].stopped
       /\ \A t \in TextItems : idx[t] = text[t].index /\ on[t] = text[t].started /\ off[t] = text[t].closed
  <2>1. \A t \in TextItems : t \notin CallItems
    BY ItemsAreFinite
  <2> QED
    BY <1>15, <1>16, <2>1 DEF IndexOf, StartedOf, ClosedOf
<1>18. ASSUME NEW i \in Items
       PROVE  IF on[i] /\ ~off[i] THEN StopsOf(i) = <<StopOf(idx[i], i)>> ELSE StopsOf(i) = <<>>
  <2>1. CASE i \in CallItems
    BY <1>17, <2>1 DEF StopsOf, Finish
  <2>2. CASE i \notin CallItems
    <3>1. i \in TextItems
      BY <2>2 DEF Items
    <3> QED
      BY <1>17, <2>2, <3>1 DEF StopsOf, CloseText
  <2> QED
    BY <2>1, <2>2
<1>19. \A k \in 1..c : w[k] \in Items /\ p[k] = StopsOf(w[k])
  BY <1>8, <1>9
<1>20. PICK who : who = [j \in 1..m |-> w[pos[j]]]
  OBVIOUS
<1>21. ASSUME NEW j \in 1..m
       PROVE  /\ who[j] \in Items /\ on[who[j]] /\ ~off[who[j]]
              /\ ev[j].type = "stop" /\ ev[j].index = idx[who[j]] /\ ev[j].item = who[j]
  <2>1. PICK k \in 1..c : k = pos[j]
    BY <1>14
  <2>2. PICK i \in Items : i = w[k] /\ who[j] = i /\ StopsOf(i) = <<ev[j]>>
    <3>1. PICK i \in Items : i = w[k] /\ p[k] = StopsOf(i)
      BY <1>19
    <3>2. who[j] = i
      BY <1>20, <2>1, <3>1
    <3>3. p[k] = <<ev[j]>>
      BY <1>14, <2>1
    <3> QED
      BY <3>1, <3>2, <3>3, Zenon
  <2>3. <<ev[j]>> # <<>>
    OBVIOUS
  <2>4. on[i] /\ ~off[i] /\ <<ev[j]>> = <<StopOf(idx[i], i)>>
    BY <1>18, <2>2, <2>3
  <2>5. PICK x \in Int : x = idx[i]
    BY <1>2, <1>15 DEF InBlocks, Blocks, Indices
  <2>6. ev[j] = StopOf(x, i)
    BY <2>4, <2>5
  <2>7. IsEvent(StopOf(x, i), "stop", x, i, <<>>)
    <3>1. <<>> \in Seq(Nat)
      OBVIOUS
    <3> QED
      BY <3>1, EventsAre
  <2> QED
    BY <2>2, <2>4, <2>5, <2>6, <2>7 DEF IsEvent
<1>22. \A k, l \in 1..m : who[k] = who[l] => k = l
  BY <1>8, <1>14, <1>20
<1>23. ASSUME NEW i \in Items, on[i], ~off[i] PROVE \E j \in 1..m : who[j] = i
  <2>1. PICK k \in 1..c : w[k] = i
    <3>1. CASE i \in CallItems
      <4>1. acc[i].index # -1
        BY <1>2, <1>23, <1>17, <3>1, FreshStarts, <1>1
      <4> QED
        BY <1>8, <3>1, <4>1
    <3>2. CASE i \notin CallItems
      <4>1. i \in TextItems
        BY <3>2 DEF Items
      <4> QED
        BY <1>8, <1>17, <1>23, <4>1
    <3> QED
      BY <3>1, <3>2
  <2>2. p[k] # <<>>
    <3>1. p[k] = <<StopOf(idx[i], i)>>
      BY <1>18, <1>19, <1>23, <2>1
    <3> QED
      BY <3>1
  <2>3. PICK j \in 1..m : pos[j] = k
    BY <1>14, <2>2
  <2> QED
    BY <1>20, <2>1, <2>3
<1>24. Stopping(idx, on, off, who, ev, m)
  <2>1. who \in [1..m -> Items]
    BY <1>20, <1>21
  <2> QED
    BY <1>21, <1>22, <1>23, <2>1 DEF Stopping
<1>25. Blocks(sent, n, idx, on, off)
  BY <1>2, <1>13, <1>15 DEF InBlocks
<1>26. PICK mid : mid = sent \o ev
  OBVIOUS
<1>27. mid \in Seq(Events) /\ Len(mid) = n + m /\ Goes(mid, sent, n, ev, m)
  <2>1. Follows(mid, sent, ev)
    BY <1>26 DEF Follows
  <2>2. ev \in Seq(Events) /\ sent \in Seq(Events)
    BY <1>2, <1>11
  <2> QED
    BY <1>13, <2>1, <2>2, FollowsIs
<1>28. Finished(mid, n + m)
  BY <1>24, <1>25, <1>27, AllStop
<1>29. PICK final \in Seq(Events) : final = <<e>> /\ Len(final) = 1 /\ final[1] = e
  BY OneIs
<1>30. Follows(sent', mid, final)
  <2>1. Joins(sent, ev, final)
    BY <1>2, <1>11, JoinThree
  <2> QED
    BY <1>5, <1>26, <1>29, <2>1, Zenon DEF Joins, Follows
<1>31. PICK z \in Nat : z = n + m
  OBVIOUS
<1>32. sent' \in Seq(Events) /\ Len(sent') = z + 1 /\ Goes(sent', mid, z, final, 1)
  <2>1. sent' \in Seq(Events) /\ Len(sent') = Len(mid) + Len(final) /\ Goes(sent', mid, Len(mid), final, Len(final))
    BY <1>27, <1>29, <1>30, FollowsIs
  <2> QED
    BY <1>27, <1>29, <1>31, <2>1
<1>33. Same(sent', mid, z) /\ sent'[z + 1] = e
  BY <1>29, <1>32 DEF Goes
<1>34. WellIn(mid, z) /\ OnceIn(mid, z) /\ Finished(mid, z)
  BY <1>28, <1>31 DEF Finished
<1>35. Finished(sent', z + 1)
  BY <1>4, <1>33, <1>34, LastSaid
<1>36. z + 1 \in Nat
  OBVIOUS
<1>37. BlocksAreWellFormed'
  BY <1>32, <1>35, <1>36, FinishedIs DEF BlocksAreWellFormed
<1> QED
  BY <1>1, <1>32, <1>37 DEF BlockInv

(* Every step keeps the blocks in order, and they are well formed.          *)
LEMMA BlocksStep == ResponseInv /\ ResponseInv' /\ BlockInv /\ [ResponseNext]_responseVars => BlockInv'
<1> SUFFICES ASSUME ResponseInv, ResponseInv', BlockInv, [ResponseNext]_responseVars PROVE BlockInv'
  OBVIOUS
<1>1. CASE UNCHANGED responseVars
  <2>1. BlocksAreWellFormed' = BlocksAreWellFormed
    BY <1>1 DEF responseVars, BlocksAreWellFormed, EndsWell
  <2> QED
    BY <1>1, <2>1 DEF responseVars, BlockInv, InBlocks, Opened, Underway
<1>2. CASE ResponseNext
  BY <1>2, CallAddedBlocks, ArgumentsBlocks, MessageAddedBlocks, TextDeltaBlocks, TextDoneBlocks,
     CompletedBlocks, FailsBlocks, EndsBlocks DEF ResponseNext
<1> QED
  BY <1>1, <1>2

LEMMA BlocksWell == BlockInv => BlocksAreWellFormed
  BY OngoingIsWell DEF BlockInv

-----------------------------------------------------------------------------
(* The arguments of the calls: what a call was sent so far is in its deltas and, *)
(* as long as it has no name, in its buffer; nothing is lost or sent twice.      *)

(* The fragments of an item among the events.                               *)
FragsIn(e, who) == IF e.type = "delta" /\ e.item = who THEN e.frags ELSE <<>>
PiecesOf(out, who) == [k \in 1..Len(out) |-> IF out[k].type = "delta" /\ out[k].item = who THEN out[k].frags ELSE <<>>]

LEMMA FragsInIs ==
  ASSUME NEW e \in Events, NEW who
  PROVE  FragsIn(e, who) \in Seq(Nat)
<1>1. e.frags \in Seq(Nat) /\ <<>> \in Seq(Nat)
  BY DEF Events
<1> QED
  BY <1>1 DEF FragsIn

(* The fragments of an item are those of its deltas, put together.          *)
LEMMA PiecesAre ==
  ASSUME NEW out \in Seq(Events), NEW who
  PROVE  PiecesOf(out, who) \in Seq(Seq(Nat)) /\ FragsOf(out, who) = FlattenSeq(PiecesOf(out, who))
<1>1. \A k \in 1..Len(out) : FragsIn(out[k], who) \in Seq(Nat)
  <2>1. \A k \in 1..Len(out) : out[k] \in Events
    OBVIOUS
  <2> QED
    BY <2>1, FragsInIs
<1>2. PICK T : T = Seq(Nat)
  OBVIOUS
<1>3. PICK n \in Nat : n = Len(out)
  OBVIOUS
<1>4. PICK p : p = PiecesOf(out, who)
  OBVIOUS
<1>5. p = [k \in 1..n |-> FragsIn(out[k], who)]
  BY <1>3, <1>4 DEF PiecesOf, FragsIn
<1>6. p \in [1..n -> T]
  BY <1>1, <1>2, <1>3, <1>5
<1>7. p \in Seq(T)
  BY <1>6, SeqIs
<1> QED
  BY <1>2, <1>4, <1>7 DEF PiecesOf, FragsOf

LEMMA FragsType ==
  ASSUME NEW out \in Seq(Events), NEW who
  PROVE  FragsOf(out, who) \in Seq(Nat)
BY PiecesAre, FlattenType

LEMMA FragsNone ==
  ASSUME NEW who
  PROVE  FragsOf(<<>>, who) = <<>>
<1>1. PICK out : out = <<>>
  OBVIOUS
<1>2. PiecesOf(out, who) = <<>>
  BY <1>1 DEF PiecesOf
<1>3. out \in Seq(Events)
  BY <1>1
<1> QED
  BY <1>1, <1>2, <1>3, PiecesAre, FlattenNothing

LEMMA SameSeq ==
  ASSUME NEW S, NEW n \in Nat, NEW s \in Seq(S), NEW t \in Seq(S), Len(s) = n, Len(t) = n, \A k \in 1..n : s[k] = t[k]
  PROVE  s = t
OBVIOUS

(* One more event adds its own fragments, if it is a delta of the item.     *)
LEMMA FragsOne ==
  ASSUME NEW out \in Seq(Events), NEW e \in Events, NEW who, NEW w, Follows(w, out, <<e>>)
  PROVE  w \in Seq(Events) /\ Follows(FragsOf(w, who), FragsOf(out, who), FragsIn(e, who))
<1>3. PICK n \in Nat : n = Len(out)
  OBVIOUS
<1>4. PICK one \in Seq(Events) : one = <<e>> /\ Len(one) = 1 /\ one[1] = e
  BY OneIs
<1>5. w \in Seq(Events) /\ Len(w) = n + 1 /\ Goes(w, out, n, one, 1)
  <2>1. Follows(w, out, one)
    BY <1>4
  <2> QED
    BY <1>3, <1>4, <2>1, FollowsIs
<1>6. w[n + 1] = e /\ \A k \in 1..n : w[k] = out[k]
  BY <1>4, <1>5 DEF Goes, Same
<1>1. PICK p \in Seq(Seq(Nat)) : p = PiecesOf(out, who)
  BY PiecesAre
<1>2. PICK x \in Seq(Nat) : x = FragsIn(e, who)
  BY FragsInIs
<1>7. PICK q : q = PiecesOf(w, who)
  OBVIOUS
<1>8. /\ p = [k \in 1..n |-> FragsIn(out[k], who)]
      /\ q = [k \in 1..(n + 1) |-> FragsIn(w[k], who)]
  BY <1>1, <1>3, <1>5, <1>7 DEF PiecesOf, FragsIn
<1>9. PICK T : T = Seq(Nat)
  OBVIOUS
<1>10. PICK r : r = Append(p, x)
  OBVIOUS
<1>11. r \in Seq(T) /\ Len(r) = Len(p) + 1 /\ r[Len(p) + 1] = x /\ \A k \in 1..Len(p) : r[k] = p[k]
  BY <1>9, <1>10, AppendIs
<1>12. Len(p) = n
  BY <1>1, <1>8
<1>13. q \in Seq(T)
  BY <1>5, <1>7, <1>9, PiecesAre
<1>14. q \in Seq(T) /\ Len(q) = n + 1
  BY <1>8, <1>13
<1>15. ASSUME NEW k \in 1..(n + 1) PROVE q[k] = r[k]
  <2>1. CASE k \in 1..n
    BY <1>6, <1>8, <1>11, <1>12, <2>1
  <2>2. CASE k = n + 1
    BY <1>2, <1>6, <1>8, <1>11, <1>12, <2>2
  <2> QED
    BY <2>1, <2>2
<1>16. q = r
  <2>1. n + 1 \in Nat /\ Len(r) = n + 1
    BY <1>11, <1>12
  <2> QED
    BY <1>11, <1>14, <1>15, <2>1, SameSeq
<1>17. FlattenSeq(q) = FlattenSeq(p) \o x
  BY <1>10, <1>16, FlattenAppend
<1>18. FragsOf(w, who) = FlattenSeq(q) /\ FragsOf(out, who) = FlattenSeq(p)
  BY <1>1, <1>5, <1>7, PiecesAre
<1> QED
  BY <1>2, <1>5, <1>17, <1>18 DEF Follows

(* Events that say nothing of a call.                                       *)
Mute(f) == {e \in Events : ~(e.type = "delta" /\ e.item = f)}
(* Events that are no deltas of a call add nothing to its arguments.        *)
LEMMA MuteSays ==
  ASSUME NEW f, NEW out \in Seq(Events), NEW ev \in Seq(Mute(f)), NEW w, Follows(w, out, ev)
  PROVE  FragsOf(w, f) = FragsOf(out, f)
<1>1. PICK S : S = Mute(f)
  OBVIOUS
<1>2. PICK Good : Good = {x \in Seq(S) : \A y : Follows(y, out, x) => y \in Seq(Events) /\ FragsOf(y, f) = FragsOf(out, f)}
  OBVIOUS
<1>3. <<>> \in Good
  <2>1. <<>> \in Seq(S) /\ out \o <<>> = out
    OBVIOUS
  <2> QED
    BY <1>2, <2>1 DEF Follows
<1>4. ASSUME NEW x \in Seq(S), NEW e \in S, x \in Good PROVE Append(x, e) \in Good
  <2>1. PICK y : Follows(y, out, x)
    BY DEF Follows
  <2>2. y \in Seq(Events) /\ FragsOf(y, f) = FragsOf(out, f) /\ e \in Events /\ x \in Seq(Events)
    BY <1>1, <1>2, <1>4, <2>1 DEF Mute
  <2>3. PICK more : more = Append(x, e)
    OBVIOUS
  <2>4. more \in Seq(S)
    BY <2>3
  <2>5. PICK one \in Seq(Events) : one = <<e>>
    BY <2>2, OneIs
  <2>6. PICK z : Follows(z, y, one)
    BY DEF Follows
  <2>7. out \o more = Append(y, e)
    BY <2>1, <2>2, <2>3, JoinLast DEF Follows
  <2>8. Append(y, e) = z
    BY <2>2, <2>5, <2>6 DEF Follows
  <2>9. z \in Seq(Events) /\ Follows(FragsOf(z, f), FragsOf(y, f), FragsIn(e, f))
    <3>1. Follows(z, y, <<e>>)
      BY <2>5, <2>6
    <3> QED
      BY <2>2, <3>1, FragsOne
  <2>10. FragsIn(e, f) = <<>>
    BY <1>1 DEF FragsIn, Mute
  <2>11. FragsOf(y, f) \o <<>> = FragsOf(y, f)
    <3>1. PICK s \in Seq(Nat) : s = FragsOf(y, f)
      BY <2>2, FragsType
    <3>2. s \o <<>> = s
      OBVIOUS
    <3> QED
      BY <3>1, <3>2
  <2>12. FragsOf(z, f) = FragsOf(out, f)
    BY <2>2, <2>9, <2>10, <2>11 DEF Follows
  <2>13. \A v : Follows(v, out, more) => v = z
    BY <2>7, <2>8 DEF Follows
  <2> QED
    BY <1>2, <2>3, <2>4, <2>9, <2>12, <2>13
<1>5. \A x \in Seq(S) : x \in Good
  BY <1>3, <1>4, BySuffix
<1> QED
  BY <1>1, <1>2, <1>5

(* What a call was sent is in its events and in its buffer: the fragments so  *)
(* far, or all of the arguments.                                              *)
CountTo(n) == [k \in 1..n |-> k]
Owed(x) == IF x.done /\ x.frags = 0 THEN <<1>> ELSE CountTo(x.frags)
Carries(x, a, said, open) ==
  /\ Follows(Owed(x), said, a.buffer)
  /\ open /\ ~x.done => (a.received <=> x.frags > 0)
  /\ open /\ a.started => a.buffer = <<>>
  /\ a.index = -1 => a.buffer = <<>> /\ ~a.received
ArgsInv == \A f \in CallItems : Carries(item[f], acc[f], FragsOf(sent, f), upstream = "open")

(* The fragments 1 to n, and one more.                                      *)
LEMMA CountIs ==
  ASSUME NEW n \in Nat
  PROVE  CountTo(n) \in Seq(Nat) /\ Len(CountTo(n)) = n /\ \A k \in 1..n : CountTo(n)[k] = k
BY DEF CountTo

LEMMA CountMore ==
  ASSUME NEW n \in Nat
  PROVE  Follows(CountTo(n + 1), CountTo(n), <<n + 1>>)
<1>1. PICK s \in Seq(Nat) : s = CountTo(n) /\ Len(s) = n /\ \A k \in 1..n : s[k] = k
  BY CountIs
<1>2. PICK m \in Nat : m = n + 1
  OBVIOUS
<1>3. PICK t \in Seq(Nat) : t = CountTo(m) /\ Len(t) = m /\ \A k \in 1..m : t[k] = k
  BY CountIs
<1>4. PICK r : r = Append(s, m)
  OBVIOUS
<1>5. r \in Seq(Nat) /\ Len(r) = m /\ r[m] = m /\ \A k \in 1..n : r[k] = k
  BY <1>1, <1>2, <1>4
<1>6. \A k \in 1..m : r[k] = t[k]
  <2>1. \A k \in 1..m : k \in 1..n \/ k = m
    BY <1>2
  <2> QED
    BY <1>3, <1>5, <2>1
<1>7. r = t
  BY <1>3, <1>5, <1>6, SameSeq
<1>8. r = s \o <<m>>
  BY <1>1, <1>4
<1> QED
  BY <1>1, <1>2, <1>3, <1>7, <1>8 DEF Follows

(* What a call is owed is a list of fragments.                              *)
LEMMA DueIs ==
  ASSUME NEW x \in ItemRecords
  PROVE  Owed(x) \in Seq(Nat)
<1>1. x.frags \in Nat
  BY ResponseAssumption DEF ItemRecords
<1>2. <<1>> \in Seq(Nat)
  OBVIOUS
<1> QED
  BY <1>1, <1>2, CountIs DEF Owed

(* Nothing is sent, and nothing is owed.                                    *)
LEMMA ArgsInitially == ResponseInit => ArgsInv
<1> SUFFICES ASSUME ResponseInit, NEW f \in CallItems PROVE Carries(item[f], acc[f], FragsOf(sent, f), upstream = "open")
  BY DEF ArgsInv
<1>1. /\ item[f] = [announced |-> "no", frags |-> 0, done |-> FALSE] /\ acc[f] = Unmade /\ sent = <<>>
  BY ItemsAreFinite DEF ResponseInit
<1>2. FragsOf(sent, f) = <<>>
  BY <1>1, FragsNone
<1>3. CountTo(0) = <<>>
  BY DEF CountTo
<1>4. Owed(item[f]) = <<>>
  BY <1>1, <1>3 DEF Owed
<1>5. acc[f].buffer = <<>> /\ ~acc[f].received /\ ~(item[f].frags > 0)
  BY <1>1 DEF Unmade, NewAccumulator
<1>6. Follows(Owed(item[f]), FragsOf(sent, f), acc[f].buffer)
  <2>1. <<>> = <<>> \o <<>>
    OBVIOUS
  <2> QED
    BY <1>2, <1>4, <1>5, <2>1 DEF Follows
<1> QED
  BY <1>5, <1>6 DEF Carries

(* A step that leaves a call alone, or only starts or stops it.             *)
Spares(f) ==
  /\ item'[f] = item[f] /\ acc'[f].buffer = acc[f].buffer /\ acc'[f].received = acc[f].received
  /\ acc'[f].index = acc[f].index
  /\ upstream' = "open" => upstream = "open" /\ acc'[f].started = acc[f].started
  /\ \E ev \in Seq(Mute(f)) : Follows(sent', sent, ev)

(* A call that is left alone carries what it did.                           *)
LEMMA SparesKeeps ==
  ASSUME sent \in Seq(Events), NEW f \in CallItems, Spares(f), Carries(item[f], acc[f], FragsOf(sent, f), upstream = "open")
  PROVE  Carries(item'[f], acc'[f], FragsOf(sent', f), upstream' = "open")
<1>1. PICK ev \in Seq(Mute(f)) : Follows(sent', sent, ev)
  BY DEF Spares
<1>2. FragsOf(sent', f) = FragsOf(sent, f)
  BY <1>1, MuteSays
<1> QED
  BY <1>2 DEF Spares, Carries

(* The events of one item say nothing of a call that is another.            *)
LEMMA OfAnother ==
  ASSUME NEW f, NEW ev \in Seq(Events), \A k \in 1..Len(ev) : ev[k].type # "delta" \/ ev[k].item # f
  PROVE  ev \in Seq(Mute(f))
<1>1. PICK n \in Nat : n = Len(ev)
  OBVIOUS
<1>2. PICK S : S = Mute(f)
  OBVIOUS
<1>3. \A k \in 1..n : ev[k] \in S
  <2>1. \A k \in 1..n : ev[k] \in Events
    BY <1>1
  <2> QED
    BY <1>1, <1>2, <2>1 DEF Mute
<1>4. ev \in [1..n -> S]
  BY <1>1, <1>3
<1>5. ev \in Seq(S)
  BY <1>4, SeqIs
<1> QED
  BY <1>2, <1>5

LEMMA NothingAtAll ==
  ASSUME NEW f, sent' = sent, sent \in Seq(Events)
  PROVE  \E ev \in Seq(Mute(f)) : Follows(sent', sent, ev)
<1>1. PICK S : S = Mute(f)
  OBVIOUS
<1>2. <<>> \in Seq(S) /\ sent = sent \o <<>>
  OBVIOUS
<1> QED
  BY <1>1, <1>2 DEF Follows

(* So does one whose accumulator is new.                                    *)
LEMMA FreshCarries ==
  ASSUME Indexed, NEW f \in CallItems, NEW x, NEW said, NEW open, Carries(x, acc[f], said, open), open \in BOOLEAN,
         acc[f].started => acc[f].index # -1
  PROVE  Carries(x, Fresh(f), said, open)
<1>1. CASE acc[f].index = -1
  <2>1. Fresh(f) = NewAccumulator(nextIndex)
    BY <1>1 DEF Fresh
  <2>2. Fresh(f).buffer = <<>> /\ ~Fresh(f).received /\ ~Fresh(f).started
    BY <2>1 DEF NewAccumulator
  <2>3. acc[f].buffer = <<>> /\ ~acc[f].received
    BY <1>1 DEF Carries
  <2> QED
    BY <2>2, <2>3 DEF Carries
<1>2. CASE acc[f].index # -1
  BY <1>2 DEF Fresh
<1> QED
  BY <1>1, <1>2

(* Arguments join what there was.                                           *)
LEMMA DeltaCarries ==
  ASSUME NEW f \in CallItems, sent \in Seq(Events), NEW a \in Accumulators, NEW frags \in Seq(Nat), NEW r, Delta(r, a, f, frags),
         frags # <<>>, a.started => a.buffer = <<>>, Follows(sent', sent, r.events), NEW due \in Seq(Nat),
         Follows(due, FragsOf(sent, f), a.buffer), NEW more, Follows(more, due, frags)
  PROVE  /\ Follows(more, FragsOf(sent', f), r.acc.buffer) /\ r.acc.received /\ r.acc.index = a.index
         /\ r.acc.started = a.started /\ (a.started => r.acc.buffer = <<>>)
<1>1. /\ r.acc.index = a.index /\ r.acc.started = a.started /\ r.acc.received
      /\ r.acc.buffer = IF a.started THEN a.buffer ELSE a.buffer \o frags
      /\ r.events = IF a.started THEN <<DeltaOf(a.index, f, frags)>> ELSE <<>>
  <2>1. a.started \in BOOLEAN /\ a.received \in BOOLEAN
    BY DEF Accumulators
  <2> QED
    BY <2>1 DEF Delta, Grown
<1>2. PICK s \in Seq(Nat), b \in Seq(Nat) : s = FragsOf(sent, f) /\ b = a.buffer
  BY FragsType DEF Accumulators
<1>3. CASE a.started
  <2>1. PICK x \in Int : x = a.index
    BY DEF Accumulators
  <2>2. IsEvent(DeltaOf(x, f, frags), "delta", x, f, frags)
    BY EventsAre DEF Items
  <2>3. PICK e \in Events : e = DeltaOf(x, f, frags) /\ e.type = "delta" /\ e.item = f /\ e.frags = frags
    BY <2>2 DEF IsEvent
  <2>4. Follows(sent', sent, <<e>>)
    BY <1>1, <1>3, <2>1, <2>3
  <2>5. Follows(FragsOf(sent', f), s, FragsIn(e, f))
    BY <1>2, <2>4, FragsOne
  <2>6. FragsIn(e, f) = frags
    BY <2>3 DEF FragsIn
  <2>7. b = <<>> /\ r.acc.buffer = <<>>
    BY <1>1, <1>2, <1>3
  <2>8. due = s
    <3>1. s \o <<>> = s
      OBVIOUS
    <3> QED
      BY <1>2, <2>7, <3>1 DEF Follows
  <2>9. PICK m \in Seq(Nat) : m = more
    <3>1. due \o frags \in Seq(Nat)
      OBVIOUS
    <3> QED
      BY <3>1 DEF Follows
  <2>10. FragsOf(sent', f) = m
    BY <2>5, <2>6, <2>8, <2>9 DEF Follows
  <2>11. m = m \o <<>>
    OBVIOUS
  <2> QED
    BY <1>1, <2>7, <2>9, <2>10, <2>11 DEF Follows
<1>4. CASE ~a.started
  <2>1. sent' = sent
    <3>1. sent \o <<>> = sent
      OBVIOUS
    <3> QED
      BY <1>1, <1>4, <3>1 DEF Follows
  <2>2. FragsOf(sent', f) = s
    BY <1>2, <2>1
  <2>3. r.acc.buffer = b \o frags
    BY <1>1, <1>2, <1>4
  <2>4. Joins(s, b, frags)
    BY JoinThree
  <2>5. Follows(more, s, r.acc.buffer)
    BY <1>2, <2>3, <2>4, Zenon DEF Follows, Joins
  <2> QED
    BY <1>1, <1>4, <2>2, <2>5
<1> QED
  BY <1>3, <1>4

(* The answer of another call.                                              *)
LEMMA AnotherSpares ==
  ASSUME sent \in Seq(Events), NEW f \in CallItems, NEW i \in Items, f # i, item'[f] = item[f],
         acc \in [CallItems -> Accumulators], acc'[f] = acc[f], upstream' = upstream, NEW ev \in Seq(Events),
         Follows(sent', sent, ev), \A k \in 1..Len(ev) : ev[k].item = i
  PROVE  Spares(f)
<1>1. ev \in Seq(Mute(f))
  BY OfAnother
<1> QED
  BY <1>1 DEF Spares

(* The events of an answer are about its item.                              *)
LEMMA AnswersAbout ==
  ASSUME NEW r, NEW a, NEW i \in Items, Answers(r, a, i)
  PROVE  \E ev \in Seq(Events) : r.events = ev /\ \A k \in 1..Len(ev) : ev[k].item = i
<1>1. CASE r.events = <<>>
  <2>1. PICK ev \in Seq(Events) : ev = <<>> /\ Len(ev) = 0
    <3>1. <<>> \in Seq(Events) /\ Len(<<>>) = 0
      OBVIOUS
    <3> QED
      BY <3>1
  <2>2. \A k \in 1..0 : FALSE
    OBVIOUS
  <2> QED
    BY <1>1, <2>1, <2>2
<1>2. CASE r.events # <<>>
  <2>1. PICK e \in Events : r.events = <<e>> /\ e.item = i
    BY <1>2 DEF Answers
  <2>2. PICK ev \in Seq(Events) : ev = <<e>> /\ Len(ev) = 1 /\ ev[1] = e
    BY OneIs
  <2>3. \A k \in 1..1 : k = 1
    OBVIOUS
  <2> QED
    BY <2>1, <2>2, <2>3
<1> QED
  BY <1>1, <1>2

(* A frame of a call leaves the others as they were.                        *)
LEMMA OthersSpared ==
  ASSUME ResponseInv, sent \in Seq(Events), NEW g \in CallItems, NEW r, NEW a, Answers(r, a, g), WithCall(g, r),
         upstream' = upstream, NEW f \in CallItems, f # g, item'[f] = item[f]
  PROVE  Spares(f)
<1>1. acc \in [CallItems -> Accumulators] /\ g \in Items
  BY DEF ResponseInv, Indexed, Items
<1>2. acc' = [acc EXCEPT ![g] = r.acc] /\ sent' = sent \o r.events
  BY DEF WithCall, Sends
<1>3. acc'[f] = acc[f]
  BY <1>1, <1>2
<1>4. PICK ev \in Seq(Events) : r.events = ev /\ \A k \in 1..Len(ev) : ev[k].item = g
  BY <1>1, AnswersAbout
<1>5. Follows(sent', sent, ev)
  BY <1>2, <1>4 DEF Follows
<1> QED
  BY <1>1, <1>3, <1>4, <1>5, AnotherSpares

(* What a frame changes of the items.                                       *)
LEMMA ItemsChange ==
  ASSUME ServerShape, NEW i \in Items
  PROVE  /\ \A how : Announce(i, how) => item'[i] = [item[i] EXCEPT !.announced = how] /\ \A j \in Items \ {i} : item'[j] = item[j]
         /\ item' = [item EXCEPT ![i].frags = @ + 1] =>
              item'[i] = [item[i] EXCEPT !.frags = @ + 1] /\ \A j \in Items \ {i} : item'[j] = item[j]
         /\ item' = [item EXCEPT ![i].done = TRUE] =>
              item'[i] = [item[i] EXCEPT !.done = TRUE] /\ \A j \in Items \ {i} : item'[j] = item[j]
<1>1. item \in [Items -> ItemRecords]
  BY DEF ServerShape, ItemRecords
<1> QED
  BY <1>1 DEF Announce

(* Each step keeps what every call carries: a call is added,                *)
LEMMA CallAddedArgs ==
  ASSUME ResponseInv, BlockInv, ArgsInv, NEW g \in CallItems, CallAdded(g), NEW f \in CallItems
  PROVE  Carries(item'[f], acc'[f], FragsOf(sent', f), upstream' = "open")
<1>1. /\ upstream = "open" /\ upstream' = upstream /\ Indexed /\ ServerShape /\ g \in Items /\ f \in Items
      /\ acc \in [CallItems -> Accumulators]
  BY DEF CallAdded, MaySend, ResponseInv, Indexed, Items
<1>2. Ongoing /\ sent \in Seq(Events) /\ InBlocks /\ Underway
  BY <1>1, WasOngoing DEF Ongoing
<1>3. PICK how : /\ Announce(g, how)
                 /\ IF acc[g].index # -1 THEN UNCHANGED <<acc, opened, nextIndex, reason, sent>>
                    ELSE WithCall(g, IF how = "named" THEN MarkStarted(Fresh(g), g) ELSE [acc |-> Fresh(g), events |-> <<>>])
  BY DEF CallAdded
<1>4. item[g] \in ItemRecords
  BY <1>1, ItemIs
<1>5. /\ item'[g].frags = item[g].frags /\ item'[g].done = item[g].done /\ \A j \in Items \ {g} : item'[j] = item[j]
  <2>1. item'[g] = [item[g] EXCEPT !.announced = how] /\ \A j \in Items \ {g} : item'[j] = item[j]
    BY <1>1, <1>3, ItemsChange
  <2> QED
    BY <1>4, <2>1 DEF ItemRecords
<1>6. Carries(item[f], acc[f], FragsOf(sent, f), upstream = "open")
  BY DEF ArgsInv
<1>7. item'[f].frags = item[f].frags /\ item'[f].done = item[f].done /\ Owed(item'[f]) = Owed(item[f])
  <2>1. item'[f].frags = item[f].frags /\ item'[f].done = item[f].done
    BY <1>1, <1>5
  <2> QED
    BY <2>1 DEF Owed
<1>8. CASE acc[g].index # -1
  <2>1. acc' = acc /\ sent' = sent
    BY <1>3, <1>8
  <2> QED
    BY <1>1, <1>6, <1>7, <2>1 DEF Carries
<1>9. CASE acc[g].index = -1
  <2>1. PICK a : a = Fresh(g)
    OBVIOUS
  <2>2. /\ a \in Accumulators /\ Even(a) /\ ~a.stopped /\ ~a.started /\ a.index # -1
        /\ Carries(item[g], a, FragsOf(sent, g), upstream = "open")
    <3>1. a \in Accumulators /\ a.index = nextIndex
      BY <1>1, <1>9, <2>1, FreshIs
    <3>2. ~a.stopped /\ (a.named <=> a.started) /\ (acc[g].started => acc[g].index # -1)
      BY <1>1, <1>2, <2>1, FreshStarts
    <3>3. ~a.started
      BY <1>9, <2>1 DEF Fresh, NewAccumulator
    <3>4. nextIndex # -1
      BY <1>1, MadeIs
    <3>5. Carries(item[g], acc[g], FragsOf(sent, g), upstream = "open")
      BY DEF ArgsInv
    <3>6. Carries(item[g], a, FragsOf(sent, g), upstream = "open")
      BY <1>1, <2>1, <3>2, <3>5, FreshCarries
    <3> QED
      BY <3>1, <3>2, <3>3, <3>4, <3>6 DEF Even
  <2>3. PICK r : r = IF how = "named" THEN MarkStarted(a, g) ELSE [acc |-> a, events |-> <<>>]
    OBVIOUS
  <2>4. WithCall(g, r)
    BY <1>3, <1>9, <2>1, <2>3
  <2>5. Answers(r, a, g)
    BY <1>1, <2>2, <2>3, MarkAnswers, BareAnswers
  <2>6. CASE f # g
    <3>1. item'[f] = item[f]
      BY <1>1, <1>5, <2>6
    <3>2. Spares(f)
      BY <1>1, <1>2, <2>4, <2>5, <2>6, <3>1, OthersSpared
    <3> QED
      BY <1>2, <1>6, <3>2, SparesKeeps
  <2>7. CASE f = g
    <3>1. acc'[g] = r.acc /\ sent' = sent \o r.events
      BY <1>1, <2>4 DEF WithCall, Sends
    <3>2. /\ r.acc.buffer = a.buffer /\ r.acc.received = a.received /\ r.acc.index = a.index
          /\ r.events = IF how = "named" THEN <<StartOf(a.index, g)>> ELSE <<>>
      <4>1. CASE how = "named"
        <5>1. r.acc = [a EXCEPT !.named = TRUE, !.started = TRUE] /\ r.events = <<StartOf(a.index, g)>>
          BY <2>3, <4>1 DEF MarkStarted
        <5> QED
          BY <2>2, <4>1, <5>1 DEF Accumulators
      <4>2. CASE how # "named"
        BY <2>3, <4>2
      <4> QED
        BY <4>1, <4>2
    <3>3. a.buffer = <<>>
      BY <1>9, <2>1 DEF Fresh, NewAccumulator
    <3>4. PICK ev \in Seq(Events) : r.events = ev /\ \A k \in 1..Len(ev) : ev[k].type # "delta"
      <4>1. CASE how = "named"
        <5>1. PICK x \in Int : x = a.index
          BY <2>2 DEF Accumulators
        <5>2. <<>> \in Seq(Nat)
          OBVIOUS
        <5>3. IsEvent(StartOf(x, g), "start", x, g, <<>>)
          BY <1>1, <5>2, EventsAre
        <5>4. PICK e \in Events : e = StartOf(x, g) /\ e.type = "start"
          BY <5>3 DEF IsEvent
        <5>5. PICK ev \in Seq(Events) : ev = <<e>> /\ Len(ev) = 1 /\ ev[1] = e
          BY OneIs
        <5>6. \A k \in 1..1 : k = 1
          OBVIOUS
        <5>7. r.events = ev
          BY <3>2, <4>1, <5>1, <5>4, <5>5
        <5> QED
          BY <5>4, <5>5, <5>6, <5>7
      <4>2. CASE how # "named"
        <5>1. PICK ev \in Seq(Events) : ev = <<>> /\ Len(ev) = 0
          <6>1. <<>> \in Seq(Events) /\ Len(<<>>) = 0
            OBVIOUS
          <6> QED
            BY <6>1
        <5>2. \A k \in 1..0 : FALSE
          OBVIOUS
        <5> QED
          BY <3>2, <4>2, <5>1, <5>2
      <4> QED
        BY <4>1, <4>2
    <3>5. ev \in Seq(Mute(g))
      BY <3>4, OfAnother
    <3>6. Follows(sent', sent, ev)
      BY <3>1, <3>4 DEF Follows
    <3>7. FragsOf(sent', g) = FragsOf(sent, g)
      BY <1>2, <3>5, <3>6, MuteSays
    <3> QED
      BY <1>1, <1>7, <2>2, <2>7, <3>1, <3>2, <3>3, <3>7 DEF Carries
  <2> QED
    BY <2>6, <2>7
<1> QED
  BY <1>8, <1>9

(* What a call says to arguments: they follow what it was owed.             *)
Say(g, x, a, frags, r) ==
  /\ frags # <<>> /\ WithCall(g, r) /\ Answers(r, a, g)
  /\ \/ Delta(r, a, g, frags) /\ Follows(Owed(item'[g]), Owed(x), frags) /\ (item'[g].done \/ item'[g].frags > 0)
     \/ r.acc = a /\ r.events = <<>> /\ item'[g].done /\ Owed(item'[g]) = Owed(x)

(* Arguments that come are sent on or kept; at the end, only if none came.  *)
LEMMA ArgumentsSay ==
  ASSUME ResponseInv, BlockInv, ArgsInv, NEW g \in CallItems, ArgumentsDelta(g) \/ ArgumentsDone(g)
  PROVE  \E frags \in Seq(Nat) : \E r : Say(g, item[g], Fresh(g), frags, r)
<1>1. /\ upstream = "open" /\ upstream' = upstream /\ Indexed /\ ServerShape /\ g \in Items
      /\ acc \in [CallItems -> Accumulators] /\ ~item[g].done
  BY DEF ArgumentsDelta, ArgumentsDone, MayAddress, MaySend, ResponseInv, Indexed, Items
<1>2. Ongoing /\ sent \in Seq(Events) /\ InBlocks /\ Underway
  BY <1>1, WasOngoing DEF Ongoing
<1>3. PICK x \in ItemRecords : x = item[g]
  BY <1>1, ItemIs
<1>4. PICK n \in Nat : n = x.frags
  BY ResponseAssumption DEF ItemRecords
<1>5. PICK a \in Accumulators : /\ a = Fresh(g) /\ Even(a) /\ a.index # -1
                                /\ Carries(x, a, FragsOf(sent, g), upstream = "open")
  <2>1. Fresh(g) \in Accumulators /\ Fresh(g).index = IF acc[g].index = -1 THEN nextIndex ELSE acc[g].index
    BY <1>1, FreshIs
  <2>2. /\ ~Fresh(g).stopped /\ (Fresh(g).named <=> Fresh(g).started) /\ (acc[g].started => acc[g].index # -1)
    BY <1>1, <1>2, FreshStarts
  <2>3. nextIndex # -1
    BY <1>1, MadeIs
  <2>4. Carries(x, acc[g], FragsOf(sent, g), upstream = "open")
    BY <1>3 DEF ArgsInv
  <2>5. Carries(x, Fresh(g), FragsOf(sent, g), upstream = "open")
    BY <1>1, <2>2, <2>4, FreshCarries
  <2> QED
    BY <2>1, <2>2, <2>3, <2>5 DEF Even
<1>7. \E frags \in Seq(Nat) : \E r : Say(g, x, a, frags, r)
  <2>1. CASE ArgumentsDelta(g)
    <3>1. PICK frags : frags = <<n + 1>>
      OBVIOUS
    <3>2. frags \in Seq(Nat) /\ frags # <<>>
      BY <3>1
    <3>3. WithCall(g, HandleDelta(a, g, FALSE, frags))
      BY <1>3, <1>4, <1>5, <2>1, <3>1 DEF ArgumentsDelta
    <3>4. Answers(HandleDelta(a, g, FALSE, frags), a, g) /\ Delta(HandleDelta(a, g, FALSE, frags), a, g, frags)
      BY <1>1, <1>5, <3>2, DeltaAnswers, DeltaIs
    <3>5. item' = [item EXCEPT ![g].frags = @ + 1]
      BY <2>1 DEF ArgumentsDelta
    <3>6. item'[g] = [x EXCEPT !.frags = @ + 1]
      BY <1>1, <1>3, <3>5, ItemsChange
    <3>7. item'[g].frags = n + 1 /\ item'[g].done = x.done /\ ~x.done
      BY <1>1, <1>3, <1>4, <3>6 DEF ItemRecords
    <3>8. Owed(item'[g]) = CountTo(n + 1) /\ Owed(x) = CountTo(n)
      BY <1>4, <3>7 DEF Owed
    <3>9. Follows(Owed(item'[g]), Owed(x), frags)
      BY <3>1, <3>8, CountMore
    <3>10. item'[g].frags > 0
      BY <3>7
    <3> QED
      BY <3>2, <3>3, <3>4, <3>9, <3>10, Zenon DEF Say
  <2>2. CASE ArgumentsDone(g)
    <3>1. PICK frags \in Seq(Nat) : frags = Whole(g)
      BY <1>1, WholeIs
    <3>2. frags = (IF n = 0 THEN <<1>> ELSE CountTo(n)) /\ frags # <<>>
      <4>1. frags = IF n = 0 THEN <<1>> ELSE CountTo(n)
        BY <1>3, <1>4, <3>1 DEF Whole, CountTo
      <4>2. n # 0 => CountTo(n) # <<>>
        <5>1. PICK s \in Seq(Nat) : s = CountTo(n) /\ Len(s) = n
          BY CountIs
        <5> QED
          BY <5>1
      <4>3. <<1>> # <<>>
        OBVIOUS
      <4> QED
        BY <4>1, <4>2, <4>3
    <3>3. WithCall(g, HandleDone(a, g, frags))
      BY <1>5, <2>2, <3>1 DEF ArgumentsDone
    <3>4. Answers(HandleDone(a, g, frags), a, g)
      BY <1>1, <1>5, DoneAnswers
    <3>5. item' = [item EXCEPT ![g].done = TRUE]
      BY <2>2 DEF ArgumentsDone
    <3>6. item'[g] = [x EXCEPT !.done = TRUE]
      BY <1>1, <1>3, <3>5, ItemsChange
    <3>7. item'[g].frags = n /\ item'[g].done /\ ~x.done
      BY <1>1, <1>3, <1>4, <3>6 DEF ItemRecords
    <3>8. a.received <=> n > 0
      BY <1>1, <1>3, <1>4, <1>5 DEF Carries
    <3>9. Owed(x) = CountTo(n)
      BY <1>4, <3>7 DEF Owed
    <3>10. CASE a.received
      <4>1. HandleDone(a, g, frags) = [acc |-> a, events |-> <<>>]
        BY <3>10 DEF HandleDone
      <4>2. Owed(item'[g]) = Owed(x)
        BY <3>7, <3>8, <3>9, <3>10 DEF Owed
      <4>3. HandleDone(a, g, frags).acc = a /\ HandleDone(a, g, frags).events = <<>>
        BY <4>1
      <4> QED
        BY <3>2, <3>3, <3>4, <3>7, <4>2, <4>3, Zenon DEF Say
    <3>11. CASE ~a.received
      <4>1. HandleDone(a, g, frags) = HandleDelta(a, g, FALSE, frags)
        BY <3>2, <3>11 DEF HandleDone
      <4>2. Delta(HandleDone(a, g, frags), a, g, frags)
        BY <1>5, <4>1, DeltaIs
      <4>3. n = 0
        BY <3>8, <3>11
      <4>4. CountTo(n) = <<>>
        BY <4>3 DEF CountTo
      <4>5. Owed(item'[g]) = frags
        BY <3>2, <3>7, <4>3 DEF Owed
      <4>6. frags = <<>> \o frags
        OBVIOUS
      <4>7. Follows(Owed(item'[g]), Owed(x), frags)
        BY <3>9, <4>4, <4>5, <4>6 DEF Follows
      <4> QED
        BY <3>2, <3>3, <3>4, <3>7, <4>2, <4>7 DEF Say
    <3> QED
      BY <3>10, <3>11
  <2> QED
    BY <2>1, <2>2
<1>. QED
  BY <1>3, <1>5, <1>7

(* its arguments come,                                                      *)
LEMMA ArgumentsArgs ==
  ASSUME ResponseInv, BlockInv, ArgsInv, NEW g \in CallItems, ArgumentsDelta(g) \/ ArgumentsDone(g), NEW f \in CallItems
  PROVE  Carries(item'[f], acc'[f], FragsOf(sent', f), upstream' = "open")
<1>1. /\ upstream = "open" /\ upstream' = upstream /\ Indexed /\ ServerShape /\ g \in Items /\ f \in Items
      /\ acc \in [CallItems -> Accumulators] /\ ~item[g].done
  BY DEF ArgumentsDelta, ArgumentsDone, MayAddress, MaySend, ResponseInv, Indexed, Items
<1>2. Ongoing /\ sent \in Seq(Events) /\ InBlocks /\ Underway
  BY <1>1, WasOngoing DEF Ongoing
<1>3. PICK x \in ItemRecords : x = item[g]
  BY <1>1, ItemIs
<1>4. PICK n \in Nat : n = x.frags
  BY ResponseAssumption DEF ItemRecords
<1>5. PICK a \in Accumulators : /\ a = Fresh(g) /\ Even(a) /\ a.index # -1
                                /\ Carries(x, a, FragsOf(sent, g), upstream = "open")
  <2>1. Fresh(g) \in Accumulators /\ Fresh(g).index = IF acc[g].index = -1 THEN nextIndex ELSE acc[g].index
    BY <1>1, FreshIs
  <2>2. /\ ~Fresh(g).stopped /\ (Fresh(g).named <=> Fresh(g).started) /\ (acc[g].started => acc[g].index # -1)
    BY <1>1, <1>2, FreshStarts
  <2>3. nextIndex # -1
    BY <1>1, MadeIs
  <2>4. Carries(x, acc[g], FragsOf(sent, g), upstream = "open")
    BY <1>3 DEF ArgsInv
  <2>5. Carries(x, Fresh(g), FragsOf(sent, g), upstream = "open")
    BY <1>1, <2>2, <2>4, FreshCarries
  <2> QED
    BY <2>1, <2>2, <2>3, <2>5 DEF Even
<1>6. Carries(item[f], acc[f], FragsOf(sent, f), upstream = "open")
  BY DEF ArgsInv
<1>7. \E frags \in Seq(Nat) : \E r : Say(g, x, a, frags, r)
  BY <1>3, <1>5, ArgumentsSay
<1>8. PICK frags \in Seq(Nat) : \E r : Say(g, x, a, frags, r)
  BY <1>7
<1>10. PICK r : Say(g, x, a, frags, r)
  BY <1>8
<1>9. /\ frags # <<>> /\ WithCall(g, r) /\ Answers(r, a, g)
      /\ \/ Delta(r, a, g, frags) /\ Follows(Owed(item'[g]), Owed(x), frags) /\ (item'[g].done \/ item'[g].frags > 0)
         \/ r.acc = a /\ r.events = <<>> /\ item'[g].done /\ Owed(item'[g]) = Owed(x)
  BY <1>10, Zenon DEF Say
<1>12. acc'[g] = r.acc /\ sent' = sent \o r.events
  BY <1>1, <1>9 DEF WithCall, Sends
<1>13. CASE f # g
  <2>1. item'[f] = item[f]
    <3>1. \A j \in Items \ {g} : item'[j] = item[j]
      BY <1>1, ItemsChange DEF ArgumentsDelta, ArgumentsDone
    <3> QED
      BY <1>1, <1>13, <3>1
  <2>2. Spares(f)
    BY <1>1, <1>2, <1>9, <1>13, <2>1, OthersSpared
  <2> QED
    BY <1>2, <1>6, <2>2, SparesKeeps
<1>14. CASE f = g
  <2>1. CASE r.acc = a /\ r.events = <<>> /\ item'[g].done /\ Owed(item'[g]) = Owed(x)
    <3>1. sent' = sent
      <4>1. sent \o <<>> = sent
        BY <1>2
      <4> QED
        BY <1>12, <2>1, <4>1
    <3>2. acc'[g] = a
      BY <1>12, <2>1
    <3> QED
      BY <1>1, <1>5, <1>14, <2>1, <3>1, <3>2 DEF Carries
  <2>2. CASE /\ Delta(r, a, g, frags) /\ Follows(Owed(item'[g]), Owed(x), frags)
             /\ (item'[g].done \/ item'[g].frags > 0)
    <3>1. PICK due \in Seq(Nat) : due = Owed(x)
      BY DueIs
    <3>2. Follows(due, FragsOf(sent, g), a.buffer) /\ (a.started => a.buffer = <<>>)
      BY <1>1, <1>5, <3>1 DEF Carries
    <3>3. Follows(sent', sent, r.events) /\ Follows(Owed(item'[g]), due, frags)
      BY <1>12, <2>2, <3>1 DEF Follows
    <3>5. Delta(r, a, g, frags) /\ frags # <<>>
      BY <1>9, <2>2
    <3>4. /\ Follows(Owed(item'[g]), FragsOf(sent', g), r.acc.buffer) /\ r.acc.received /\ r.acc.index = a.index
          /\ r.acc.started = a.started /\ (a.started => r.acc.buffer = <<>>)
      BY <1>2, <3>2, <3>3, <3>5, DeltaCarries
    <3> QED
      BY <1>1, <1>5, <1>12, <1>14, <2>2, <3>4 DEF Carries
  <2> QED
    BY <1>9, <2>1, <2>2
<1> QED
  BY <1>13, <1>14

(* The events of a text, and the starts and the stops at the end.           *)
LEMMA TextArgs ==
  ASSUME ResponseInv, BlockInv, ArgsInv, NEW t \in TextItems, MessageAdded(t) \/ TextDelta(t) \/ TextDone(t), NEW f \in CallItems
  PROVE  Spares(f)
<1>1. /\ upstream = "open" /\ upstream' = upstream /\ Indexed /\ ServerShape /\ t \in Items /\ f \in Items
      /\ acc' = acc /\ f # t
  BY ItemsAreFinite DEF MessageAdded, TextDelta, TextDone, MayAddress, MaySend, ResponseInv, Items
<1>2. Ongoing /\ sent \in Seq(Events) /\ InBlocks
  BY <1>1, WasOngoing DEF Ongoing
<1>3. item'[f] = item[f]
  <2>1. \A j \in Items \ {t} : item'[j] = item[j]
    BY <1>1, ItemsChange DEF MessageAdded, TextDelta, TextDone
  <2> QED
    BY <1>1, <2>1
<1>4. \E ev \in Seq(Events) : Follows(sent', sent, ev) /\ \A k \in 1..Len(ev) : ev[k].item = t
  <2>1. CASE sent' = sent
    <3>1. PICK ev \in Seq(Events) : ev = <<>> /\ Len(ev) = 0 /\ Follows(sent, sent, ev)
      <4>1. PICK ev : ev = <<>>
        OBVIOUS
      <4> QED
        BY <1>2, <4>1, NoEvents
    <3>2. \A k \in 1..0 : FALSE
      OBVIOUS
    <3> QED
      BY <2>1, <3>1, <3>2
  <2>2. CASE TextDone(t) /\ CloseText(t)
    <3>1. PICK x \in Int : x = text[t].index
      BY <1>1, <1>2, TextIs
    <3>2. PICK e \in Events : e = StopOf(x, t) /\ e.item = t
      <4>1. <<>> \in Seq(Nat)
        OBVIOUS
      <4>2. IsEvent(StopOf(x, t), "stop", x, t, <<>>)
        BY <1>1, <4>1, EventsAre
      <4> QED
        BY <4>2 DEF IsEvent
    <3>3. PICK ev \in Seq(Events) : ev = <<e>> /\ Len(ev) = 1 /\ ev[1] = e
      BY OneIs
    <3>4. Follows(sent', sent, ev)
      BY <2>2, <3>1, <3>2, <3>3 DEF TextDone, Sends, Follows
    <3>5. \A k \in 1..1 : k = 1
      OBVIOUS
    <3> QED
      BY <3>2, <3>3, <3>4, <3>5
  <2>3. CASE TextDelta(t)
    <3>1. PICK x : x = IF text[t].index = -1 THEN nextIndex ELSE text[t].index
      OBVIOUS
    <3>2. x \in Int
      BY <1>1, <1>2, <3>1, TextIs
    <3>3. PICK frags : frags = <<item[t].frags + 1>>
      OBVIOUS
    <3>4. frags \in Seq(Nat)
      <4>1. item[t] \in ItemRecords /\ MaxFrags \in Nat
        BY <1>1, ItemIs, ResponseAssumption
      <4> QED
        BY <3>3, <4>1 DEF ItemRecords
    <3>5. PICK d \in Events : d = StartOf(x, t) /\ d.item = t
      <4>1. IsEvent(StartOf(x, t), "start", x, t, <<>>)
        BY <1>1, <3>2, <3>4, EventsAre
      <4> QED
        BY <4>1 DEF IsEvent
    <3>6. PICK e \in Events : e = DeltaOf(x, t, frags) /\ e.item = t
      <4>1. IsEvent(DeltaOf(x, t, frags), "delta", x, t, frags)
        BY <1>1, <3>2, <3>4, EventsAre
      <4> QED
        BY <4>1 DEF IsEvent
    <3>7. sent' = sent \o ((IF text[t].started THEN <<>> ELSE <<d>>) \o <<e>>)
      BY <2>3, <3>1, <3>3, <3>5, <3>6 DEF TextDelta, Sends
    <3>8. CASE text[t].started
      <4>1. PICK ev \in Seq(Events) : ev = <<e>> /\ Len(ev) = 1 /\ ev[1] = e
        BY OneIs
      <4>2. ev = <<>> \o <<e>>
        BY <4>1
      <4>3. Follows(sent', sent, ev)
        BY <3>7, <3>8, <4>2 DEF Follows
      <4>4. \A k \in 1..1 : k = 1
        OBVIOUS
      <4> QED
        BY <3>6, <4>1, <4>3, <4>4
    <3>9. CASE ~text[t].started
      <4>1. PICK ev : ev = <<d>> \o <<e>>
        OBVIOUS
      <4>2. ev \in Seq(Events) /\ Len(ev) = 2 /\ ev[1] = d /\ ev[2] = e
        BY <4>1, TwoIs DEF Follows
      <4>3. Follows(sent', sent, ev)
        BY <3>7, <3>9, <4>1 DEF Follows
      <4>4. \A k \in 1..2 : k = 1 \/ k = 2
        OBVIOUS
      <4> QED
        BY <3>5, <3>6, <4>2, <4>3, <4>4
    <3> QED
      BY <3>8, <3>9
  <2>4. MessageAdded(t) \/ (TextDone(t) /\ ~CloseText(t)) => sent' = sent
    BY DEF MessageAdded, TextDone
  <2> QED
    BY <2>1, <2>2, <2>3, <2>4
<1>5. PICK ev \in Seq(Events) : Follows(sent', sent, ev) /\ \A k \in 1..Len(ev) : ev[k].item = t
  BY <1>4
<1>6. acc \in [CallItems -> Accumulators] /\ acc'[f] = acc[f]
  BY <1>1 DEF Indexed
<1> QED
  BY <1>1, <1>2, <1>3, <1>5, <1>6, AnotherSpares

(* the server has sent everything, fails, or the body ends.                 *)
LEMMA CompletedArgs ==
  ASSUME ResponseInv, BlockInv, Completed, NEW f \in CallItems
  PROVE  Spares(f)
<1>1. /\ upstream = "open" /\ upstream' = "completed" /\ Indexed
      /\ item' = item /\ acc \in [CallItems -> Accumulators] /\ sent \in Seq(Events)
  BY DEF Completed, ResponseInv, Indexed, BlockInv
<1>2. acc[f] \in Accumulators
  BY <1>1
<1>3. acc'[f].buffer = acc[f].buffer /\ acc'[f].received = acc[f].received /\ acc'[f].index = acc[f].index
  <2>1. acc'[f] = IF Startable(f) THEN MarkStarted(acc[f], f).acc ELSE acc[f]
    BY DEF Completed
  <2>2. CASE Startable(f)
    <3>1. acc'[f] = [acc[f] EXCEPT !.named = TRUE, !.started = TRUE]
      BY <2>1, <2>2 DEF MarkStarted
    <3> QED
      BY <1>2, <3>1 DEF Accumulators
  <2>3. CASE ~Startable(f)
    BY <2>1, <2>3
  <2> QED
    BY <2>2, <2>3
<1>4. PICK S : S = {h \in CallItems : Startable(h)}
  OBVIOUS
<1>5. IsFiniteSet(S) /\ S \subseteq CallItems /\ CallItems \subseteq Items
  <2>1. S \subseteq Items
    BY <1>4, ItemsAreFinite
  <2> QED
    BY <1>4, <2>1, ItemsAreFinite, FS_Subset
<1>6. PICK late \in SetToSeqs(S) : Sends([k \in 1..Len(late) |-> StartOf(acc[late[k]].index, late[k])])
  BY <1>4 DEF Completed
<1>7. Len(late) \in Nat /\ late \in [1..Len(late) -> S]
  BY <1>5, SeqsOf
<1>8. PICK n \in Nat : n = Len(late)
  BY <1>7
<1>9. PICK ev : ev = [k \in 1..n |-> StartOf(acc[late[k]].index, late[k])]
  OBVIOUS
<1>10. ASSUME NEW k \in 1..n PROVE ev[k] \in Events /\ ev[k].type = "start"
  <2>1. PICK h \in CallItems : h = late[k]
    BY <1>5, <1>7, <1>8
  <2>2. PICK x \in Int : x = acc[h].index
    BY <1>1 DEF Accumulators
  <2>3. ev[k] = StartOf(x, h)
    BY <1>9, <2>1, <2>2
  <2>4. <<>> \in Seq(Nat) /\ h \in Items
    BY <1>5
  <2>5. IsEvent(StartOf(x, h), "start", x, h, <<>>)
    BY <2>4, EventsAre
  <2> QED
    BY <2>3, <2>5 DEF IsEvent
<1>11. ev \in Seq(Events) /\ Len(ev) = n
  <2>1. \A k \in 1..n : ev[k] \in Events
    BY <1>10
  <2> QED
    BY <1>9, <2>1
<1>12. Follows(sent', sent, ev)
  BY <1>6, <1>8, <1>9 DEF Follows, Sends
<1>13. ev \in Seq(Mute(f))
  <2>1. \A k \in 1..Len(ev) : ev[k].type # "delta"
    BY <1>10, <1>11
  <2> QED
    BY <1>11, <2>1, OfAnother
<1> QED
  BY <1>1, <1>3, <1>12, <1>13 DEF Spares

LEMMA FailsArgs ==
  ASSUME ResponseInv, BlockInv, StreamFails, NEW f \in CallItems
  PROVE  Spares(f)
<1>1. /\ upstream' = "ended" /\ item' = item /\ acc' = acc /\ sent' = sent \o <<ErrorEvent>> /\ sent \in Seq(Events)
  BY DEF StreamFails, Sends, BlockInv
<1>2. PICK e \in Events : e = ErrorEvent /\ e.type = "error"
  <2>1. <<>> \in Seq(Nat) /\ 0 \in Int /\ "none" \in Items \cup {"none", "end_turn", "tool_use"}
    OBVIOUS
  <2>2. IsEvent(Event("error", 0, "none", <<>>), "error", 0, "none", <<>>)
    BY <2>1, EventIs
  <2> QED
    BY <2>2 DEF ErrorEvent, IsEvent
<1>3. PICK ev \in Seq(Events) : ev = <<e>> /\ Len(ev) = 1 /\ ev[1] = e
  BY OneIs
<1>4. \A k \in 1..1 : k = 1
  OBVIOUS
<1>5. ev \in Seq(Mute(f))
  BY <1>2, <1>3, <1>4, OfAnother
<1>6. Follows(sent', sent, ev)
  BY <1>1, <1>2, <1>3 DEF Follows
<1> QED
  BY <1>1, <1>5, <1>6 DEF Spares

LEMMA EndsArgs ==
  ASSUME ResponseInv, BlockInv, BodyEnds, NEW f \in CallItems
  PROVE  Spares(f)
<1>1. /\ upstream # "ended" /\ upstream' = "ended" /\ item' = item /\ Indexed /\ reason \in {"end_turn", "tool_use"}
      /\ acc' = [g \in CallItems |-> Finish(acc[g], g).acc]
  BY DEF BodyEnds, ResponseInv, ServerShape
<1>2. sent \in Seq(Events) /\ InBlocks /\ Opened /\ Underway
  BY <1>1 DEF BlockInv
<1>3. acc[f] \in Accumulators
  BY <1>1 DEF Indexed
<1>4. acc'[f].buffer = acc[f].buffer /\ acc'[f].received = acc[f].received /\ acc'[f].index = acc[f].index
  <2>1. acc'[f] = Finish(acc[f], f).acc
    BY <1>1
  <2>2. acc'[f] = [acc[f] EXCEPT !.stopped = TRUE] \/ acc'[f] = acc[f]
    BY <2>1 DEF Finish
  <2> QED
    BY <1>3, <2>2 DEF Accumulators
<1>5. PICK S : S = Mute(f)
  OBVIOUS
<1>6. PICK ev : ev = TextSweep \o CallSweep
  OBVIOUS
<1>7. PICK p \in Seq(Single(Stops)) : ev = FlattenSeq(p)
  BY <1>1, <1>2, <1>6, SweepsAre
<1>8. ev \in Seq(Stops)
  BY <1>7, SweepIs DEF SweepOf
<1>9. Stops \subseteq S
  BY <1>5 DEF Stops, Mute
<1>10. PICK e \in S : e = Event("end", 0, reason, <<>>)
  <2>1. <<>> \in Seq(Nat) /\ 0 \in Int /\ reason \in Items \cup {"none", "end_turn", "tool_use"}
    BY <1>1
  <2>2. IsEvent(Event("end", 0, reason, <<>>), "end", 0, reason, <<>>)
    BY <2>1, EventIs
  <2> QED
    BY <1>5, <2>2 DEF IsEvent, Mute
<1>11. PICK all : all = ev \o <<e>>
  OBVIOUS
<1>12. all \in Seq(S)
  <2>1. ev \in Seq(S) /\ <<e>> \in Seq(S)
    BY <1>8, <1>9
  <2> QED
    BY <1>11, <2>1
<1>13. sent' = sent \o (ev \o <<e>>)
  BY <1>6, <1>10 DEF BodyEnds, Sends
<1>14. Follows(sent', sent, all)
  BY <1>11, <1>13 DEF Follows
<1> QED
  BY <1>1, <1>4, <1>5, <1>12, <1>14 DEF Spares

(* Every step keeps what the calls carry, and none gets its arguments twice.*)
LEMMA ArgsStep == ResponseInv /\ BlockInv /\ ArgsInv /\ [ResponseNext]_responseVars => ArgsInv'
<1> SUFFICES ASSUME ResponseInv, BlockInv, ArgsInv, [ResponseNext]_responseVars, NEW f \in CallItems
             PROVE  Carries(item'[f], acc'[f], FragsOf(sent', f), upstream' = "open")
  BY DEF ArgsInv
<1>1. Carries(item[f], acc[f], FragsOf(sent, f), upstream = "open") /\ sent \in Seq(Events)
  BY DEF ArgsInv, BlockInv
<1>2. CASE UNCHANGED responseVars
  BY <1>1, <1>2 DEF responseVars
<1>3. CASE \E g \in CallItems : CallAdded(g) \/ ArgumentsDelta(g) \/ ArgumentsDone(g)
  BY <1>3, CallAddedArgs, ArgumentsArgs
<1>4. CASE (\E t \in TextItems : MessageAdded(t) \/ TextDelta(t) \/ TextDone(t)) \/ Completed \/ StreamFails \/ BodyEnds
  <2>1. Spares(f)
    BY <1>4, TextArgs, CompletedArgs, FailsArgs, EndsArgs
  <2> QED
    BY <1>1, <2>1, SparesKeeps
<1> QED
  BY <1>2, <1>3, <1>4 DEF ResponseNext

LEMMA ArgsGive == BlockInv /\ ArgsInv => ArgumentsOnce
<1> SUFFICES ASSUME BlockInv, ArgsInv, NEW f \in CallItems, acc[f].buffer = <<>>, item[f].done
             PROVE  FragsOf(sent, f) = Whole(f)
  BY DEF ArgumentsOnce
<1>1. PICK s \in Seq(Nat) : s = FragsOf(sent, f)
  BY FragsType DEF BlockInv
<1>2. Follows(Owed(item[f]), s, acc[f].buffer)
  BY <1>1 DEF ArgsInv, Carries
<1>3. s \o <<>> = s
  OBVIOUS
<1>4. Owed(item[f]) = s
  BY <1>2, <1>3 DEF Follows
<1>5. Owed(item[f]) = Whole(f)
  BY DEF Owed, Whole, CountTo
<1> QED
  BY <1>1, <1>4, <1>5

-----------------------------------------------------------------------------
(* What the loop makes of the events: an answer whose items come one after the *)
(* other is rebuilt as the server sent it, its texts, its calls and its stop.  *)

(* What the loop has rebuilt of some events.                                *)
ToolParts == [item : CallItems, input : Seq(Nat)]
PartSet ==
  {P \in [texts : Seq(Seq(Nat)), tools : Seq(ToolParts), text : Seq(Nat), current : BOOLEAN, kinds : SUBSET Int,
          stop : Items \cup {"none", "end_turn", "tool_use"}, failed : BOOLEAN] :
     P.current => P.tools # <<>>}
Built(out) ==
  LET Parts[n \in 0..Len(out)] == IF n = 0 THEN NoParts ELSE Assemble(Parts[n - 1], out[n])
  IN Parts[Len(out)]

(* What the loop has assembled is what the events sent so far make.         *)
LEMMA AssembledIs == Assembled = Built(sent)
  BY DEF Assembled, Built

(* One event of each kind.                                                  *)
Begins(Q, P, f) ==
  /\ Q \in PartSet /\ Q.tools = Append(P.tools, [item |-> f, input |-> <<>>]) /\ Q.current = TRUE
  /\ Q.texts = P.texts /\ Q.text = P.text /\ Q.kinds = P.kinds /\ Q.stop = P.stop /\ Q.failed = P.failed
BeginsText(Q, P, x) ==
  /\ Q \in PartSet /\ Q.kinds = P.kinds \cup {x} /\ Q.current = P.current /\ Q.tools = P.tools
  /\ Q.texts = P.texts /\ Q.text = P.text /\ Q.stop = P.stop /\ Q.failed = P.failed
GoesOnText(Q, P, frags) ==
  /\ Q \in PartSet /\ Q.text = P.text \o frags /\ Q.current = P.current /\ Q.tools = P.tools
  /\ Q.texts = P.texts /\ Q.kinds = P.kinds /\ Q.stop = P.stop /\ Q.failed = P.failed
GoesOnCall(Q, P, frags) ==
  /\ Q \in PartSet /\ Len(Q.tools) = Len(P.tools)
  /\ \A k \in 1..Len(P.tools) :
       /\ Q.tools[k].item = P.tools[k].item
       /\ Q.tools[k].input = IF P.current /\ k = Len(P.tools) THEN P.tools[k].input \o frags ELSE P.tools[k].input
  /\ Q.current = P.current
  /\ Q.texts = P.texts /\ Q.text = P.text /\ Q.kinds = P.kinds /\ Q.stop = P.stop /\ Q.failed = P.failed
StopsAt(Q, P, x) ==
  /\ Q \in PartSet /\ Q.tools = P.tools /\ Q.current = FALSE /\ Q.kinds = P.kinds /\ Q.stop = P.stop /\ Q.failed = P.failed
  /\ IF x \in P.kinds /\ P.text # <<>> THEN Q.texts = Append(P.texts, P.text) /\ Q.text = <<>>
     ELSE Q.texts = P.texts /\ Q.text = P.text
EndsIn(Q, P, why) ==
  /\ Q \in PartSet /\ Q.tools = P.tools /\ Q.current = P.current /\ Q.kinds = P.kinds /\ Q.stop = why
  /\ Q.texts = P.texts /\ Q.text = P.text /\ Q.failed = P.failed

LEMMA AssembleStart ==
  ASSUME NEW P \in PartSet, ~P.failed, NEW e \in Events, e.type = "start"
  PROVE  IF e.item \in CallItems THEN Begins(Assemble(P, e), P, e.item) ELSE BeginsText(Assemble(P, e), P, e.index)
<1>1. PICK Q : Q = Assemble(P, e)
  OBVIOUS
<1>2. /\ P.tools \in Seq(ToolParts) /\ P.kinds \in SUBSET Int /\ e.index \in Int
      /\ P.texts \in Seq(Seq(Nat)) /\ P.text \in Seq(Nat) /\ P.current \in BOOLEAN
  BY DEF PartSet, Events
<1>3. CASE e.item \in CallItems
  <2>1. PICK one : one = [item |-> e.item, input |-> <<>>]
    OBVIOUS
  <2>2. one \in ToolParts
    <3>1. <<>> \in Seq(Nat)
      OBVIOUS
    <3> QED
      BY <1>3, <2>1, <3>1 DEF ToolParts
  <2>3. PICK more : more = Append(P.tools, one)
    OBVIOUS
  <2>4. more \in Seq(ToolParts) /\ more # <<>>
    BY <1>2, <2>2, <2>3
  <2>5. Q = [P EXCEPT !.tools = more, !.current = TRUE]
    BY <1>1, <1>3, <2>1, <2>3 DEF Assemble
  <2>6. Begins(Q, P, e.item)
    BY <2>1, <2>3, <2>4, <2>5 DEF Begins, PartSet
  <2> QED
    BY <1>1, <1>3, <2>6
<1>4. CASE e.item \notin CallItems
  <2>1. PICK more \in SUBSET Int : more = P.kinds \cup {e.index}
    BY <1>2
  <2>2. Q = [P EXCEPT !.kinds = more]
    BY <1>1, <1>4, <2>1 DEF Assemble
  <2>3. BeginsText(Q, P, e.index)
    BY <2>1, <2>2 DEF BeginsText, PartSet
  <2> QED
    BY <1>1, <1>4, <2>3
<1> QED
  BY <1>3, <1>4

LEMMA AssembleDelta ==
  ASSUME NEW P \in PartSet, ~P.failed, NEW e \in Events, e.type = "delta"
  PROVE  IF e.item \in CallItems THEN GoesOnCall(Assemble(P, e), P, e.frags) ELSE GoesOnText(Assemble(P, e), P, e.frags)
<1>1. PICK Q : Q = Assemble(P, e)
  OBVIOUS
<1>2. /\ P.tools \in Seq(ToolParts) /\ P.text \in Seq(Nat) /\ e.frags \in Seq(Nat) /\ P.current \in BOOLEAN
      /\ (P.current => P.tools # <<>>)
  BY DEF PartSet, Events
<1>3. CASE e.item \notin CallItems
  <2>1. PICK more : more = P.text \o e.frags
    OBVIOUS
  <2>2. more \in Seq(Nat)
    BY <1>2, <2>1
  <2>3. Q = [P EXCEPT !.text = more]
    BY <1>1, <1>3, <2>1 DEF Assemble
  <2>4. GoesOnText(Q, P, e.frags)
    BY <2>1, <2>2, <2>3 DEF GoesOnText, PartSet
  <2> QED
    BY <1>1, <1>3, <2>4
<1>4. CASE e.item \in CallItems /\ ~P.current
  <2>1. Q = P
    BY <1>1, <1>4 DEF Assemble
  <2>2. GoesOnCall(Q, P, e.frags)
    BY <1>4, <2>1 DEF GoesOnCall
  <2> QED
    BY <1>1, <1>4, <2>2
<1>5. CASE e.item \in CallItems /\ P.current
  <2>1. PICK n \in Nat : n = Len(P.tools)
    BY <1>2
  <2>2. n \in 1..n
    BY <1>2, <1>5, <2>1
  <2>3. PICK one \in ToolParts : one = P.tools[n]
    BY <1>2, <2>1, <2>2
  <2>4. PICK more : more = one.input \o e.frags
    OBVIOUS
  <2>5. more \in Seq(Nat)
    BY <1>2, <2>4 DEF ToolParts
  <2>6. PICK two : two = [one EXCEPT !.input = more]
    OBVIOUS
  <2>7. two \in ToolParts /\ two.item = one.item /\ two.input = more
    BY <2>5, <2>6 DEF ToolParts
  <2>8. PICK all : all = [P.tools EXCEPT ![n] = two]
    OBVIOUS
  <2>9. all \in Seq(ToolParts) /\ Len(all) = n /\ \A k \in 1..n : all[k] = IF k = n THEN two ELSE P.tools[k]
    BY <1>2, <2>1, <2>2, <2>7, <2>8
  <2>10. Q = [P EXCEPT !.tools = all]
    BY <1>1, <1>5, <2>1, <2>3, <2>4, <2>6, <2>8 DEF Assemble
  <2>11. all # <<>>
    BY <2>2, <2>9
  <2>12. Q \in PartSet /\ Q.tools = all /\ Q.current = P.current /\ Q.texts = P.texts /\ Q.text = P.text
         /\ Q.kinds = P.kinds /\ Q.stop = P.stop /\ Q.failed = P.failed
    BY <2>9, <2>10, <2>11 DEF PartSet
  <2>13. ASSUME NEW k \in 1..n
         PROVE  /\ all[k].item = P.tools[k].item
                /\ all[k].input = IF k = n THEN P.tools[k].input \o e.frags ELSE P.tools[k].input
    BY <2>3, <2>4, <2>7, <2>9
  <2>14. GoesOnCall(Q, P, e.frags)
    BY <1>5, <2>1, <2>9, <2>12, <2>13 DEF GoesOnCall
  <2> QED
    BY <1>1, <1>5, <2>14
<1> QED
  BY <1>2, <1>3, <1>4, <1>5

LEMMA AssembleStop ==
  ASSUME NEW P \in PartSet, ~P.failed, NEW e \in Events, e.type = "stop"
  PROVE  StopsAt(Assemble(P, e), P, e.index)
<1>1. PICK Q : Q = Assemble(P, e)
  OBVIOUS
<1>2. P.texts \in Seq(Seq(Nat)) /\ P.text \in Seq(Nat)
  BY DEF PartSet
<1>3. CASE e.index \in P.kinds /\ P.text # <<>>
  <2>1. PICK T : T = Seq(Nat)
    OBVIOUS
  <2>2. PICK more : more = Append(P.texts, P.text)
    OBVIOUS
  <2>3. more \in Seq(T)
    BY <1>2, <2>1, <2>2
  <2>4. PICK none \in Seq(Nat) : none = <<>>
    <3>1. <<>> \in Seq(Nat)
      OBVIOUS
    <3> QED
      BY <3>1
  <2>5. Q = [P EXCEPT !.texts = more, !.text = none, !.current = FALSE]
    BY <1>1, <1>3, <2>2, <2>4 DEF Assemble
  <2>6. StopsAt(Q, P, e.index)
    BY <1>3, <2>1, <2>2, <2>3, <2>4, <2>5 DEF StopsAt, PartSet
  <2> QED
    BY <1>1, <2>6
<1>4. CASE ~(e.index \in P.kinds /\ P.text # <<>>)
  <2>1. Q = [P EXCEPT !.current = FALSE]
    BY <1>1, <1>4 DEF Assemble
  <2>2. StopsAt(Q, P, e.index)
    BY <1>4, <2>1 DEF StopsAt, PartSet
  <2> QED
    BY <1>1, <2>2
<1> QED
  BY <1>3, <1>4

LEMMA AssembleEnd ==
  ASSUME NEW P \in PartSet, ~P.failed, NEW e \in Events, e.type = "end"
  PROVE  EndsIn(Assemble(P, e), P, e.item)
<1>1. e.item \in Items \cup {"none", "end_turn", "tool_use"}
  BY DEF Events
<1>2. Assemble(P, e) = [P EXCEPT !.stop = e.item]
  BY DEF Assemble
<1> QED
  BY <1>1, <1>2 DEF EndsIn, PartSet

(* Whatever the event, parts are made.                                      *)
LEMMA AssembleType ==
  ASSUME NEW P \in PartSet, NEW e \in Events
  PROVE  Assemble(P, e) \in PartSet
<1>1. CASE P.failed
  BY <1>1 DEF Assemble
<1>2. CASE ~P.failed /\ e.type = "error"
  <2>1. Assemble(P, e) = [P EXCEPT !.failed = TRUE]
    BY <1>2 DEF Assemble
  <2> QED
    BY <2>1 DEF PartSet
<1>3. CASE ~P.failed /\ e.type # "error"
  BY <1>3, AssembleStart, AssembleDelta, AssembleStop, AssembleEnd
     DEF Begins, BeginsText, GoesOnCall, GoesOnText, StopsAt, EndsIn, Events
<1> QED
  BY <1>1, <1>2, <1>3

Unfolding(f, n, out) == f[0] = NoParts /\ \A k \in 1..n : f[k] = Assemble(f[k - 1], out[k])

LEMMA NoPartsIs == NoParts \in PartSet
<1>1. PICK S : S = Seq(Nat)
  OBVIOUS
<1>2. PICK none : none = <<>>
  OBVIOUS
<1>3. none \in Seq(Nat) /\ none \in Seq(S) /\ none \in Seq(ToolParts)
  BY <1>2
<1>4. PICK P : P = [texts |-> none, tools |-> none, text |-> none, current |-> FALSE, kinds |-> {}, stop |-> "none", failed |-> FALSE]
  OBVIOUS
<1>5. P \in PartSet
  BY <1>1, <1>3, <1>4 DEF PartSet
<1>6. NoParts = P
  BY <1>2, <1>4 DEF NoParts
<1> QED
  BY <1>5, <1>6

(* The parts after each event in turn, by induction on how many there are.  *)
LEMMA PartsExist ==
  ASSUME NEW out \in Seq(Events), NEW n \in Nat, n = Len(out)
  PROVE  \E f \in [0..n -> PartSet] : Unfolding(f, n, out)
<1>1. PICK S : S = PartSet
  OBVIOUS
<1>2. PICK F : F = [p \in (1..n) \X S |-> Assemble(p[2], out[p[1]])]
  OBVIOUS
<1>3. \A k \in 1..n : out[k] \in Events
  OBVIOUS
<1>4. Stepwise(n, S, NoParts, F)
  <2>1. ASSUME NEW p \in (1..n) \X S PROVE Assemble(p[2], out[p[1]]) \in S
    BY <1>1, <1>3, AssembleType
  <2>2. F \in [(1..n) \X S -> S]
    BY <1>2, <2>1
  <2> QED
    BY <1>1, <2>2, NoPartsIs DEF Stepwise
<1>5. PICK f : Steps(f, n, S, NoParts, F)
  BY <1>4, StepsExist
<1>6. f \in [0..n -> S] /\ f[0] = NoParts /\ \A k \in 1..n : f[k] = F[<<k, f[k - 1]>>]
  BY <1>5 DEF Steps
<1>7. ASSUME NEW k \in 1..n PROVE f[k] = Assemble(f[k - 1], out[k])
  <2>1. k - 1 \in 0..n /\ f[k] = F[<<k, f[k - 1]>>]
    BY <1>6
  <2>2. <<k, f[k - 1]>> \in (1..n) \X S
    BY <1>6, <2>1
  <2> QED
    BY <1>2, <2>1, <2>2
<1> QED
  BY <1>1, <1>6, <1>7 DEF Unfolding

LEMMA BuiltAs ==
  ASSUME NEW out, NEW n \in Nat, n = Len(out), NEW f, Unfolding(f, n, out)
  PROVE  Built(out) = f[n]
<1>1. PICK e : e = [k \in 0..n |-> f[k]]
  OBVIOUS
<1>2. 0 \in 0..n /\ n \in 0..n /\ \A k \in 1..n : k \in 0..n /\ k # 0 /\ k - 1 \in 0..n
  OBVIOUS
<1>3. \A k \in 0..n : k # 0 => k \in 1..n
  OBVIOUS
<1>4. \A k \in 0..n : e[k] = IF k = 0 THEN NoParts ELSE Assemble(e[k - 1], out[k])
  BY <1>1, <1>2, <1>3 DEF Unfolding
<1>5. e = [k \in 0..n |-> IF k = 0 THEN NoParts ELSE Assemble(e[k - 1], out[k])]
  BY <1>1, <1>4
<1>6. PICK g : g = CHOOSE h : h = [k \in 0..n |-> IF k = 0 THEN NoParts ELSE Assemble(h[k - 1], out[k])]
  OBVIOUS
<1>7. g = [k \in 0..n |-> IF k = 0 THEN NoParts ELSE Assemble(g[k - 1], out[k])]
  BY <1>5, <1>6, Zenon
<1>8. g[0] = NoParts /\ \A k \in 1..n : g[k] = Assemble(g[k - 1], out[k])
  BY <1>2, <1>7
<1>9. PICK Good : Good = {k \in 0..n : g[k] = f[k]}
  OBVIOUS
<1>10. 0 \in Good
  BY <1>2, <1>8, <1>9 DEF Unfolding
<1>11. ASSUME NEW k \in 1..n, k - 1 \in Good PROVE k \in Good
  BY <1>2, <1>8, <1>9, <1>11 DEF Unfolding
<1>12. n \in Good
  BY <1>2, <1>10, <1>11, UpTo
<1>13. Built(out) = g[n]
  BY <1>6 DEF Built
<1> QED
  BY <1>9, <1>12, <1>13

LEMMA BuiltNothing == Built(<<>>) = NoParts
<1>1. PICK out : out = <<>>
  OBVIOUS
<1>2. Len(out) = 0 /\ 0 \in Nat /\ \A k \in 1..0 : FALSE
  BY <1>1
<1>3. PICK f : f = [k \in 0..0 |-> NoParts]
  OBVIOUS
<1>4. Unfolding(f, 0, out) /\ f[0] = NoParts
  BY <1>2, <1>3 DEF Unfolding
<1> QED
  BY <1>1, <1>2, <1>4, BuiltAs

LEMMA BuiltIs ==
  ASSUME NEW out \in Seq(Events)
  PROVE  Built(out) \in PartSet
<1>1. PICK n \in Nat : n = Len(out)
  OBVIOUS
<1>2. PICK f \in [0..n -> PartSet] : Unfolding(f, n, out)
  BY <1>1, PartsExist
<1>3. n \in 0..n
  OBVIOUS
<1> QED
  BY <1>1, <1>2, <1>3, BuiltAs

(* One event more is one step of the assembler more.                        *)
LEMMA BuiltMore ==
  ASSUME NEW out \in Seq(Events), NEW e \in Events, NEW w, Follows(w, out, <<e>>)
  PROVE  w \in Seq(Events) /\ Built(w) = Assemble(Built(out), e)
<1>1. PICK n \in Nat : n = Len(out)
  OBVIOUS
<1>2. PICK one \in Seq(Events) : one = <<e>> /\ Len(one) = 1 /\ one[1] = e
  BY OneIs
<1>3. w \in Seq(Events) /\ Len(w) = n + 1 /\ Goes(w, out, n, one, 1)
  <2>1. Follows(w, out, one)
    BY <1>2
  <2> QED
    BY <1>1, <1>2, <2>1, FollowsIs
<1>4. w[n + 1] = e /\ \A k \in 1..n : w[k] = out[k]
  BY <1>2, <1>3 DEF Goes, Same
<1>5. PICK m \in Nat : m = n + 1
  OBVIOUS
<1>6. PICK f \in [0..m -> PartSet] : Unfolding(f, m, w)
  BY <1>3, <1>5, PartsExist
<1>7. Unfolding(f, n, out)
  BY <1>4, <1>5, <1>6 DEF Unfolding
<1>8. Built(out) = f[n] /\ Built(w) = f[m]
  BY <1>1, <1>3, <1>5, <1>6, <1>7, BuiltAs
<1>9. f[m] = Assemble(f[n], e)
  <2>1. m \in 1..m /\ m - 1 = n
    BY <1>5
  <2>2. f[m] = Assemble(f[m - 1], w[m])
    BY <1>6, <2>1 DEF Unfolding
  <2> QED
    BY <1>4, <1>5, <2>1, <2>2
<1> QED
  BY <1>3, <1>8, <1>9

(* An answer whose items come one after the other.                          *)
BegunBy(x) == x.announced # "no" \/ x.frags > 0 \/ x.done
BegunCalls(it) == {f \in CallItems : BegunBy(it[f])}
Spoken(it) == {t \in TextItems : it[t].frags > 0}
InTurn(it, ac, tx, why) ==
  /\ \A f \in CallItems : (BegunBy(it[f]) <=> ac[f].started) /\ (ac[f].index # -1 <=> ac[f].started)
  /\ \A t \in TextItems : tx[t].started <=> it[t].frags > 0
  /\ \A i, j \in Items : BegunBy(it[i]) /\ ~it[i].done /\ BegunBy(it[j]) /\ ~it[j].done => i = j
  /\ (why = "tool_use" <=> BegunCalls(it) # {})
CallsRebuilt(P, it) ==
  /\ Len(P.tools) = Cardinality(BegunCalls(it))
  /\ \A k \in 1..Len(P.tools) : P.tools[k].item \in BegunCalls(it) /\ P.tools[k].input = Owed(it[P.tools[k].item])
  /\ \A k, l \in 1..Len(P.tools) : P.tools[k].item = P.tools[l].item => k = l
  /\ \A f \in BegunCalls(it) : ~it[f].done => P.current /\ P.tools # <<>> /\ P.tools[Len(P.tools)].item = f
TextsRebuilt(P, it, tx) ==
  /\ \A t \in TextItems : tx[t].started => tx[t].index \in P.kinds
  /\ (P.text # <<>> <=> \E t \in TextItems : tx[t].started /\ ~it[t].done)
  /\ Len(P.texts) + (IF P.text = <<>> THEN 0 ELSE 1) = Cardinality(Spoken(it))
InTurnInv ==
  style = "sequential" =>
    IF upstream = "ended" THEN RebuiltAsSent
    ELSE /\ InTurn(item, acc, text, reason) /\ ~Built(sent).failed
         /\ CallsRebuilt(Built(sent), item) /\ TextsRebuilt(Built(sent), item, text)

(* A step that leaves the calls, or the texts, as they were.                *)
SameCalls(it, it1) ==
  \A g \in CallItems : (BegunBy(it1[g]) <=> BegunBy(it[g])) /\ Owed(it1[g]) = Owed(it[g]) /\ (~it1[g].done => ~it[g].done)
SameTexts(it, it1, tx, tx1) ==
  \A t \in TextItems : /\ (tx1[t].started <=> tx[t].started)
                       /\ (tx[t].started => tx1[t].index = tx[t].index /\ (it1[t].done <=> it[t].done))
                       /\ (it1[t].frags > 0 <=> it[t].frags > 0)

(* Calls, or texts, that nothing changes are rebuilt as before.             *)
LEMMA CallsSame ==
  ASSUME NEW P, NEW Q, NEW it, NEW it1, CallsRebuilt(P, it), SameCalls(it, it1), Q.tools = P.tools,
         \A f \in BegunCalls(it1) : ~it1[f].done => Q.current = P.current
  PROVE  CallsRebuilt(Q, it1)
<1>1. BegunCalls(it1) = BegunCalls(it)
  BY DEF BegunCalls, SameCalls
<1>2. BegunCalls(it) \subseteq CallItems
  BY DEF BegunCalls
<1>3. PICK n : n = Len(P.tools)
  OBVIOUS
<1>4. \A k \in 1..n : P.tools[k].item \in BegunCalls(it) /\ P.tools[k].input = Owed(it1[P.tools[k].item])
  BY <1>2, <1>3 DEF CallsRebuilt, SameCalls
<1>5. \A f \in BegunCalls(it1) : ~it1[f].done => Q.current /\ Q.tools # <<>> /\ Q.tools[Len(Q.tools)].item = f
  BY <1>1, <1>2 DEF CallsRebuilt, SameCalls
<1> QED
  BY <1>1, <1>3, <1>4, <1>5 DEF CallsRebuilt

LEMMA TextsSame ==
  ASSUME NEW P, NEW Q, NEW it, NEW it1, NEW tx, NEW tx1, TextsRebuilt(P, it, tx), SameTexts(it, it1, tx, tx1),
         Q.text = P.text, Q.texts = P.texts, P.kinds \subseteq Q.kinds
  PROVE  TextsRebuilt(Q, it1, tx1)
<1>1. Spoken(it1) = Spoken(it)
  BY DEF Spoken, SameTexts
<1>2. (\E t \in TextItems : tx1[t].started /\ ~it1[t].done) <=> (\E t \in TextItems : tx[t].started /\ ~it[t].done)
  BY DEF SameTexts
<1>3. \A t \in TextItems : tx1[t].started => tx1[t].index \in Q.kinds
  BY DEF SameTexts, TextsRebuilt
<1> QED
  BY <1>1, <1>2, <1>3 DEF TextsRebuilt

(* A call begins: it is one more, and the last.                             *)
LEMMA CallBegins ==
  ASSUME NEW P \in PartSet, NEW Q, NEW it, NEW it1, NEW f \in CallItems, Begins(Q, P, f), CallsRebuilt(P, it),
         ~BegunBy(it[f]), BegunBy(it1[f]), Owed(it1[f]) = <<>>,
         \A g \in CallItems \ {f} : it1[g] = it[g] /\ (BegunBy(it[g]) => it[g].done)
  PROVE  CallsRebuilt(Q, it1)
<1>1. PICK A, B : A = BegunCalls(it) /\ B = BegunCalls(it1)
  OBVIOUS
<1>2. B = A \cup {f} /\ f \notin A /\ A \subseteq CallItems
  BY <1>1 DEF BegunCalls
<1>3. IsFiniteSet(A)
  <2>1. A \subseteq Items
    BY <1>2, ItemsAreFinite
  <2> QED
    BY <2>1, ItemsAreFinite, FS_Subset
<1>4. Cardinality(B) = Cardinality(A) + 1
  BY <1>2, <1>3, FS_AddElement
<1>5. PICK one : one = [item |-> f, input |-> <<>>]
  OBVIOUS
<1>6. one \in ToolParts
  <2>1. <<>> \in Seq(Nat)
    OBVIOUS
  <2> QED
    BY <1>5, <2>1 DEF ToolParts
<1>7. PICK s \in Seq(ToolParts) : s = P.tools
  BY DEF PartSet
<1>8. PICK n \in Nat : n = Len(s)
  OBVIOUS
<1>9. PICK r : r = Q.tools
  OBVIOUS
<1>10. r \in Seq(ToolParts) /\ Len(r) = n + 1 /\ r[n + 1] = one /\ \A k \in 1..n : r[k] = s[k]
  <2>1. r = Append(s, one)
    BY <1>5, <1>7, <1>9 DEF Begins
  <2> QED
    BY <1>6, <1>8, <2>1, AppendIs
<1>11. /\ n = Cardinality(A)
       /\ \A k \in 1..n : s[k].item \in A /\ s[k].input = Owed(it[s[k].item])
       /\ \A k, l \in 1..n : s[k].item = s[l].item => k = l
  BY <1>1, <1>7, <1>8 DEF CallsRebuilt
<1>12. \A k \in 1..(n + 1) : k \in 1..n \/ k = n + 1
  OBVIOUS
<1>13. one.item = f /\ one.input = <<>>
  BY <1>5
<1>14. ASSUME NEW k \in 1..(n + 1) PROVE r[k].item \in B /\ r[k].input = Owed(it1[r[k].item])
  <2>1. CASE k \in 1..n
    <3>1. r[k] = s[k] /\ s[k].item \in A /\ s[k].input = Owed(it[s[k].item])
      BY <1>10, <1>11, <2>1
    <3>2. s[k].item \in CallItems \ {f}
      BY <1>2, <3>1
    <3>3. it1[s[k].item] = it[s[k].item]
      BY <3>2
    <3> QED
      BY <1>2, <3>1, <3>3
  <2>2. CASE k = n + 1
    BY <1>2, <1>10, <1>13, <2>2
  <2> QED
    BY <1>12, <2>1, <2>2
<1>15. \A k, l \in 1..(n + 1) : r[k].item = r[l].item => k = l
  <2>1. \A k \in 1..n : r[k].item = s[k].item /\ r[k].item # f
    BY <1>2, <1>10, <1>11
  <2>2. r[n + 1].item = f
    BY <1>10, <1>13
  <2> QED
    BY <1>11, <1>12, <2>1, <2>2
<1>16. \A g \in B : ~it1[g].done => g = f
  BY <1>1, <1>2 DEF BegunCalls
<1>17. Q.current /\ r # <<>> /\ r[Len(r)].item = f
  <2>1. Q.current
    BY DEF Begins
  <2> QED
    BY <1>10, <1>13, <2>1
<1> QED
  BY <1>1, <1>4, <1>9, <1>10, <1>11, <1>14, <1>15, <1>16, <1>17 DEF CallsRebuilt

(* Arguments go to the call that is under way.                              *)
LEMMA CallGrows ==
  ASSUME NEW P \in PartSet, NEW Q, NEW it, NEW it1, NEW f \in CallItems, NEW frags, GoesOnCall(Q, P, frags), CallsRebuilt(P, it),
         BegunBy(it[f]), ~it[f].done, BegunBy(it1[f]), Follows(Owed(it1[f]), Owed(it[f]), frags),
         \A g \in CallItems \ {f} : it1[g] = it[g]
  PROVE  CallsRebuilt(Q, it1)
<1>1. PICK A : A = BegunCalls(it)
  OBVIOUS
<1>2. BegunCalls(it1) = A /\ f \in A /\ A \subseteq CallItems
  BY <1>1 DEF BegunCalls
<1>3. PICK s \in Seq(ToolParts), r \in Seq(ToolParts) : s = P.tools /\ r = Q.tools
  BY DEF PartSet, GoesOnCall
<1>4. PICK n \in Nat : n = Len(s)
  OBVIOUS
<1>5. P.current /\ s # <<>> /\ s[n].item = f
  BY <1>1, <1>2, <1>3, <1>4 DEF CallsRebuilt
<1>6. n \in 1..n /\ Len(r) = n
  BY <1>3, <1>4, <1>5 DEF GoesOnCall
<1>7. /\ n = Cardinality(A)
      /\ \A k \in 1..n : s[k].item \in A /\ s[k].input = Owed(it[s[k].item])
      /\ \A k, l \in 1..n : s[k].item = s[l].item => k = l
  BY <1>1, <1>3, <1>4 DEF CallsRebuilt
<1>8. \A k \in 1..n : r[k].item = s[k].item /\ r[k].input = IF k = n THEN s[k].input \o frags ELSE s[k].input
  BY <1>3, <1>4, <1>5 DEF GoesOnCall
<1>9. ASSUME NEW k \in 1..n PROVE r[k].item \in A /\ r[k].input = Owed(it1[r[k].item])
  <2>1. CASE k = n
    <3>1. s[n].input = Owed(it[f]) /\ r[n].item = f /\ r[n].input = s[n].input \o frags
      BY <1>5, <1>6, <1>7, <1>8
    <3>2. r[n].input = Owed(it1[f])
      BY <3>1 DEF Follows
    <3> QED
      BY <1>2, <2>1, <3>1, <3>2
  <2>2. CASE k # n
    <3>1. s[k].item # f /\ s[k].item \in A /\ s[k].input = Owed(it[s[k].item])
      BY <1>5, <1>6, <1>7, <2>2
    <3>2. it1[s[k].item] = it[s[k].item]
      BY <1>2, <3>1
    <3>3. r[k].item = s[k].item /\ r[k].input = s[k].input
      BY <1>8, <2>2
    <3> QED
      BY <3>1, <3>2, <3>3
  <2> QED
    BY <2>1, <2>2
<1>10. \A k, l \in 1..n : r[k].item = r[l].item => k = l
  BY <1>7, <1>8
<1>11. ASSUME NEW g \in A, ~it1[g].done PROVE Q.current /\ r # <<>> /\ r[n].item = g
  <2>1. ~it[g].done
    BY <1>2, <1>11
  <2>2. s[n].item = g
    BY <1>1, <1>3, <1>4, <2>1 DEF CallsRebuilt
  <2>3. Q.current
    BY <1>5 DEF GoesOnCall
  <2> QED
    BY <1>6, <1>8, <2>2, <2>3
<1> QED
  BY <1>1, <1>2, <1>3, <1>6, <1>7, <1>9, <1>10, <1>11 DEF CallsRebuilt

(* Text goes to the message that is under way,                              *)
LEMMA TextGrows ==
  ASSUME NEW P \in PartSet, NEW Q, NEW it, NEW it1, NEW tx, NEW tx1, NEW t \in TextItems, NEW frags \in Seq(Nat), frags # <<>>,
         TextsRebuilt(P, it, tx), Follows(Q.text, P.text, frags), Q.texts = P.texts, P.kinds \subseteq Q.kinds,
         ~it[t].done, ~it1[t].done, tx1[t].started, tx1[t].index \in Q.kinds, it1[t].frags > 0,
         (tx[t].started <=> it[t].frags > 0),
         \A u \in TextItems \ {t} : it1[u] = it[u] /\ tx1[u] = tx[u] /\ (tx[u].started => it[u].done)
  PROVE  TextsRebuilt(Q, it1, tx1)
<1>1. PICK s \in Seq(Nat) : s = P.text
  BY DEF PartSet
<1>2. PICK n \in Nat : n = Len(P.texts)
  <2>1. PICK T : T = Seq(Nat)
    OBVIOUS
  <2>2. P.texts \in Seq(T)
    BY <2>1 DEF PartSet
  <2> QED
    BY <2>2
<1>3. Q.text # <<>>
  <2>1. PICK r : r = s \o frags
    OBVIOUS
  <2>2. r # <<>>
    <3>1. Len(r) = Len(s) + Len(frags) /\ Len(frags) > 0 /\ Len(s) >= 0
      BY <2>1
    <3> QED
      BY <3>1
  <2> QED
    BY <1>1, <2>1, <2>2 DEF Follows
<1>4. \E u \in TextItems : tx1[u].started /\ ~it1[u].done
  OBVIOUS
<1>5. \A u \in TextItems : tx1[u].started => tx1[u].index \in Q.kinds
  BY DEF TextsRebuilt
<1>6. PICK A, B : A = Spoken(it) /\ B = Spoken(it1)
  OBVIOUS
<1>7. B = A \cup {t} /\ (t \in A <=> tx[t].started)
  BY <1>6 DEF Spoken
<1>8. IsFiniteSet(A)
  <2>1. A \subseteq Items
    BY <1>6, ItemsAreFinite DEF Spoken
  <2> QED
    BY <2>1, ItemsAreFinite, FS_Subset
<1>9. Cardinality(B) = IF t \in A THEN Cardinality(A) ELSE Cardinality(A) + 1
  BY <1>7, <1>8, FS_AddElement
<1>10. P.text # <<>> <=> \E u \in TextItems : tx[u].started /\ ~it[u].done
  BY DEF TextsRebuilt
<1>11. P.text # <<>> <=> tx[t].started
  BY <1>10
<1>12. n + (IF P.text = <<>> THEN 0 ELSE 1) = Cardinality(A)
  BY <1>2, <1>6 DEF TextsRebuilt
<1>13. n + 1 = Cardinality(B)
  BY <1>7, <1>9, <1>11, <1>12
<1> QED
  BY <1>2, <1>3, <1>4, <1>5, <1>6, <1>13 DEF TextsRebuilt

(* and is one more text when it is done.                                    *)
LEMMA TextEnds ==
  ASSUME NEW P \in PartSet, NEW Q, NEW it, NEW it1, NEW tx, NEW tx1, NEW t \in TextItems, TextsRebuilt(P, it, tx),
         StopsAt(Q, P, tx[t].index), tx[t].started, ~it[t].done, it1[t].done, tx1[t].index = tx[t].index,
         (it1[t].frags > 0 <=> it[t].frags > 0),
         \A u \in TextItems \ {t} : it1[u] = it[u] /\ tx1[u] = tx[u] /\ (tx[u].started => it[u].done)
  PROVE  TextsRebuilt(Q, it1, tx1)
<1>1. P.text # <<>> /\ tx[t].index \in P.kinds
  BY DEF TextsRebuilt
<1>2. PICK T : T = Seq(Nat)
  OBVIOUS
<1>3. PICK s \in Seq(T) : s = P.texts
  BY <1>2 DEF PartSet
<1>4. Q.texts = Append(s, P.text) /\ Q.text = <<>> /\ Q.kinds = P.kinds
  BY <1>1, <1>3 DEF StopsAt
<1>5. PICK n \in Nat : n = Len(s)
  OBVIOUS
<1>6. Len(Q.texts) = n + 1
  <2>1. P.text \in T
    BY <1>2 DEF PartSet
  <2> QED
    BY <1>4, <1>5, <2>1, AppendIs
<1>7. Spoken(it1) = Spoken(it)
  <2>1. \A u \in TextItems : it1[u].frags > 0 <=> it[u].frags > 0
    OBVIOUS
  <2> QED
    BY <2>1 DEF Spoken
<1>8. n + 1 = Cardinality(Spoken(it))
  BY <1>1, <1>3, <1>5 DEF TextsRebuilt
<1>9. ~\E u \in TextItems : tx1[u].started /\ ~it1[u].done
  OBVIOUS
<1>10. \A u \in TextItems : tx1[u].started => tx1[u].index \in Q.kinds
  BY <1>1, <1>4 DEF TextsRebuilt
<1>11. n + 1 + 0 = Cardinality(Spoken(it1))
  BY <1>7, <1>8
<1> QED
  BY <1>4, <1>6, <1>9, <1>10, <1>11 DEF TextsRebuilt

(* What one frame does to the server's side of an answer in turn.           *)
LEMMA TurnGoesOn ==
  ASSUME NEW it, NEW it1, NEW ac, NEW ac1, NEW tx, NEW tx1, NEW why, NEW why1, NEW i \in Items, InTurn(it, ac, tx, why),
         \A j \in Items \ {i} : it1[j] = it[j] /\ (BegunBy(it[j]) => it[j].done),
         \A f \in CallItems \ {i} : ac1[f] = ac[f], \A t \in TextItems \ {i} : tx1[t] = tx[t],
         i \in CallItems => (BegunBy(it1[i]) <=> ac1[i].started) /\ (ac1[i].index # -1 <=> ac1[i].started),
         i \in TextItems => (tx1[i].started <=> it1[i].frags > 0),
         IF i \in CallItems THEN BegunBy(it1[i]) /\ (why1 = "tool_use" \/ (why1 = why /\ BegunBy(it[i]))) ELSE why1 = why
  PROVE  InTurn(it1, ac1, tx1, why1)
<1>1. \A f \in CallItems : (BegunBy(it1[f]) <=> ac1[f].started) /\ (ac1[f].index # -1 <=> ac1[f].started)
  BY ItemsAreFinite DEF InTurn
<1>2. \A t \in TextItems : tx1[t].started <=> it1[t].frags > 0
  BY ItemsAreFinite DEF InTurn
<1>3. \A j, k \in Items : BegunBy(it1[j]) /\ ~it1[j].done /\ BegunBy(it1[k]) /\ ~it1[k].done => j = k
  <2>1. \A j \in Items : BegunBy(it1[j]) /\ ~it1[j].done => j = i
    OBVIOUS
  <2> QED
    BY <2>1
<1>4. why1 = "tool_use" <=> BegunCalls(it1) # {}
  <2>1. CASE i \in CallItems
    <3>1. i \in BegunCalls(it1)
      BY <2>1 DEF BegunCalls
    <3>2. why1 = "tool_use"
      <4>1. CASE why1 = why /\ BegunBy(it[i])
        <5>1. i \in BegunCalls(it)
          BY <2>1, <4>1 DEF BegunCalls
        <5> QED
          BY <4>1, <5>1 DEF InTurn
      <4> QED
        BY <2>1, <4>1
    <3> QED
      BY <3>1, <3>2
  <2>2. CASE i \notin CallItems
    <3>1. BegunCalls(it1) = BegunCalls(it)
      BY <2>2, ItemsAreFinite DEF BegunCalls
    <3> QED
      BY <2>2, <3>1 DEF InTurn
  <2> QED
    BY <2>1, <2>2
<1> QED
  BY <1>1, <1>2, <1>3, <1>4 DEF InTurn

(* What holds of an answer in turn, and the other way round.                *)
LEMMA WasInTurn ==
  ASSUME InTurnInv, BlockInv, style = "sequential", upstream # "ended"
  PROVE  /\ InTurn(item, acc, text, reason) /\ ~Built(sent).failed /\ Built(sent) \in PartSet /\ sent \in Seq(Events)
         /\ CallsRebuilt(Built(sent), item) /\ TextsRebuilt(Built(sent), item, text)
<1>1. sent \in Seq(Events)
  BY DEF BlockInv
<1> QED
  BY <1>1, BuiltIs DEF InTurnInv

LEMMA IsInTurn ==
  ASSUME upstream' # "ended", InTurn(item', acc', text', reason'), ~Built(sent').failed,
         CallsRebuilt(Built(sent'), item'), TextsRebuilt(Built(sent'), item', text')
  PROVE  InTurnInv'
BY DEF InTurnInv

(* A call that has got nothing is owed nothing.                             *)
LEMMA NoneOwed ==
  ASSUME NEW x \in ItemRecords, x.frags = 0, ~x.done
  PROVE  Owed(x) = <<>>
BY DEF Owed, CountTo

(* Each frame in turn keeps the answer as it was sent: a call is added,     *)
LEMMA CallAddedInTurn ==
  ASSUME ResponseInv, BlockInv, InTurnInv, style = "sequential", NEW g \in CallItems, CallAdded(g)
  PROVE  InTurnInv'
<1>1. /\ upstream = "open" /\ upstream' = upstream /\ Indexed /\ ServerShape /\ g \in Items /\ text' = text
      /\ acc \in [CallItems -> Accumulators] /\ ~item[g].done /\ \A j \in Items \ {g} : Begun(j) => item[j].done
  BY DEF CallAdded, MaySend, ResponseInv, Indexed, Items
<1>2. Ongoing /\ InBlocks /\ Underway /\ sent \in Seq(Events)
  BY <1>1, WasOngoing DEF Ongoing
<1>3. PICK P \in PartSet : P = Built(sent) /\ ~P.failed /\ CallsRebuilt(P, item) /\ TextsRebuilt(P, item, text)
  BY <1>1, WasInTurn
<1>4. InTurn(item, acc, text, reason)
  BY <1>1, WasInTurn
<1>5. PICK x \in ItemRecords : x = item[g]
  BY <1>1, ItemIs
<1>6. /\ Announce(g, "named")
      /\ IF acc[g].index # -1 THEN UNCHANGED <<acc, opened, nextIndex, reason, sent>>
         ELSE reason' = "tool_use" /\ WithCall(g, MarkStarted(Fresh(g), g))
  <2>1. PICK how \in {"named"} :
          /\ Announce(g, how)
          /\ IF acc[g].index # -1 THEN UNCHANGED <<acc, opened, nextIndex, reason, sent>>
             ELSE /\ reason' = ReasonOfCalls
                  /\ WithCall(g, IF how = "named" THEN MarkStarted(Fresh(g), g) ELSE [acc |-> Fresh(g), events |-> <<>>])
    BY DEF CallAdded
  <2> QED
    BY <2>1 DEF ReasonOfCalls
<1>7. PICK y : y = [x EXCEPT !.announced = "named"] /\ y = item'[g]
  BY <1>1, <1>5, <1>6, ItemsChange
<1>8. y \in ItemRecords /\ y.frags = x.frags /\ y.done = x.done /\ y.announced = "named"
  BY <1>7 DEF ItemRecords
<1>9. \A j \in Items \ {g} : item'[j] = item[j] /\ (BegunBy(item[j]) => item[j].done)
  <2>1. \A j \in Items \ {g} : item'[j] = item[j]
    BY <1>1, <1>6, ItemsChange
  <2> QED
    BY <1>1, <2>1 DEF Begun, BegunBy
<1>10. BegunBy(item'[g]) /\ ~item'[g].done
  BY <1>1, <1>5, <1>7, <1>8 DEF BegunBy
<1>11. (BegunBy(item[g]) <=> acc[g].started) /\ (acc[g].index # -1 <=> acc[g].started)
  BY <1>4 DEF InTurn
<1>12. \A t \in TextItems : item'[t] = item[t]
  BY <1>9, ItemsAreFinite
<1>13. SameTexts(item, item', text, text')
  BY <1>1, <1>12 DEF SameTexts
<1>14. CASE acc[g].index # -1
  <2>1. acc' = acc /\ reason' = reason /\ sent' = sent
    BY <1>6, <1>14
  <2>2. InTurn(item', acc', text', reason')
    BY <1>1, <1>4, <1>9, <1>10, <1>11, <1>14, <2>1, ItemsAreFinite, TurnGoesOn
  <2>3. SameCalls(item, item')
    <3>1. Owed(y) = Owed(x)
      BY <1>8 DEF Owed
    <3>2. (BegunBy(item'[g]) <=> BegunBy(item[g])) /\ Owed(item'[g]) = Owed(item[g]) /\ (~item'[g].done => ~item[g].done)
      BY <1>1, <1>5, <1>7, <1>10, <1>11, <1>14, <3>1
    <3>3. \A h \in CallItems : h = g \/ item'[h] = item[h]
      BY <1>9, ItemsAreFinite
    <3> QED
      BY <3>2, <3>3 DEF SameCalls
  <2>4. CallsRebuilt(P, item')
    BY <1>3, <2>3, CallsSame
  <2>5. TextsRebuilt(P, item', text')
    BY <1>3, <1>13, TextsSame
  <2> QED
    BY <1>1, <1>3, <2>1, <2>2, <2>4, <2>5, IsInTurn
<1>15. CASE acc[g].index = -1
  <2>1. ~BegunBy(x)
    BY <1>5, <1>11, <1>15
  <2>2. x.frags = 0 /\ ~x.done
    <3>1. MaxFrags \in Nat
      BY ResponseAssumption
    <3> QED
      BY <2>1, <3>1 DEF BegunBy, ItemRecords
  <2>3. Owed(item'[g]) = <<>>
    BY <1>7, <1>8, <2>2, NoneOwed
  <2>4. PICK a \in Accumulators : a = Fresh(g) /\ a.index # -1
    <3>1. nextIndex # -1
      BY <1>1, MadeIs
    <3> QED
      BY <1>1, <1>15, <3>1, FreshIs
  <2>5. PICK b : b = [a EXCEPT !.named = TRUE, !.started = TRUE]
    OBVIOUS
  <2>6. b.index = a.index /\ b.started
    BY <2>4, <2>5 DEF Accumulators
  <2>7. PICK e \in Events : e = StartOf(a.index, g) /\ e.type = "start" /\ e.item = g
    <3>1. PICK z \in Int : z = a.index
      BY DEF Accumulators
    <3>2. <<>> \in Seq(Nat)
      OBVIOUS
    <3>3. IsEvent(StartOf(z, g), "start", z, g, <<>>)
      BY <1>1, <3>2, EventsAre
    <3> QED
      BY <3>1, <3>3 DEF IsEvent
  <2>8. acc' = [acc EXCEPT ![g] = b] /\ sent' = sent \o <<e>> /\ reason' = "tool_use"
    BY <1>6, <1>15, <2>4, <2>5, <2>7 DEF WithCall, MarkStarted, Sends
  <2>9. acc'[g] = b /\ \A h \in CallItems \ {g} : acc'[h] = acc[h]
    BY <1>1, <2>8
  <2>10. PICK Q : Q = Built(sent') /\ Q = Assemble(P, e)
    <3>1. Follows(sent', sent, <<e>>)
      BY <2>8 DEF Follows
    <3> QED
      BY <1>2, <1>3, <3>1, BuiltMore
  <2>11. Begins(Q, P, g)
    BY <1>3, <2>7, <2>10, AssembleStart
  <2>12. CallsRebuilt(Q, item')
    <3>1. \A h \in CallItems \ {g} : item'[h] = item[h] /\ (BegunBy(item[h]) => item[h].done)
      BY <1>9, ItemsAreFinite
    <3> QED
      BY <1>3, <1>5, <1>10, <2>1, <2>3, <2>11, <3>1, CallBegins
  <2>13. TextsRebuilt(Q, item', text')
    <3>1. Q.text = P.text /\ Q.texts = P.texts /\ P.kinds \subseteq Q.kinds
      BY <2>11 DEF Begins
    <3> QED
      BY <1>3, <1>13, <3>1, TextsSame
  <2>14. InTurn(item', acc', text', reason')
    <3>1. acc'[g].started /\ acc'[g].index # -1 /\ \A h \in CallItems \ {g} : acc'[h] = acc[h]
      BY <2>4, <2>6, <2>9
    <3>2. reason' = "tool_use" /\ text' = text /\ g \notin TextItems /\ g \in Items
      BY <1>1, <2>8, ItemsAreFinite
    <3> QED
      BY <1>4, <1>9, <1>10, <3>1, <3>2, TurnGoesOn
  <2>15. ~Q.failed
    BY <1>3, <2>11 DEF Begins
  <2> QED
    BY <1>1, <2>10, <2>12, <2>13, <2>14, <2>15, IsInTurn
<1> QED
  BY <1>14, <1>15

(* its arguments come,                                                      *)
LEMMA ArgumentsInTurn ==
  ASSUME ResponseInv, BlockInv, ArgsInv, InTurnInv, style = "sequential", NEW g \in CallItems, ArgumentsDelta(g) \/ ArgumentsDone(g)
  PROVE  InTurnInv'
<1>1. /\ upstream = "open" /\ upstream' = upstream /\ Indexed /\ ServerShape /\ g \in Items /\ text' = text /\ reason' = reason
      /\ acc \in [CallItems -> Accumulators] /\ ~item[g].done /\ \A j \in Items \ {g} : Begun(j) => item[j].done
      /\ item[g].announced # "no"
  BY DEF ArgumentsDelta, ArgumentsDone, MayAddress, MaySend, ResponseInv, Indexed, Items
<1>2. Ongoing /\ InBlocks /\ Underway /\ sent \in Seq(Events)
  BY <1>1, WasOngoing DEF Ongoing
<1>3. PICK P \in PartSet : P = Built(sent) /\ ~P.failed /\ CallsRebuilt(P, item) /\ TextsRebuilt(P, item, text)
  BY <1>1, WasInTurn
<1>4. InTurn(item, acc, text, reason)
  BY <1>1, WasInTurn
<1>5. PICK x \in ItemRecords : x = item[g]
  BY <1>1, ItemIs
<1>6. PICK n \in Nat : n = x.frags
  BY ResponseAssumption DEF ItemRecords
<1>7. BegunBy(x) /\ ~x.done /\ acc[g].started /\ acc[g].index # -1
  <2>1. BegunBy(item[g])
    BY <1>1 DEF BegunBy
  <2> QED
    BY <1>1, <1>4, <1>5, <2>1 DEF InTurn
<1>8. PICK a \in Accumulators : a = acc[g] /\ a = Fresh(g) /\ Even(a) /\ a.started /\ (a.received <=> n > 0)
  <2>1. Fresh(g) = acc[g]
    BY <1>7 DEF Fresh
  <2>2. ~acc[g].stopped /\ (acc[g].named <=> acc[g].started)
    BY <1>2 DEF Underway
  <2>3. acc[g].received <=> item[g].frags > 0
    BY <1>1 DEF ArgsInv, Carries
  <2> QED
    BY <1>1, <1>5, <1>6, <1>7, <2>1, <2>2, <2>3 DEF Even
<1>9. \A j \in Items \ {g} : item'[j] = item[j] /\ (BegunBy(item[j]) => item[j].done)
  <2>1. \A j \in Items \ {g} : item'[j] = item[j]
    BY <1>1, ItemsChange DEF ArgumentsDelta, ArgumentsDone
  <2> QED
    BY <1>1, <2>1 DEF Begun, BegunBy
<1>10. SameTexts(item, item', text, text')
  <2>1. \A t \in TextItems : item'[t] = item[t]
    BY <1>9, ItemsAreFinite
  <2> QED
    BY <1>1, <2>1 DEF SameTexts
<1>11. \E frags \in Seq(Nat) : \E r : Say(g, x, a, frags, r)
  BY <1>5, <1>8, ArgumentsSay
<1>12. PICK frags \in Seq(Nat) : \E r : Say(g, x, a, frags, r)
  BY <1>11
<1>19. PICK r : Say(g, x, a, frags, r)
  BY <1>12
<1>13. /\ frags # <<>> /\ WithCall(g, r) /\ BegunBy(item'[g])
       /\ \/ Delta(r, a, g, frags) /\ Follows(Owed(item'[g]), Owed(x), frags)
          \/ r.acc = a /\ r.events = <<>> /\ Owed(item'[g]) = Owed(x)
  BY <1>19, Zenon DEF Say, BegunBy
<1>14. acc'[g] = r.acc /\ sent' = sent \o r.events /\ \A h \in CallItems \ {g} : acc'[h] = acc[h]
  BY <1>1, <1>13 DEF WithCall, Sends
<1>15. InTurn(item', acc', text', reason')
  <2>1. r.acc.started /\ r.acc.index = a.index
    BY <1>8, <1>13 DEF Delta
  <2>2. acc'[g].started /\ acc'[g].index # -1 /\ BegunBy(item'[g]) /\ BegunBy(item[g])
    BY <1>5, <1>7, <1>8, <1>13, <1>14, <2>1
  <2>3. \A h \in CallItems \ {g} : acc'[h] = acc[h]
    BY <1>14
  <2>4. reason' = reason /\ text' = text /\ g \notin TextItems /\ g \in Items
    BY <1>1, ItemsAreFinite
  <2> QED
    BY <1>4, <1>9, <2>2, <2>3, <2>4, TurnGoesOn
<1>16. PICK Q : Q = Built(sent')
  OBVIOUS
<1>17. CASE r.acc = a /\ r.events = <<>> /\ Owed(item'[g]) = Owed(x)
  <2>1. sent' = sent
    <3>1. sent \o <<>> = sent
      BY <1>2
    <3> QED
      BY <1>14, <1>17, <3>1
  <2>2. SameCalls(item, item')
    <3>1. \A h \in CallItems : h = g \/ item'[h] = item[h]
      BY <1>9, ItemsAreFinite
    <3> QED
      BY <1>1, <1>5, <1>7, <1>13, <1>17, <3>1 DEF SameCalls
  <2>3. CallsRebuilt(P, item')
    BY <1>3, <2>2, CallsSame
  <2>4. TextsRebuilt(P, item', text')
    BY <1>3, <1>10, TextsSame
  <2> QED
    BY <1>1, <1>3, <1>15, <2>1, <2>3, <2>4, IsInTurn
<1>18. CASE Delta(r, a, g, frags) /\ Follows(Owed(item'[g]), Owed(x), frags)
  <2>1. r.events = <<DeltaOf(a.index, g, frags)>>
    BY <1>8, <1>13, <1>18 DEF Delta
  <2>2. PICK e \in Events : e = DeltaOf(a.index, g, frags) /\ e.type = "delta" /\ e.item = g /\ e.frags = frags
    <3>1. PICK z \in Int : z = a.index
      BY DEF Accumulators
    <3>2. IsEvent(DeltaOf(z, g, frags), "delta", z, g, frags)
      BY <1>1, EventsAre
    <3> QED
      BY <3>1, <3>2 DEF IsEvent
  <2>3. Follows(sent', sent, <<e>>)
    BY <1>14, <2>1, <2>2 DEF Follows
  <2>4. Q = Assemble(P, e)
    BY <1>2, <1>3, <1>16, <2>3, BuiltMore
  <2>5. GoesOnCall(Q, P, frags)
    BY <1>3, <2>2, <2>4, AssembleDelta
  <2>6. CallsRebuilt(Q, item')
    <3>1. \A h \in CallItems \ {g} : item'[h] = item[h]
      BY <1>9, ItemsAreFinite
    <3> QED
      BY <1>3, <1>5, <1>7, <1>13, <1>18, <2>5, <3>1, CallGrows
  <2>7. TextsRebuilt(Q, item', text') /\ ~Q.failed
    <3>1. Q.text = P.text /\ Q.texts = P.texts /\ P.kinds \subseteq Q.kinds /\ Q.failed = P.failed
      BY <2>5 DEF GoesOnCall
    <3> QED
      BY <1>3, <1>10, <3>1, TextsSame
  <2> QED
    BY <1>1, <1>15, <1>16, <2>6, <2>7, IsInTurn
<1> QED
  BY <1>13, <1>17, <1>18

(* a message is added, its text comes, and is done.                         *)
LEMMA TextInTurn ==
  ASSUME ResponseInv, BlockInv, InTurnInv, style = "sequential", NEW t \in TextItems, MessageAdded(t) \/ TextDelta(t) \/ TextDone(t)
  PROVE  InTurnInv'
<1>1. /\ upstream = "open" /\ upstream' = upstream /\ Indexed /\ ServerShape /\ t \in Items /\ acc' = acc /\ reason' = reason
      /\ text \in [TextItems -> TextBlocks] /\ ~item[t].done /\ \A j \in Items \ {t} : Begun(j) => item[j].done
      /\ t \notin CallItems
  BY ItemsAreFinite DEF MessageAdded, TextDelta, TextDone, MayAddress, MaySend, ResponseInv, Indexed, Items
<1>2. Ongoing /\ InBlocks /\ Underway /\ sent \in Seq(Events)
  BY <1>1, WasOngoing DEF Ongoing
<1>3. PICK P \in PartSet : P = Built(sent) /\ ~P.failed /\ CallsRebuilt(P, item) /\ TextsRebuilt(P, item, text)
  BY <1>1, WasInTurn
<1>4. InTurn(item, acc, text, reason)
  BY <1>1, WasInTurn
<1>5. PICK x \in ItemRecords : x = item[t]
  BY <1>1, ItemIs
<1>6. PICK n \in Nat : n = x.frags
  BY ResponseAssumption DEF ItemRecords
<1>7. \A j \in Items \ {t} : item'[j] = item[j] /\ (BegunBy(item[j]) => item[j].done)
  <2>1. \A j \in Items \ {t} : item'[j] = item[j]
    BY <1>1, ItemsChange DEF MessageAdded, TextDelta, TextDone
  <2> QED
    BY <1>1, <2>1 DEF Begun, BegunBy
<1>8. SameCalls(item, item')
  <2>1. \A h \in CallItems : item'[h] = item[h]
    BY <1>1, <1>7, ItemsAreFinite
  <2> QED
    BY <2>1 DEF SameCalls
<1>9. \A f \in BegunCalls(item') : item'[f].done
  <2>1. \A f \in CallItems : item'[f] = item[f] /\ (BegunBy(item[f]) => item[f].done)
    BY <1>1, <1>7, ItemsAreFinite
  <2> QED
    BY <2>1 DEF BegunCalls
<1>10. \A u \in TextItems \ {t} : item'[u] = item[u] /\ (text[u].started => item[u].done)
  <2>1. \A u \in TextItems \ {t} : item'[u] = item[u] /\ (BegunBy(item[u]) => item[u].done)
    BY <1>7, ItemsAreFinite
  <2>2. \A u \in TextItems : text[u].started => BegunBy(item[u])
    BY <1>4 DEF InTurn, BegunBy
  <2> QED
    BY <2>1, <2>2
<1>11. text[t].started <=> item[t].frags > 0
  BY <1>4 DEF InTurn
<1>12. /\ text[t] \in TextBlocks /\ text[t].index \in Int /\ text[t].started \in BOOLEAN /\ text[t].closed \in BOOLEAN
       /\ (text[t].started => text[t].index # -1) /\ nextIndex \in Nat
  BY <1>1, <1>2, TextIs
<1>13. ~text[t].closed
  BY <1>1, <1>2 DEF Underway
<1>14. ASSUME text'[t].started <=> item'[t].frags > 0, \A u \in TextItems \ {t} : text'[u] = text[u]
       PROVE  InTurn(item', acc', text', reason')
  BY <1>1, <1>4, <1>7, <1>14, TurnGoesOn
<1>15. CASE MessageAdded(t)
  <2>1. item'[t] = [x EXCEPT !.announced = "named"]
    <3>1. Announce(t, "named")
      BY <1>15 DEF MessageAdded
    <3> QED
      BY <1>1, <1>5, <3>1, ItemsChange
  <2>2. item'[t].frags = n /\ item'[t].done = x.done
    BY <1>5, <1>6, <2>1 DEF ItemRecords
  <2>3. sent' = sent
    BY <1>15 DEF MessageAdded
  <2>4. /\ text'[t].started = text[t].started /\ (text[t].started => text'[t].index = text[t].index)
        /\ \A u \in TextItems \ {t} : text'[u] = text[u]
    <3>1. CASE text[t].index = -1
      <4>1. text' = [text EXCEPT ![t].index = nextIndex] /\ ~text[t].started
        BY <1>12, <1>15, <3>1 DEF MessageAdded
      <4> QED
        BY <1>1, <1>12, <4>1 DEF TextBlocks
    <3>2. CASE text[t].index # -1
      BY <1>15, <3>2 DEF MessageAdded
    <3> QED
      BY <3>1, <3>2
  <2>5. SameTexts(item, item', text, text')
    BY <1>5, <1>6, <1>10, <2>2, <2>4 DEF SameTexts
  <2>6. CallsRebuilt(P, item') /\ TextsRebuilt(P, item', text')
    BY <1>3, <1>8, <2>5, CallsSame, TextsSame
  <2>7. InTurn(item', acc', text', reason')
    BY <1>5, <1>6, <1>11, <1>14, <2>2, <2>4
  <2> QED
    BY <1>1, <1>3, <2>3, <2>6, <2>7, IsInTurn
<1>16. CASE TextDelta(t)
  <2>1. PICK z \in Int : z = IF text[t].index = -1 THEN nextIndex ELSE text[t].index
    BY <1>12
  <2>2. PICK frags \in Seq(Nat) : frags = <<n + 1>> /\ frags # <<>>
    <3>1. <<n + 1>> \in Seq(Nat) /\ <<n + 1>> # <<>>
      OBVIOUS
    <3> QED
      BY <3>1
  <2>3. PICK b : b = [index |-> z, started |-> TRUE, closed |-> FALSE] /\ text' = [text EXCEPT ![t] = b]
    BY <1>16, <2>1 DEF TextDelta
  <2>4. text'[t].index = z /\ text'[t].started /\ \A u \in TextItems \ {t} : text'[u] = text[u]
    BY <1>1, <2>3
  <2>5. item'[t] = [x EXCEPT !.frags = @ + 1]
    BY <1>1, <1>5, <1>16, ItemsChange DEF TextDelta
  <2>6. item'[t].frags = n + 1 /\ item'[t].done = x.done /\ item'[t].frags > 0
    BY <1>5, <1>6, <2>5 DEF ItemRecords
  <2>7. PICK d \in Events : d = StartOf(z, t) /\ d.type = "start" /\ d.index = z /\ d.item = t
    <3>1. IsEvent(StartOf(z, t), "start", z, t, <<>>)
      BY <1>1, <2>2, EventsAre
    <3> QED
      BY <3>1 DEF IsEvent
  <2>8. PICK e \in Events : e = DeltaOf(z, t, frags) /\ e.type = "delta" /\ e.item = t /\ e.frags = frags
    <3>1. IsEvent(DeltaOf(z, t, frags), "delta", z, t, frags)
      BY <1>1, <2>2, EventsAre
    <3> QED
      BY <3>1 DEF IsEvent
  <2>9. sent' = sent \o ((IF text[t].started THEN <<>> ELSE <<d>>) \o <<e>>)
    BY <1>5, <1>6, <1>16, <2>1, <2>2, <2>7, <2>8 DEF TextDelta, Sends
  <2>10. \E w \in Seq(Events) : /\ Follows(sent', w, <<e>>)
                                /\ IF text[t].started THEN w = sent ELSE Follows(w, sent, <<d>>)
    <3>1. CASE text[t].started
      <4>1. <<>> \o <<e>> = <<e>>
        OBVIOUS
      <4> QED
        BY <1>2, <2>9, <3>1, <4>1 DEF Follows
    <3>2. CASE ~text[t].started
      <4>1. PICK c1 \in Seq(Events), c2 \in Seq(Events) : c1 = <<d>> /\ c2 = <<e>>
        BY OneIs
      <4>2. Joins(sent, c1, c2)
        BY <1>2, JoinThree
      <4>3. PICK w : w = sent \o c1
        OBVIOUS
      <4>4. sent' = w \o c2
        BY <2>9, <3>2, <4>1, <4>2, <4>3 DEF Joins
      <4>5. w \in Seq(Events)
        BY <1>2, <4>3
      <4> QED
        BY <3>2, <4>1, <4>3, <4>4, <4>5 DEF Follows
    <3> QED
      BY <3>1, <3>2
  <2>11. PICK w \in Seq(Events) : /\ Follows(sent', w, <<e>>)
                                  /\ IF text[t].started THEN w = sent ELSE Follows(w, sent, <<d>>)
    BY <2>10
  <2>12. PICK M1 \in PartSet : M1 = Built(w)
    BY BuiltIs
  <2>13. /\ ~M1.failed /\ M1.tools = P.tools /\ M1.current = P.current /\ M1.text = P.text /\ M1.texts = P.texts
         /\ P.kinds \subseteq M1.kinds /\ z \in M1.kinds
    <3>1. CASE text[t].started
      <4>1. M1 = P
        BY <1>3, <2>11, <2>12, <3>1
      <4>2. z = text[t].index
        BY <1>12, <2>1, <3>1
      <4> QED
        BY <1>3, <3>1, <4>1, <4>2 DEF TextsRebuilt
    <3>2. CASE ~text[t].started
      <4>1. M1 = Assemble(P, d)
        BY <1>2, <1>3, <2>11, <2>12, <3>2, BuiltMore
      <4>2. BeginsText(M1, P, z)
        BY <1>1, <1>3, <2>7, <4>1, AssembleStart
      <4> QED
        BY <1>3, <4>2 DEF BeginsText
    <3> QED
      BY <3>1, <3>2
  <2>14. PICK Q : Q = Built(sent') /\ Q = Assemble(M1, e)
    BY <2>11, <2>12, BuiltMore
  <2>15. GoesOnText(Q, M1, frags)
    BY <1>1, <2>8, <2>13, <2>14, AssembleDelta
  <2>16. /\ ~Q.failed /\ Q.tools = P.tools /\ Q.current = P.current /\ Q.text = P.text \o frags /\ Q.texts = P.texts
         /\ P.kinds \subseteq Q.kinds /\ z \in Q.kinds
    BY <2>13, <2>15 DEF GoesOnText
  <2>17. CallsRebuilt(Q, item')
    BY <1>3, <1>8, <2>16, CallsSame
  <2>18. TextsRebuilt(Q, item', text')
    <3>1. ~item[t].done /\ ~item'[t].done
      BY <1>1, <1>5, <2>6
    <3>2. \A u \in TextItems \ {t} : item'[u] = item[u] /\ text'[u] = text[u] /\ (text[u].started => item[u].done)
      BY <1>10, <2>4
    <3>3. Follows(Q.text, P.text, frags)
      BY <2>16 DEF Follows
    <3>4. frags \in Seq(Nat) /\ frags # <<>>
      BY <2>2
    <3>5. text'[t].started /\ text'[t].index \in Q.kinds /\ item'[t].frags > 0
      BY <2>4, <2>6, <2>16
    <3>6. Q.texts = P.texts /\ P.kinds \subseteq Q.kinds
      BY <2>16
    <3> QED
      BY <1>3, <1>11, <3>1, <3>2, <3>3, <3>4, <3>5, <3>6, TextGrows
  <2>19. InTurn(item', acc', text', reason')
    BY <1>14, <2>4, <2>6
  <2> QED
    BY <1>1, <2>14, <2>16, <2>17, <2>18, <2>19, IsInTurn
<1>17. CASE TextDone(t)
  <2>1. item'[t] = [x EXCEPT !.done = TRUE]
    BY <1>1, <1>5, <1>17, ItemsChange DEF TextDone
  <2>2. item'[t].frags = n /\ item'[t].done
    BY <1>5, <1>6, <2>1 DEF ItemRecords
  <2>3. CASE ~text[t].started
    <3>1. text' = text /\ sent' = sent
      BY <1>17, <2>3 DEF TextDone, CloseText
    <3>2. SameTexts(item, item', text, text')
      BY <1>5, <1>6, <1>10, <2>2, <2>3, <3>1 DEF SameTexts
    <3>3. CallsRebuilt(P, item') /\ TextsRebuilt(P, item', text')
      BY <1>3, <1>8, <3>1, <3>2, CallsSame, TextsSame
    <3>4. InTurn(item', acc', text', reason')
      BY <1>5, <1>6, <1>11, <1>14, <2>2, <3>1
    <3> QED
      BY <1>1, <1>3, <3>1, <3>3, <3>4, IsInTurn
  <2>4. CASE text[t].started
    <3>1. text' = [text EXCEPT ![t].closed = TRUE] /\ Sends(<<StopOf(text[t].index, t)>>)
      BY <1>13, <1>17, <2>4 DEF TextDone, CloseText
    <3>2. /\ text'[t].index = text[t].index /\ text'[t].started = text[t].started
          /\ \A u \in TextItems \ {t} : text'[u] = text[u]
      BY <1>1, <1>12, <3>1 DEF TextBlocks
    <3>3. PICK z \in Int : z = text[t].index
      BY <1>12
    <3>4. PICK e \in Events : e = StopOf(z, t) /\ e.type = "stop" /\ e.index = z
      <4>1. <<>> \in Seq(Nat)
        OBVIOUS
      <4>2. IsEvent(StopOf(z, t), "stop", z, t, <<>>)
        BY <1>1, <4>1, EventsAre
      <4> QED
        BY <4>2 DEF IsEvent
    <3>5. Follows(sent', sent, <<e>>)
      BY <3>1, <3>3, <3>4 DEF Sends, Follows
    <3>6. PICK Q : Q = Built(sent') /\ Q = Assemble(P, e)
      BY <1>2, <1>3, <3>5, BuiltMore
    <3>7. StopsAt(Q, P, z)
      BY <1>3, <3>4, <3>6, AssembleStop
    <3>8. Q.tools = P.tools /\ ~Q.failed
      BY <1>3, <3>7 DEF StopsAt
    <3>9. CallsRebuilt(Q, item')
      BY <1>3, <1>8, <1>9, <3>8, CallsSame
    <3>10. TextsRebuilt(Q, item', text')
      <4>1. item'[t].frags > 0 <=> item[t].frags > 0
        BY <1>5, <1>6, <2>2
      <4>2. \A u \in TextItems \ {t} : item'[u] = item[u] /\ text'[u] = text[u] /\ (text[u].started => item[u].done)
        BY <1>10, <3>2
      <4>3. StopsAt(Q, P, text[t].index)
        BY <3>3, <3>7
      <4> QED
        BY <1>1, <1>3, <2>2, <2>4, <3>2, <4>1, <4>2, <4>3, TextEnds
    <3>11. InTurn(item', acc', text', reason')
      BY <1>5, <1>6, <1>11, <1>14, <2>2, <3>2
    <3> QED
      BY <1>1, <3>6, <3>8, <3>9, <3>10, <3>11, IsInTurn
  <2> QED
    BY <2>3, <2>4
<1> QED
  BY <1>15, <1>16, <1>17

(* What is left of the answer when it is over.                              *)
WholeOf(x) == IF x.frags = 0 THEN <<1>> ELSE CountTo(x.frags)
Returned(P, it) ==
  /\ \A k \in 1..Len(P.tools) : P.tools[k].input = WholeOf(it[P.tools[k].item])
  /\ Len(P.tools) = Cardinality(BegunCalls(it))
  /\ Len(P.texts) = Cardinality(Spoken(it))
  /\ ((P.tools # <<>>) <=> (P.stop = "tool_use"))

(* Nothing is sent, and nothing is rebuilt.                                 *)
LEMMA InTurnInitially == ResponseInit => InTurnInv
<1> SUFFICES ASSUME ResponseInit PROVE InTurnInv
  OBVIOUS
<1>1. /\ upstream = "open" /\ sent = <<>> /\ reason = "end_turn"
      /\ \A f \in CallItems : acc[f].started = FALSE /\ acc[f].index = -1
      /\ \A t \in TextItems : text[t].started = FALSE
  BY DEF ResponseInit, Unmade, NewAccumulator, NoText
<1>2. \A i \in Items : item[i].announced = "no" /\ item[i].frags = 0 /\ item[i].done = FALSE
  BY DEF ResponseInit
<1>3. \A i \in Items : ~BegunBy(item[i]) /\ ~(item[i].frags > 0)
  BY <1>2 DEF BegunBy
<1>4. BegunCalls(item) = {} /\ Spoken(item) = {}
  BY <1>3, ItemsAreFinite DEF BegunCalls, Spoken
<1>5. InTurn(item, acc, text, reason)
  BY <1>1, <1>3, <1>4, ItemsAreFinite DEF InTurn
<1>6. Built(sent) = NoParts
  BY <1>1, BuiltNothing
<1>7. PICK none : none = <<>>
  OBVIOUS
<1>8. PICK P : P = Built(sent) /\ P.texts = none /\ P.tools = none /\ P.text = none /\ P.failed = FALSE
  BY <1>6, <1>7 DEF NoParts
<1>9. Len(none) = 0 /\ (\A k \in 1..0 : FALSE) /\ Cardinality({}) = 0
  BY <1>7, FS_EmptySet
<1>10. CallsRebuilt(P, item)
  BY <1>4, <1>8, <1>9 DEF CallsRebuilt
<1>11. TextsRebuilt(P, item, text)
  BY <1>1, <1>4, <1>7, <1>8, <1>9 DEF TextsRebuilt
<1> QED
  BY <1>1, <1>5, <1>8, <1>10, <1>11 DEF InTurnInv

(* Nothing is late where every call is named first.                         *)
LEMMA CompletedInTurn ==
  ASSUME ResponseInv, BlockInv, InTurnInv, style = "sequential", Completed
  PROVE  InTurnInv'
<1>1. /\ upstream = "open" /\ upstream' = "completed" /\ item' = item /\ text' = text /\ reason' = reason
      /\ acc \in [CallItems -> Accumulators]
  BY DEF Completed, ResponseInv, Indexed
<1>2. /\ InTurn(item, acc, text, reason) /\ ~Built(sent).failed /\ sent \in Seq(Events)
      /\ CallsRebuilt(Built(sent), item) /\ TextsRebuilt(Built(sent), item, text)
  BY <1>1, WasInTurn
<1>3. \A f \in CallItems : ~Startable(f)
  BY <1>2 DEF Startable, InTurn
<1>4. acc' = acc
  BY <1>1, <1>3 DEF Completed
<1>5. PICK S : S = {f \in CallItems : Startable(f)}
  OBVIOUS
<1>6. S = {} /\ IsFiniteSet(S)
  BY <1>3, <1>5, FS_EmptySet
<1>7. PICK late \in SetToSeqs(S) : Sends([k \in 1..Len(late) |-> StartOf(acc[late[k]].index, late[k])])
  BY <1>5 DEF Completed
<1>8. Len(late) \in Nat /\ late \in [1..Len(late) -> S]
  BY <1>6, SeqsOf
<1>9. Len(late) = 0
  BY <1>6, <1>8
<1>10. [k \in 1..Len(late) |-> StartOf(acc[late[k]].index, late[k])] = <<>>
  BY <1>9
<1>11. sent' = sent
  BY <1>2, <1>7, <1>10 DEF Sends
<1> QED
  BY <1>1, <1>2, <1>4, <1>11, IsInTurn

(* An answer that failed is not one that was returned.                      *)
LEMMA FailsInTurn ==
  ASSUME BlockInv, StreamFails
  PROVE  InTurnInv'
<1>1. upstream' = "ended" /\ sent' = sent \o <<ErrorEvent>> /\ sent \in Seq(Events)
  BY DEF StreamFails, Sends, BlockInv
<1>2. PICK e \in Events : e = ErrorEvent /\ e.type = "error"
  <2>1. <<>> \in Seq(Nat) /\ 0 \in Int /\ "none" \in Items \cup {"none", "end_turn", "tool_use"}
    OBVIOUS
  <2>2. IsEvent(Event("error", 0, "none", <<>>), "error", 0, "none", <<>>)
    BY <2>1, EventIs
  <2> QED
    BY <2>2 DEF ErrorEvent, IsEvent
<1>3. Last(sent') = e
  <2>1. PICK n \in Nat : n = Len(sent)
    BY <1>1
  <2>2. Len(sent') = n + 1 /\ sent'[n + 1] = e
    BY <1>1, <1>2, <2>1
  <2> QED
    BY <2>2 DEF Last
<1>4. ~EndsWell'
  BY <1>2, <1>3 DEF EndsWell
<1> QED
  BY <1>1, <1>4 DEF InTurnInv, RebuiltAsSent

(* The sweep finds no text under way, and changes nothing.                  *)
LEMMA SweptAway ==
  ASSUME NEW out \in Seq(Events), ~Built(out).failed, Built(out).text = <<>>
  PROVE  \A ev \in Seq(Stops) : \A w : Follows(w, out, ev) =>
           /\ w \in Seq(Events) /\ ~Built(w).failed /\ Built(w).tools = Built(out).tools
           /\ Built(w).texts = Built(out).texts /\ Built(w).text = <<>>
<1>1. PICK Holds : Holds = {w \in Seq(Events) : /\ ~Built(w).failed /\ Built(w).tools = Built(out).tools
                                                /\ Built(w).texts = Built(out).texts /\ Built(w).text = <<>>}
  OBVIOUS
<1>2. PICK Good : Good = {x \in Seq(Stops) : \A w : Follows(w, out, x) => w \in Holds}
  OBVIOUS
<1>3. <<>> \in Good
  <2>1. <<>> \in Seq(Stops) /\ out \o <<>> = out
    OBVIOUS
  <2>2. out \in Holds
    BY <1>1
  <2> QED
    BY <1>2, <2>1, <2>2 DEF Follows
<1>4. ASSUME NEW x \in Seq(Stops), NEW e \in Stops, x \in Good PROVE Append(x, e) \in Good
  <2>1. PICK y : Follows(y, out, x)
    BY DEF Follows
  <2>2. y \in Holds /\ e \in Events /\ e.type = "stop" /\ x \in Seq(Events)
    BY <1>2, <1>4, <2>1 DEF Stops
  <2>3. y \in Seq(Events)
    BY <1>1, <2>2
  <2>4. PICK more : more = Append(x, e)
    OBVIOUS
  <2>5. more \in Seq(Stops)
    BY <2>4
  <2>6. PICK one \in Seq(Events) : one = <<e>>
    BY <2>2, OneIs
  <2>7. PICK z : Follows(z, y, one)
    BY DEF Follows
  <2>8. out \o more = Append(y, e)
    BY <2>1, <2>2, <2>4, JoinLast DEF Follows
  <2>9. Append(y, e) = z
    BY <2>2, <2>3, <2>6, <2>7 DEF Follows
  <2>10. z \in Seq(Events) /\ Built(z) = Assemble(Built(y), e)
    <3>1. Follows(z, y, <<e>>)
      BY <2>6, <2>7
    <3> QED
      BY <2>2, <2>3, <3>1, BuiltMore
  <2>11. PICK P \in PartSet : P = Built(y)
    BY <2>3, BuiltIs
  <2>12. ~P.failed /\ P.tools = Built(out).tools /\ P.texts = Built(out).texts /\ P.text = <<>>
    BY <1>1, <2>2, <2>11
  <2>13. StopsAt(Built(z), P, e.index)
    BY <2>2, <2>10, <2>11, <2>12, AssembleStop
  <2>14. z \in Holds
    BY <1>1, <2>10, <2>12, <2>13 DEF StopsAt
  <2>15. \A v : Follows(v, out, more) => v = z
    BY <2>8, <2>9 DEF Follows
  <2> QED
    BY <1>2, <2>4, <2>5, <2>14, <2>15
<1>5. \A x \in Seq(Stops) : x \in Good
  BY <1>3, <1>4, BySuffix
<1> QED
  BY <1>1, <1>2, <1>5

(* What is left of an answer in turn is what the server sent.               *)
LEMMA IsReturned ==
  ASSUME Returned(Built(sent'), item')
  PROVE  RebuiltAsSent'
<1>1. PICK P : P = Built(sent')
  OBVIOUS
<1>2. Assembled' = P
  BY <1>1 DEF Assembled, Built
<1>3. PICK it : it = item'
  OBVIOUS
<1>4. /\ Len(P.tools) = Cardinality({f \in CallItems : Begun(f)})'
      /\ Len(P.texts) = Cardinality({t \in TextItems : item[t].frags > 0})'
  <2>1. {f \in CallItems : Begun(f)}' = BegunCalls(it)
    BY <1>3 DEF Begun, BegunCalls, BegunBy
  <2>2. {t \in TextItems : item[t].frags > 0}' = Spoken(it)
    BY <1>3 DEF Spoken
  <2> QED
    BY <1>1, <1>3, <2>1, <2>2 DEF Returned
<1>5. \A k \in 1..Len(P.tools) : P.tools[k].input = Whole(P.tools[k].item)'
  BY <1>1, <1>3 DEF Returned, Whole, WholeOf, CountTo
<1>6. (P.tools # <<>>) = (P.stop = "tool_use")
  BY <1>1 DEF Returned
<1> QED
  BY <1>2, <1>4, <1>5, <1>6 DEF RebuiltAsSent

(* The end of the body closes what it finds, and the answer is whole.       *)
LEMMA EndsInTurn ==
  ASSUME ResponseInv, BlockInv, InTurnInv, style = "sequential", BodyEnds
  PROVE  InTurnInv'
<1>1. /\ upstream # "ended" /\ upstream' = "ended" /\ item' = item /\ Indexed /\ reason \in {"end_turn", "tool_use"}
  BY DEF BodyEnds, ResponseInv, ServerShape
<1>2. sent \in Seq(Events) /\ InBlocks /\ Opened /\ Underway
  BY <1>1 DEF BlockInv
<1>3. PICK P \in PartSet : P = Built(sent) /\ ~P.failed /\ CallsRebuilt(P, item) /\ TextsRebuilt(P, item, text)
  BY <1>1, WasInTurn
<1>4. InTurn(item, acc, text, reason)
  BY <1>1, WasInTurn
<1> SUFFICES ASSUME \A i \in Items : BegunBy(item[i]) => item[i].done
             PROVE  Returned(Built(sent'), item')
  <2>1. ASSUME ~\A i \in Items : BegunBy(item[i]) => item[i].done PROVE RebuiltAsSent'
    <3>1. ~(\A i \in Items : Begun(i) => item[i].done)'
      BY <1>1, <2>1 DEF Begun, BegunBy
    <3> QED
      BY <3>1 DEF RebuiltAsSent
  <2> QED
    BY <1>1, <2>1, IsReturned DEF InTurnInv
<1>5. P.text = <<>>
  <2>1. \A t \in TextItems : text[t].started => BegunBy(item[t])
    BY <1>4 DEF InTurn, BegunBy
  <2>2. \A t \in TextItems : text[t].started => item[t].done
    BY <2>1, ItemsAreFinite
  <2> QED
    BY <1>3, <2>2 DEF TextsRebuilt
<1>6. PICK ev : ev = TextSweep \o CallSweep
  OBVIOUS
<1>7. PICK p \in Seq(Single(Stops)) : ev = FlattenSeq(p)
  BY <1>1, <1>2, <1>6, SweepsAre
<1>8. ev \in Seq(Stops) /\ ev \in Seq(Events)
  <2>1. ev \in Seq(Stops)
    BY <1>7, SweepIs DEF SweepOf
  <2> QED
    BY <2>1 DEF Stops
<1>9. PICK e \in Events : e = Event("end", 0, reason, <<>>) /\ e.type = "end" /\ e.item = reason
  <2>1. <<>> \in Seq(Nat) /\ 0 \in Int /\ reason \in Items \cup {"none", "end_turn", "tool_use"}
    BY <1>1
  <2>2. IsEvent(Event("end", 0, reason, <<>>), "end", 0, reason, <<>>)
    BY <2>1, EventIs
  <2> QED
    BY <2>2 DEF IsEvent
<1>10. PICK w : Follows(w, sent, ev)
  BY DEF Follows
<1>11. /\ w \in Seq(Events) /\ ~Built(w).failed /\ Built(w).tools = P.tools
       /\ Built(w).texts = P.texts /\ Built(w).text = <<>>
  BY <1>2, <1>3, <1>5, <1>8, <1>10, SweptAway
<1>12. Follows(sent', w, <<e>>)
  <2>1. PICK one \in Seq(Events) : one = <<e>>
    BY OneIs
  <2>2. sent' = sent \o (ev \o one)
    BY <1>6, <1>9, <2>1 DEF BodyEnds, Sends
  <2>3. Joins(sent, ev, one)
    BY <1>2, <1>8, JoinThree
  <2> QED
    BY <1>10, <2>1, <2>2, <2>3 DEF Joins, Follows
<1>13. PICK Q : Q = Built(sent') /\ Q = Assemble(Built(w), e)
  BY <1>11, <1>12, BuiltMore
<1>14. Q.tools = P.tools /\ Q.texts = P.texts /\ Q.stop = reason
  <2>1. EndsIn(Q, Built(w), e.item)
    BY <1>9, <1>11, <1>13, BuiltIs, AssembleEnd
  <2> QED
    BY <1>9, <1>11, <2>1 DEF EndsIn
<1>15. PICK n \in Nat : n = Len(P.tools)
  BY DEF PartSet
<1>16. ASSUME NEW k \in 1..n PROVE P.tools[k].input = WholeOf(item[P.tools[k].item])
  <2>1. PICK f \in BegunCalls(item) : f = P.tools[k].item /\ P.tools[k].input = Owed(item[f])
    BY <1>3, <1>15 DEF CallsRebuilt
  <2>2. item[f].done
    BY <2>1, ItemsAreFinite DEF BegunCalls
  <2> QED
    BY <2>1, <2>2 DEF Owed, WholeOf
<1>17. n = Cardinality(BegunCalls(item))
  BY <1>3, <1>15 DEF CallsRebuilt
<1>18. Len(P.texts) = Cardinality(Spoken(item))
  <2>1. PICK m \in Nat : m = Len(P.texts)
    <3>1. PICK T : T = Seq(Nat)
      OBVIOUS
    <3>2. P.texts \in Seq(T)
      BY <3>1 DEF PartSet
    <3> QED
      BY <3>2
  <2> QED
    BY <1>3, <1>5, <2>1 DEF TextsRebuilt
<1>19. P.tools # <<>> <=> reason = "tool_use"
  <2>1. P.tools # <<>> <=> n # 0
    BY <1>15 DEF PartSet
  <2>2. PICK B : B = BegunCalls(item)
    OBVIOUS
  <2>3. IsFiniteSet(B)
    <3>1. B \subseteq Items
      BY <2>2, ItemsAreFinite DEF BegunCalls
    <3> QED
      BY <3>1, ItemsAreFinite, FS_Subset
  <2>4. n = 0 <=> B = {}
    BY <1>17, <2>2, <2>3, FS_EmptySet
  <2>5. reason = "tool_use" <=> B # {}
    BY <1>4, <2>2 DEF InTurn
  <2> QED
    BY <2>1, <2>4, <2>5
<1> QED
  BY <1>1, <1>13, <1>14, <1>15, <1>16, <1>17, <1>18, <1>19 DEF Returned

(* Every step keeps an answer in turn; and it is rebuilt as it was sent.    *)
LEMMA InTurnStep == ResponseInv /\ BlockInv /\ ArgsInv /\ InTurnInv /\ [ResponseNext]_responseVars => InTurnInv'
<1> SUFFICES ASSUME ResponseInv, BlockInv, ArgsInv, InTurnInv, [ResponseNext]_responseVars PROVE InTurnInv'
  OBVIOUS
<1>1. CASE UNCHANGED responseVars
  <2>1. /\ style' = style /\ item' = item /\ upstream' = upstream /\ acc' = acc /\ text' = text
        /\ reason' = reason /\ sent' = sent
    BY <1>1 DEF responseVars
  <2>2. Assembled' = Built(sent')
    BY DEF Assembled, Built
  <2>3. Assembled' = Assembled
    BY <2>1, <2>2, AssembledIs
  <2>4. \A i \in Items : Whole(i)' = Whole(i) /\ (Begun(i)' <=> Begun(i))
    BY <2>1 DEF Whole, Begun
  <2>5. CASE upstream = "ended" /\ style = "sequential"
    <3>1. RebuiltAsSent
      BY <2>5 DEF InTurnInv
    <3>2. RebuiltAsSent'
      BY <2>1, <2>3, <2>4, <3>1, ItemsAreFinite DEF RebuiltAsSent, EndsWell, Whole, Begun
    <3> QED
      BY <2>1, <2>5, <3>2 DEF InTurnInv
  <2>6. CASE upstream # "ended" \/ style # "sequential"
    BY <2>1, <2>6 DEF InTurnInv
  <2> QED
    BY <2>5, <2>6
<1>2. CASE ResponseNext /\ style # "sequential"
  <2>1. style' = style
    BY <1>2 DEF ResponseNext, CallAdded, ArgumentsDelta, ArgumentsDone, MessageAdded, TextDelta, TextDone, Completed, StreamFails, BodyEnds
  <2> QED
    BY <1>2, <2>1 DEF InTurnInv
<1>3. CASE style = "sequential" /\ \E g \in CallItems : CallAdded(g) \/ ArgumentsDelta(g) \/ ArgumentsDone(g)
  BY <1>3, CallAddedInTurn, ArgumentsInTurn
<1>4. CASE style = "sequential" /\ \E t \in TextItems : MessageAdded(t) \/ TextDelta(t) \/ TextDone(t)
  BY <1>4, TextInTurn
<1>5. CASE style = "sequential" /\ (Completed \/ StreamFails \/ BodyEnds)
  BY <1>5, CompletedInTurn, FailsInTurn, EndsInTurn
<1> QED
  BY <1>1, <1>2, <1>3, <1>4, <1>5 DEF ResponseNext

LEMMA InTurnGives == InTurnInv => RebuiltAsSent
BY DEF InTurnInv, RebuiltAsSent

-----------------------------------------------------------------------------
StreamsInv == ResponseInv /\ BlockInv /\ ArgsInv /\ InTurnInv /\ FramesInv

(* For any number of texts, calls and fragments, and any limits of frames:  *)
(* the blocks of a rebuilt answer are started once, get their deltas while  *)
(* they are open and are all stopped where the answer ends well; a call     *)
(* that was named gets its arguments once, whether they come in deltas, at  *)
(* the end, or before its name; the loop makes of an answer in turn the     *)
(* calls and the texts that were sent; a request pairs every result with    *)
(* its call; and a body gives the same frames however it is cut             *)
(* (responses.go:283-353, 445-792, sse.go:51-180).                          *)
THEOREM StreamsAreAlwaysRebuilt == LanesAndModelsSpec => []StreamsAreRebuilt
<1>1. LanesAndModelsInit => StreamsInv
  BY ResponseInitially, BlocksInitially, ArgsInitially, InTurnInitially, FramesInit DEF LanesAndModelsInit, StreamsInv
<1>2. StreamsInv /\ [LanesAndModelsNext]_<<part, lanesVars, modelsVars>> => StreamsInv'
  BY PartSteps, ResponseStep, BlocksStep, ArgsStep, InTurnStep, FramesStep DEF StreamsInv
<1>3. StreamsInv => StreamsAreRebuilt
  BY BlocksWell, ArgsGive, InTurnGives, RequestsAlwaysPaired, FramesHold DEF StreamsInv, StreamsAreRebuilt
<1>. QED
  BY <1>1, <1>2, <1>3, PTL DEF LanesAndModelsSpec
=============================================================================
