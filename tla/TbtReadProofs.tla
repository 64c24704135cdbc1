--------------------------- MODULE TbtReadProofs ----------------------------
(***************************************************************************)
(* Proofs about Tbt, for any number of processes, any calls, any files and *)
(* any executables: what the writers of hash files leave, what the readers *)
(* make of it, and what they list.                                         *)
(***************************************************************************)
EXTENDS TbtProofs

-----------------------------------------------------------------------------
(***************************************************************************)
(* What the one writer of a file has written of what it printed.           *)
(***************************************************************************)

(* f is the part of t's output that has been written: whole lines, and     *)
(* perhaps the beginning of the next.                                      *)
Written(t, f) ==
  /\ Len(f) \in {t.flushed, t.flushed + 1}
  /\ \A k \in 1 .. t.flushed : f[k] = t.out[k]
  /\ Len(f) = t.flushed + 1 => /\ t.flushed < Len(t.out)
                               /\ f[t.flushed + 1] = Cut(t.out[t.flushed + 1])

(* g is f, written on.                                                     *)
Extends(f, g) ==
  /\ Len(f) <= Len(g)
  /\ \A k \in 1 .. Len(f) : f[k].end => g[k] = f[k]

(* Every line of f is written, and a name is followed by a hash.           *)
NamesFollowed(f) ==
  \A k \in 1 .. Len(f) :
    /\ f[k].kind # "hole"
    /\ f[k].kind = "name" =>
         f[k].text \in Names /\ k < Len(f) /\ IsHash(f[k + 1])

HashesUnder(f) ==
  /\ NamesFollowed(f)
  /\ \A k \in 1 .. Len(f) : IsHash(f[k]) =>
       \E q \in 1 .. k - 1 : /\ Under(f, q, k)
                            /\ f[k].text = Sample[f[q].text][f[k].kind]

(* The same of bare arrays: f, of a places, has m of the o in out.         *)
Holds(f, a, out, m, o) ==
  /\ a = m \/ (a = m + 1 /\ m < o /\ f[m + 1] = Cut(out[m + 1]))
  /\ \A k \in 1 .. m : f[k] = out[k]

(* g, of b places, is f after l lines were written behind the first m.     *)
Overwrites(g, b, f, a, m, lines, l) ==
  /\ b = IF m + l >= a THEN m + l ELSE a
  /\ \A k \in 1 .. b : g[k] = IF k > m /\ k <= m + l THEN lines[k - m]
                              ELSE IF k <= a THEN f[k]
                              ELSE Hole

(* The l lines are the next n of out, and the beginning of one perhaps.    *)
Continues(lines, l, out, m, n, o) ==
  /\ m + n <= o
  /\ \A k \in 1 .. n : lines[k] = out[m + k]
  /\ l = n \/ (l = n + 1 /\ m + n < o /\ lines[n + 1] = Cut(out[m + (n + 1)]))

LEMMA ArrayWrittenOn ==
  ASSUME NEW m \in Nat, NEW o \in Nat, NEW a \in Nat, NEW l \in Nat,
         NEW n \in Nat, NEW b \in Nat, NEW f, NEW g, NEW lines, NEW out,
         Holds(f, a, out, m, o), Overwrites(g, b, f, a, m, lines, l),
         Continues(lines, l, out, m, n, o)
  PROVE  /\ a <= b
         /\ \A k \in 1 .. m : g[k] = f[k]
         /\ Holds(g, b, out, m + n, o)
<1>0. /\ m + n <= o
      /\ a = m \/ (a = m + 1 /\ m < o /\ f[m + 1] = Cut(out[m + 1]))
      /\ \A k \in 1 .. m : f[k] = out[k]
      /\ b = IF m + l >= a THEN m + l ELSE a
      /\ \A k \in 1 .. b : g[k] = IF k > m /\ k <= m + l THEN lines[k - m]
                                  ELSE IF k <= a THEN f[k]
                                  ELSE Hole
      /\ \A k \in 1 .. n : lines[k] = out[m + k]
      /\ l = n \/ (l = n + 1 /\ m + n < o /\ lines[n + 1] = Cut(out[m + (n + 1)]))
  BY DEF Holds, Overwrites, Continues
<1>1. /\ m + l <= b /\ a <= b /\ b \in {m + n, (m + n) + 1}
      /\ b = m + l \/ (l = 0 /\ n = 0 /\ b = m + 1 /\ a = m + 1)
  BY <1>0
<1>2. ASSUME NEW k \in 1 .. m  PROVE g[k] = f[k] /\ g[k] = out[k]
  <2>1. k \in 1 .. b /\ ~(k > m) /\ k <= a
    BY <1>0, <1>1
  <2> QED  BY <1>0, <2>1
<1>3. ASSUME NEW k \in 1 .. l  PROVE g[m + k] = lines[k]
  <2>1. m + k \in 1 .. b /\ m + k > m /\ m + k <= m + l /\ m + k - m = k
    BY <1>0, <1>1
  <2>2. g[m + k] = lines[m + k - m]
    BY <1>0, <2>1
  <2> QED  BY <1>0, <2>1, <2>2
<1>4. ASSUME NEW k \in 1 .. m + n  PROVE g[k] = out[k]
  <2>1. CASE k <= m
    BY <1>0, <1>2, <2>1
  <2>2. CASE k > m
    <3>1. k - m \in 1 .. n /\ k - m \in 1 .. l /\ m + (k - m) = k
      BY <1>0, <2>2
    <3>2. g[m + (k - m)] = lines[k - m] /\ lines[k - m] = out[m + (k - m)]
      BY <1>0, <1>3, <3>1
    <3> QED  BY <1>0, <3>1, <3>2
  <2> QED  BY <1>0, <2>1, <2>2
<1>5. ASSUME b = (m + n) + 1
      PROVE  m + n < o /\ g[(m + n) + 1] = Cut(out[(m + n) + 1])
  <2>1. CASE l = n + 1 /\ m + n < o /\ lines[n + 1] = Cut(out[m + (n + 1)])
    <3>1. n + 1 \in 1 .. l /\ m + (n + 1) = (m + n) + 1
      BY <1>0, <2>1
    <3>2. g[m + (n + 1)] = lines[n + 1]
      BY <1>0, <1>3, <3>1
    <3> QED  BY <1>0, <2>1, <3>1, <3>2
  <2>2. CASE l = n
    <3>1. n = 0 /\ l = 0 /\ a = m + 1 /\ b = m + 1
      BY <1>0, <1>1, <1>5, <2>2
    <3>2. m + 1 \in 1 .. b /\ ~(m + 1 <= m + l) /\ m + 1 <= a
      BY <1>0, <3>1
    <3>3. g[m + 1] = f[m + 1]
      BY <1>0, <3>2
    <3>4. m + n = m /\ a # m
      BY <1>0, <3>1
    <3>5. m < o /\ f[m + 1] = Cut(out[m + 1])
      BY <1>0, <3>4
    <3> QED  BY <1>0, <3>3, <3>4, <3>5
  <2> QED  BY <1>0, <2>1, <2>2
<1> QED  BY <1>1, <1>2, <1>4, <1>5 DEF Holds

LEMMA WrittenOn ==
  ASSUME NEW t, t.out \in Seq(Printable), t.flushed \in 0 .. Len(t.out),
         NEW f \in Seq(Lines), Written(t, f),
         NEW n \in 0 .. Len(t.out) - t.flushed, NEW lines \in Seq(Lines),
         \A k \in 1 .. n : lines[k] = t.out[t.flushed + k],
         \/ Len(lines) = n
         \/ /\ n < Len(t.out) - t.flushed /\ Len(lines) = n + 1
            /\ lines[n + 1] = Cut(t.out[t.flushed + (n + 1)]),
         NEW u, u.out = t.out, u.flushed = t.flushed + n
  PROVE  /\ Written(u, Write(f, t.flushed, lines))
         /\ Extends(f, Write(f, t.flushed, lines))
<1>1. PICK m \in Nat, o \in Nat, a \in Nat, l \in Nat, n0 \in Nat :
        /\ m = t.flushed /\ o = Len(t.out) /\ a = Len(f) /\ l = Len(lines)
        /\ n0 = n /\ m <= o
  OBVIOUS
<1> DEFINE g == Write(f, m, lines)
<1>2. /\ g \in Seq(Lines)
      /\ Len(g) = IF m + Len(lines) >= Len(f) THEN m + Len(lines) ELSE Len(f)
      /\ \A k \in 1 .. Len(g) :
           g[k] = IF k > m /\ k <= m + Len(lines) THEN lines[k - m]
                  ELSE IF k <= Len(f) THEN f[k]
                  ELSE Hole
  BY WriteType
<1> HIDE DEF g
<1>3. PICK b \in Nat : b = Len(g)
  BY <1>2
<1> DEFINE out == t.out
<1>4. Holds(f, a, out, m, o)
  BY <1>1, Zenon DEF Written, Holds
<1>5. Overwrites(g, b, f, a, m, lines, l)
  BY <1>1, <1>2, <1>3, Zenon DEF Overwrites
<1>6. Continues(lines, l, out, m, n0, o)
  <2>1. m + n0 <= o
    BY <1>1
  <2>2. n < Len(t.out) - t.flushed => m + n0 < o
    BY <1>1
  <2>3. \A k \in 1 .. n0 : lines[k] = out[m + k]
    BY <1>1, Zenon
  <2>4. \/ l = n0
        \/ l = n0 + 1 /\ m + n0 < o /\ lines[n0 + 1] = Cut(out[m + (n0 + 1)])
    BY <1>1, <2>2, Zenon
  <2> QED  BY <2>1, <2>3, <2>4 DEF Continues
<1> HIDE DEF out
<1>7. /\ a <= b
      /\ \A k \in 1 .. m : g[k] = f[k]
      /\ Holds(g, b, out, m + n0, o)
  BY <1>4, <1>5, <1>6, ArrayWrittenOn
<1>8. u.flushed = m + n0 /\ u.out = out
  BY <1>1, Zenon DEF out
<1>9. Written(u, g)
  <2>1. PICK c \in Nat : c = m + n0
    OBVIOUS
  <2>2. /\ b = c \/ (b = c + 1 /\ c < o /\ g[c + 1] = Cut(t.out[c + 1]))
        /\ \A k \in 1 .. c : g[k] = t.out[k]
    BY <1>7, <2>1, Zenon DEF Holds, out
  <2>3. c # c + 1
    BY <2>1
  <2>4. u.flushed = c /\ u.out = t.out
    BY <1>8, <2>1, Zenon DEF out
  <2>5. Len(u.out) = o
    BY <1>1
  <2> QED  BY <1>3, <2>2, <2>3, <2>4, <2>5, Zenon DEF Written
<1>10. Extends(f, g)
  <2>1. ASSUME NEW k \in 1 .. a, f[k].end  PROVE g[k] = f[k]
    <3>1. CASE k \in 1 .. m
      BY <1>7, <3>1
    <3>2. CASE k \notin 1 .. m
      <4>1. k = m + 1 /\ a = m + 1 /\ a # m
        BY <1>4, <3>2 DEF Holds
      <4>2. m < o /\ f[m + 1] = Cut(t.out[m + 1])
        BY <1>4, <4>1 DEF Holds, out
      <4>3. m + 1 \in 1 .. o
        BY <4>2
      <4>4. t.out[m + 1] \in Lines
        BY <1>1, <4>3, PrintedAreLines
      <4>5. f[k].end = FALSE
        BY <4>1, <4>2, <4>4, CutIsLine
      <4> QED  BY <2>1, <4>5
    <3> QED  BY <3>1, <3>2
  <2> QED  BY <1>1, <1>3, <1>7, <2>1, Zenon DEF Extends
<1> QED  BY <1>1, <1>9, <1>10 DEF g

(* Printing more changes nothing of what has been written.                 *)
LEMMA WrittenBefore ==
  ASSUME NEW t, t.out \in Seq(Printable), t.flushed \in 0 .. Len(t.out),
         NEW f \in Seq(Lines), Written(t, f),
         NEW more \in Seq(Printable),
         NEW u, u.out = t.out \o more, u.flushed = t.flushed
  PROVE  Written(u, f)
<1>1. PICK m \in Nat, o \in Nat, a \in Nat, l \in Nat :
        m = t.flushed /\ o = Len(t.out) /\ a = Len(f) /\ l = Len(more) /\ m <= o
  OBVIOUS
<1>2. Len(u.out) = o + l /\ \A k \in 1 .. o : u.out[k] = t.out[k]
  <2>1. /\ Len(t.out \o more) = o + l
        /\ \A k \in 1 .. o + l :
             (t.out \o more)[k] = IF k <= o THEN t.out[k] ELSE more[k - o]
    BY <1>1, ConcatProperties
  <2>2. \A k \in 1 .. o : k \in 1 .. o + l /\ k <= o
    BY <1>1
  <2> QED  BY <2>1, <2>2
<1>3. a \in {m, m + 1} /\ \A k \in 1 .. m : f[k] = t.out[k]
  BY <1>1 DEF Written
<1>4. a = m + 1 => m < o /\ f[m + 1] = Cut(t.out[m + 1])
  BY <1>1 DEF Written
<1>5. \A k \in 1 .. m : k \in 1 .. o
  BY <1>1
<1>6. a = m + 1 => m < o + l /\ m + 1 \in 1 .. o
  BY <1>1, <1>4
<1> QED  BY <1>1, <1>2, <1>3, <1>4, <1>5, <1>6 DEF Written

(* What stdio has written of hashes under their names is a hash file.      *)
LEMMA WrittenIsHashFile ==
  ASSUME NEW t, t.out \in Seq(Printable), t.flushed \in 0 .. Len(t.out),
         NEW f \in Seq(Lines), Written(t, f), HashesUnder(t.out)
  PROVE  IsHashFile(f)
<1>1. PICK m \in Nat, o \in Nat, a \in Nat :
        m = t.flushed /\ o = Len(t.out) /\ a = Len(f) /\ m <= o
  OBVIOUS
<1>2. a \in {m, m + 1} /\ \A k \in 1 .. m : f[k] = t.out[k]
  BY <1>1 DEF Written
<1>3. a = m + 1 => m < o /\ f[m + 1] = Cut(t.out[m + 1])
  BY <1>1 DEF Written
<1>4. ASSUME NEW k \in 1 .. a
      PROVE  /\ k \in 1 .. o /\ t.out[k] \in Printable
             /\ f[k].kind = t.out[k].kind /\ f[k].text = t.out[k].text
             /\ k <= a - 1 => f[k].end
  <2>1. k \in 1 .. o
    BY <1>1, <1>2, <1>3
  <2>2. t.out[k] \in Printable
    BY <1>1, <2>1
  <2>3. CASE k \in 1 .. m
    BY <1>2, <2>1, <2>2, <2>3 DEF Printable
  <2>4. CASE k = m + 1
    <3>1. a = m + 1 /\ ~(k <= a - 1)
      BY <1>1, <1>2, <2>4
    <3>2. t.out[k] \in Lines
      BY <2>2 DEF Printable
    <3> QED  BY <1>3, <2>1, <2>2, <2>4, <3>1, <3>2, CutIsLine
  <2>5. k \in 1 .. m \/ k = m + 1
    BY <1>1, <1>2
  <2> QED  BY <2>3, <2>4, <2>5
<1>5. \A k \in 1 .. a - 1 : f[k].end
  <2>1. \A k \in 1 .. a - 1 : k \in 1 .. a /\ k <= a - 1
    BY <1>1
  <2> QED  BY <1>4, <2>1
<1>6. ASSUME NEW k \in 1 .. a, IsHash(f[k])
      PROVE  \E q \in 1 .. k - 1 : /\ Under(f, q, k)
                                   /\ f[k].text = Sample[f[q].text][f[k].kind]
  <2>1. IsHash(t.out[k]) /\ k \in 1 .. o
    BY <1>4, <1>6 DEF IsHash
  <2>2. PICK q \in 1 .. k - 1 :
          /\ Under(t.out, q, k)
          /\ t.out[k].text = Sample[t.out[q].text][t.out[k].kind]
    BY <1>1, <2>1 DEF HashesUnder
  <2>3. q \in 1 .. a /\ q < k /\ \A r \in q + 1 .. k : r \in 1 .. a
    BY <1>1
  <2>4. Under(f, q, k)
    BY <1>4, <2>2, <2>3 DEF Under, IsHash
  <2> QED  BY <1>4, <2>2, <2>3, <2>4
<1>7. ASSUME NEW k \in 1 .. a
      PROVE  /\ f[k].kind # "hole"
             /\ f[k].kind = "name" =>
                  f[k].text \in Names /\ (k < a => IsHash(f[k + 1]))
  <2>1. /\ t.out[k].kind # "hole"
        /\ t.out[k].kind = "name" =>
             t.out[k].text \in Names /\ IsHash(t.out[k + 1])
    BY <1>1, <1>4 DEF HashesUnder, NamesFollowed
  <2>2. k < a => k + 1 \in 1 .. a
    BY <1>1
  <2> QED  BY <1>4, <2>1, <2>2 DEF IsHash
<1> QED  BY <1>1, <1>5, <1>6, <1>7 DEF IsHashFile

(* Two pieces of output, each with hashes under their names.               *)
LEMMA HashesJoined ==
  ASSUME NEW a \in Seq(Printable), NEW b \in Seq(Printable),
         HashesUnder(a), HashesUnder(b)
  PROVE  HashesUnder(a \o b)
<1>1. PICK m \in Nat, n \in Nat : m = Len(a) /\ n = Len(b)
  OBVIOUS
<1> DEFINE c == a \o b
<1>2. /\ Len(c) = m + n
      /\ \A k \in 1 .. m + n : c[k] = IF k <= m THEN a[k] ELSE b[k - m]
  BY <1>1, ConcatProperties
<1> HIDE DEF c
<1>3. \A k \in 1 .. m : c[k] = a[k]
  <2>1. \A k \in 1 .. m : k \in 1 .. m + n /\ k <= m
    BY <1>1
  <2> QED  BY <1>2, <2>1
<1>4. \A k \in 1 .. n : c[m + k] = b[k]
  <2>1. \A k \in 1 .. n : m + k \in 1 .. m + n /\ ~(m + k <= m) /\ m + k - m = k
    BY <1>1
  <2> QED  BY <1>2, <2>1
<1>5. ASSUME NEW k \in 1 .. m + n, IsHash(c[k])
      PROVE  \E q \in 1 .. k - 1 : /\ Under(c, q, k)
                                   /\ c[k].text = Sample[c[q].text][c[k].kind]
  <2>1. CASE k \in 1 .. m
    <3>1. PICK q \in 1 .. k - 1 : /\ Under(a, q, k)
                                  /\ a[k].text = Sample[a[q].text][a[k].kind]
      BY <1>1, <1>3, <1>5, <2>1 DEF HashesUnder
    <3>2. q \in 1 .. m /\ \A r \in q + 1 .. k : r \in 1 .. m
      BY <1>1, <2>1
    <3>3. Under(c, q, k)
      BY <1>3, <3>1, <3>2 DEF Under
    <3> QED  BY <1>3, <2>1, <3>1, <3>2, <3>3
  <2>2. CASE k > m
    <3>1. PICK l \in 1 .. n : k = m + l
      <4>1. k - m \in 1 .. n /\ k = m + (k - m)
        BY <1>1, <2>2
      <4> QED  BY <4>1
    <3>2. PICK q \in 1 .. l - 1 : /\ Under(b, q, l)
                                  /\ b[l].text = Sample[b[q].text][b[l].kind]
      BY <1>1, <1>4, <1>5, <3>1 DEF HashesUnder
    <3>3. q \in 1 .. n /\ m + q \in 1 .. k - 1 /\ m + q < k
      BY <1>1, <3>1
    <3>4. ASSUME NEW r \in (m + q) + 1 .. k  PROVE IsHash(c[r])
      <4>1. r - m \in q + 1 .. l /\ r - m \in 1 .. n /\ r = m + (r - m)
        BY <1>1, <3>1, <3>3
      <4>2. c[r] = b[r - m]
        BY <1>4, <4>1
      <4> QED  BY <3>2, <4>1, <4>2 DEF Under
    <3>5. Under(c, m + q, k)
      BY <1>4, <3>2, <3>3, <3>4 DEF Under
    <3>6. c[k] = b[l] /\ c[m + q] = b[q]
      BY <1>4, <3>1, <3>3
    <3> QED  BY <3>2, <3>3, <3>5, <3>6
  <2> QED  BY <1>1, <2>1, <2>2
<1>6. ASSUME NEW k \in 1 .. m + n
      PROVE  /\ c[k].kind # "hole"
             /\ c[k].kind = "name" =>
                  c[k].text \in Names /\ k < m + n /\ IsHash(c[k + 1])
  <2>1. CASE k \in 1 .. m
    <3>1. /\ a[k].kind # "hole"
          /\ a[k].kind = "name" =>
               a[k].text \in Names /\ k < m /\ IsHash(a[k + 1])
      BY <1>1, <2>1 DEF HashesUnder, NamesFollowed
    <3>2. k < m => k + 1 \in 1 .. m /\ k < m + n
      BY <1>1, <2>1
    <3> QED  BY <1>3, <2>1, <3>1, <3>2
  <2>2. CASE k > m
    <3>1. PICK l \in 1 .. n : k = m + l
      <4>1. k - m \in 1 .. n /\ k = m + (k - m)
        BY <1>1, <2>2
      <4> QED  BY <4>1
    <3>2. /\ b[l].kind # "hole"
          /\ b[l].kind = "name" =>
               b[l].text \in Names /\ l < n /\ IsHash(b[l + 1])
      BY <1>1, <3>1 DEF HashesUnder, NamesFollowed
    <3>3. l < n => l + 1 \in 1 .. n /\ k < m + n /\ k + 1 = m + (l + 1)
      BY <1>1, <3>1
    <3> QED  BY <1>4, <3>1, <3>2, <3>3
  <2> QED  BY <1>1, <2>1, <2>2
<1>7. HashesUnder(c)
  BY <1>2, <1>5, <1>6 DEF HashesUnder, NamesFollowed
<1> QED  BY <1>7 DEF c

LEMMA NoHashesUnder ==
  ASSUME NEW lines, NoEntries(lines)
  PROVE  HashesUnder(lines)
BY DEF HashesUnder, NamesFollowed, NoEntries

LEMMA PrintedUnder ==
  ASSUME NEW algorithm \in DOMAIN Section, NEW name \in Names
  PROVE  HashesUnder(Printed(algorithm, name))
<1> DEFINE lines == Printed(algorithm, name)
<1>1. algorithm \in {"ALL", "CTPH", "SIMHASH"}
  BY DEF Section
<1>2. /\ Len(lines) \in {2, 3}
      /\ lines[1].kind = "name" /\ lines[1].text = name
      /\ \A k \in 2 .. Len(lines) :
           IsHash(lines[k]) /\ lines[k].text = Sample[name][lines[k].kind]
  BY <1>1 DEF Printed, Line, IsHash
<1> HIDE DEF lines
<1>3. ASSUME NEW k \in 1 .. Len(lines), IsHash(lines[k])
      PROVE  \E q \in 1 .. k - 1 : /\ Under(lines, q, k)
                                   /\ lines[k].text = Sample[lines[q].text][lines[k].kind]
  <2>1. k \in 2 .. Len(lines)
    <3>1. k # 1
      BY <1>2, <1>3 DEF IsHash
    <3> QED  BY <1>2, <3>1
  <2>2. 1 < k /\ 1 \in 1 .. k - 1 /\ \A r \in 1 + 1 .. k : r \in 2 .. Len(lines)
    BY <1>2, <2>1
  <2>3. Under(lines, 1, k)
    BY <1>2, <2>2 DEF Under
  <2> QED  BY <1>2, <2>1, <2>2, <2>3
<1>4. NamesFollowed(lines)
  <2>1. ASSUME NEW k \in 1 .. Len(lines)
        PROVE  /\ lines[k].kind # "hole"
               /\ lines[k].kind = "name" =>
                    /\ lines[k].text \in Names /\ k < Len(lines)
                    /\ IsHash(lines[k + 1])
    <3>1. CASE k = 1
      BY <1>2, <3>1
    <3>2. CASE k # 1
      <4>1. k \in 2 .. Len(lines)
        BY <1>2, <3>2
      <4> QED  BY <1>2, <4>1 DEF IsHash
    <3> QED  BY <3>1, <3>2
  <2> QED  BY <2>1 DEF NamesFollowed
<1>5. HashesUnder(lines)
  BY <1>3, <1>4 DEF HashesUnder
<1> QED  BY <1>5 DEF lines

-----------------------------------------------------------------------------
(***************************************************************************)
(* Reading a hash file line by line.                                       *)
(***************************************************************************)

(* In a hash file fgets returns whole lines, one after the other.          *)
LEMMA FgetsNext ==
  ASSUME NEW f \in Seq(Lines), IsHashFile(f), NEW at \in Nat, Ends(f, at) # {}
  PROVE  /\ at + 1 \in 1 .. Len(f) /\ f[at + 1].end
         /\ Min(Ends(f, at)) = at + 1
         /\ Fgets(f, at) = f[at + 1]
<1>1. PICK n \in Nat : n = Len(f)
  OBVIOUS
<1>2. PICK q \in at + 1 .. n : f[q].end
  BY <1>1 DEF Ends
<1>3. \A k \in 1 .. n - 1 : f[k].end
  BY <1>1 DEF IsHashFile
<1>4. at + 1 \in 1 .. n /\ (q # at + 1 => at + 1 \in 1 .. n - 1)
  BY <1>2
<1>5. f[at + 1].end
  BY <1>2, <1>3, <1>4
<1> DEFINE least == Min(Ends(f, at))
<1>6. least \in at + 1 .. n /\ (at + 1 \in at + 1 .. n => least <= at + 1)
  BY <1>1, <1>5, EndsType
<1> HIDE DEF least
<1>7. least = at + 1
  BY <1>4, <1>6
<1>8. Fgets(f, at) = f[at + 1]
  BY <1>7 DEF Fgets, least
<1> QED  BY <1>1, <1>4, <1>5, <1>7, <1>8 DEF least

(* What of f has been read, whole lines, and that line_buf holds the last. *)
Reading(t, f) ==
  /\ t.at <= Len(f)
  /\ \A k \in 1 .. t.at : f[k].end
  /\ t.at > 0 => t.line = f[t.at]

(* No entry behind the first n has been begun.                             *)
Unbegun(content, n) ==
  \A k \in n + 1 .. Len(content) : content[k] = NoEntry

(* The entry begun last has the name of line q of f.                       *)
Begun(t, name) == t.file_count >= 1 /\ t.content[t.file_count].name = name

(* The line in line_buf is not parsed yet: if it belongs to a name, this   *)
(* is that of the entry begun last.                                        *)
Parses(t, f) ==
  /\ Reading(t, f)
  /\ t.at = 0 => t.file_count = 0
  /\ Unbegun(t.content, t.file_count)
  /\ \A q \in 1 .. t.at - 1 : Under(f, q, t.at) => Begun(t, f[q].text)

(* Only hashes between line q and line k of f.                             *)
Between(f, q, k) == \A r \in q + 1 .. k : IsHash(f[r])

(* The line in line_buf has been parsed: what follows it belongs to the    *)
(* name of the entry begun last, if to any.                                *)
Parsed(t, f) ==
  /\ t.at <= Len(f)
  /\ \A k \in 1 .. t.at : f[k].end
  /\ Unbegun(t.content, t.file_count)
  /\ \A q \in 1 .. t.at :
       f[q].kind = "name" /\ Between(f, q, t.at) => Begun(t, f[q].text)

(* Every hash is that of the name, or one of the first entry is a scrap.   *)
Matched(content) ==
  \A k \in 1 .. Len(content), kind \in HashKinds :
    \/ content[k][kind] = Unset
    \/ content[k][kind] = Scrap /\ k = 1
    \/ /\ content[k].name \in Names
       /\ content[k][kind] = Sample[content[k].name][kind]

(* The entries get_nb_files counts in the first n lines of f.              *)
Counted(f, n) == Cardinality({k \in 1 .. n : ~IsHash(f[k])})

(* The entries were counted in lines that do not end with a name: the line *)
(* behind them was cut off.                                                *)
CutOff(t, f) ==
  \E m \in 0 .. Len(f) :
    /\ \A k \in 1 .. m : f[k].end
    /\ t.nb_files = Counted(f, m)
    /\ m > 0 => f[m].kind # "name"

Scrapped(t) ==
  \E kind \in HashKinds : Len(t.content) >= 1 /\ t.content[1][kind] = Scrap

(* Who took a scrap is an entry ahead of those counted.                    *)
Scraps(t, f) ==
  /\ t.pc = "count" => t.nb_files = Counted(f, t.at)
  /\ t.pc = "parse" =>
       /\ t.at = 0 /\ t.line.kind = "name" /\ Beyond(t) => CutOff(t, f)
       /\ Scrapped(t) => /\ t.at > 0 /\ CutOff(t, f)
                         /\ t.file_count >= 1 + Counted(f, t.at - 1)
  /\ t.pc \in {"choose", "compare"} /\ Scrapped(t) => t.nb_files = 0

(* The same when the line in line_buf has been parsed.                     *)
ScrapsParsed(t, f) ==
  Scrapped(t) => /\ CutOff(t, f)
                 /\ t.file_count >= 1 + Counted(f, t.at)
                 /\ Ends(f, t.at) = {} => t.nb_files = 0

Reader(t, f) ==
  /\ t.pc = "count" => Reading(t, f)
  /\ t.pc = "parse" => Parses(t, f)
  /\ Matched(t.content)
  /\ Scraps(t, f)

LEMMA CountedNone ==
  ASSUME NEW f
  PROVE  Counted(f, 0) = 0
<1>1. {k \in 1 .. 0 : ~IsHash(f[k])} = {}
  OBVIOUS
<1> QED  BY <1>1, FS_EmptySet DEF Counted

LEMMA CountedType ==
  ASSUME NEW f, NEW n \in Nat
  PROVE  /\ Counted(f, n) \in Nat
         /\ IsFiniteSet({k \in 1 .. n : ~IsHash(f[k])})
<1>1. IsFiniteSet(1 .. n)
  BY FS_Interval
<1>2. {k \in 1 .. n : ~IsHash(f[k])} \subseteq 1 .. n
  OBVIOUS
<1> QED  BY <1>1, <1>2, FS_Subset, FS_CardinalityType DEF Counted

LEMMA CountedNext ==
  ASSUME NEW f, NEW n \in Nat
  PROVE  Counted(f, n + 1) =
           IF IsHash(f[n + 1]) THEN Counted(f, n) ELSE Counted(f, n) + 1
<1> DEFINE S(m) == {k \in 1 .. m : ~IsHash(f[k])}
<1>1. S(n + 1) = IF IsHash(f[n + 1]) THEN S(n) ELSE S(n) \cup {n + 1}
  OBVIOUS
<1>2. n + 1 \notin S(n) /\ IsFiniteSet(S(n))
  BY CountedType
<1>3. Cardinality(S(n) \cup {n + 1}) = Cardinality(S(n)) + 1
  BY <1>2, FS_AddElement
<1> QED  BY <1>1, <1>3 DEF Counted

LEMMA CountedRises ==
  ASSUME NEW f, NEW m \in Nat, NEW n \in Nat, m <= n
  PROVE  Counted(f, m) <= Counted(f, n)
<1> DEFINE S(l) == {k \in 1 .. l : ~IsHash(f[k])}
<1>1. S(m) \subseteq S(n)
  OBVIOUS
<1>2. IsFiniteSet(S(n))
  BY CountedType
<1> QED  BY <1>1, <1>2, FS_Subset DEF Counted

LEMMA CountedSame ==
  ASSUME NEW f, NEW g, NEW n \in Nat, \A k \in 1 .. n : g[k] = f[k]
  PROVE  Counted(g, n) = Counted(f, n)
<1>1. {k \in 1 .. n : ~IsHash(g[k])} = {k \in 1 .. n : ~IsHash(f[k])}
  OBVIOUS
<1> QED  BY <1>1 DEF Counted

(* A reader does not mind that the file grows.                             *)
LEMMA ReadingOn ==
  ASSUME NEW t, t.at \in Nat, NEW f \in Seq(Lines), NEW g \in Seq(Lines),
         Extends(f, g), Reading(t, f)
  PROVE  /\ Reading(t, g)
         /\ \A k \in 1 .. t.at : g[k] = f[k]
<1>1. PICK at \in Nat, a \in Nat, b \in Nat : at = t.at /\ a = Len(f) /\ b = Len(g)
  OBVIOUS
<1>2. /\ at <= a /\ a <= b
      /\ \A k \in 1 .. at : f[k].end
      /\ at > 0 => t.line = f[at]
      /\ \A k \in 1 .. a : f[k].end => g[k] = f[k]
  BY <1>1, Zenon DEF Reading, Extends
<1>3. at <= b /\ \A k \in 1 .. at : k \in 1 .. a
  BY <1>2
<1>4. \A k \in 1 .. at : g[k] = f[k]
  BY <1>2, <1>3, Zenon
<1>5. at > 0 => at \in 1 .. at
  OBVIOUS
<1> QED  BY <1>1, <1>2, <1>3, <1>4, <1>5, Zenon DEF Reading

LEMMA ReaderOn ==
  ASSUME NEW t, t.at \in Nat, NEW f \in Seq(Lines), NEW g \in Seq(Lines),
         Extends(f, g), Reader(t, f)
  PROVE  Reader(t, g)
<1>1. t.pc = "count" => Reading(t, g)
  BY ReadingOn DEF Reader
<1>2. ASSUME t.pc = "parse"  PROVE Parses(t, g)
  <2>1. PICK at \in Nat : at = t.at
    OBVIOUS
  <2>2. Parses(t, f)
    BY <1>2 DEF Reader
  <2>3. Reading(t, g) /\ \A k \in 1 .. at : g[k] = f[k]
    BY <2>1, <2>2, ReadingOn DEF Parses
  <2>4. ASSUME NEW q \in 1 .. at - 1, Under(g, q, at)  PROVE Begun(t, g[q].text)
    <3>1. q \in 1 .. at /\ \A r \in q + 1 .. at : r \in 1 .. at
      BY <2>1
    <3>2. Under(f, q, at)
      BY <2>3, <2>4, <3>1 DEF Under
    <3> QED  BY <2>1, <2>2, <2>3, <3>1, <3>2 DEF Parses
  <2> QED  BY <2>1, <2>2, <2>3, <2>4 DEF Parses
<1>3. ASSUME CutOff(t, f)  PROVE CutOff(t, g)
  <2>1. PICK a \in Nat, b \in Nat : a = Len(f) /\ b = Len(g)
    OBVIOUS
  <2>2. PICK m \in 0 .. a : /\ \A k \in 1 .. m : f[k].end
                            /\ t.nb_files = Counted(f, m)
                            /\ m > 0 => f[m].kind # "name"
    BY <1>3, <2>1 DEF CutOff
  <2>3. a <= b /\ \A k \in 1 .. a : f[k].end => g[k] = f[k]
    BY <2>1 DEF Extends
  <2>4. \A k \in 1 .. m : g[k] = f[k]
    BY <2>2, <2>3
  <2>5. m \in 0 .. b /\ m \in Nat /\ (m > 0 => m \in 1 .. m)
    BY <2>2, <2>3
  <2>6. Counted(g, m) = Counted(f, m)
    BY <2>4, <2>5, CountedSame
  <2> QED  BY <2>1, <2>2, <2>4, <2>5, <2>6 DEF CutOff
<1>4. ASSUME t.pc \in {"count", "parse"}, NEW n \in 0 .. t.at
      PROVE  Counted(g, n) = Counted(f, n)
  <2>1. Reading(t, f)
    BY <1>4 DEF Reader, Parses
  <2>2. \A k \in 1 .. t.at : g[k] = f[k]
    BY <2>1, ReadingOn
  <2>3. n \in Nat /\ \A k \in 1 .. n : g[k] = f[k]
    BY <2>2
  <2> QED  BY <2>3, CountedSame
<1>5. Scraps(t, g)
  <2>1. Scraps(t, f)
    BY DEF Reader
  <2>2. t.pc = "count" => t.nb_files = Counted(g, t.at)
    BY <1>4, <2>1 DEF Scraps
  <2>3. ASSUME t.pc = "parse", t.at > 0  PROVE Counted(g, t.at - 1) = Counted(f, t.at - 1)
    BY <1>4, <2>3
  <2> QED  BY <1>3, <2>1, <2>2, <2>3 DEF Scraps
<1> QED  BY <1>1, <1>2, <1>5 DEF Reader

(* The next line of a hash file is read.                                   *)
LEMMA ReadsOn ==
  ASSUME NEW f \in Seq(Lines), IsHashFile(f), NEW t, DOMAIN t = Field,
         t.at \in Nat, \A k \in 1 .. t.at : f[k].end,
         Ends(f, t.at) # {}, NEW u, u.at = Min(Ends(f, t.at)),
         u.line = Fgets(f, t.at)
  PROVE  Reading(u, f) /\ u.at = t.at + 1
<1>1. PICK at \in Nat, n \in Nat : at = t.at /\ n = Len(f)
  OBVIOUS
<1>2. /\ at + 1 \in 1 .. n /\ f[at + 1].end
      /\ u.at = at + 1 /\ u.line = f[at + 1]
  BY <1>1, FgetsNext
<1>3. at + 1 <= n /\ \A k \in 1 .. at + 1 : k \in 1 .. at \/ k = at + 1
  BY <1>2
<1> QED  BY <1>1, <1>2, <1>3, Zenon DEF Reading

LEMMA ReadsParsed ==
  ASSUME NEW f \in Seq(Lines), IsHashFile(f), NEW t, DOMAIN t = Field,
         t.at \in Nat, Parsed(t, f), Ends(f, t.at) # {},
         NEW u, u = Read(t, f)
  PROVE  Parses(u, f)
<1>1. PICK at \in Nat : at = t.at
  OBVIOUS
<1>2. /\ u.at = Min(Ends(f, t.at)) /\ u.line = Fgets(f, t.at)
      /\ u.content = t.content /\ u.file_count = t.file_count
  BY ReadFields
<1>3. Reading(u, f) /\ u.at = at + 1
  BY <1>1, <1>2, ReadsOn DEF Parsed
<1>4. ASSUME NEW q \in 1 .. at, Under(f, q, at + 1)  PROVE Begun(u, f[q].text)
  <2>1. \A r \in q + 1 .. at : r \in q + 1 .. at + 1
    OBVIOUS
  <2>2. f[q].kind = "name" /\ Between(f, q, at)
    BY <1>4, <2>1 DEF Under, Between
  <2> QED  BY <1>1, <1>2, <2>2 DEF Parsed, Begun
<1>5. u.at # 0 /\ u.at - 1 = at
  BY <1>3
<1> QED  BY <1>1, <1>2, <1>3, <1>4, <1>5 DEF Parses, Parsed

(* Either there is another line, or the loop has ended.                    *)
LEMMA ReadsNext ==
  ASSUME NEW f \in Seq(Lines), IsHashFile(f), NEW t, DOMAIN t = Field,
         t.at \in Nat, t.pc = "parse", Parsed(t, f), Matched(t.content),
         ScrapsParsed(t, f), NEW u, u = IF Ends(f, t.at) = {} THEN [t EXCEPT !.pc = "choose"]
                    ELSE Read(t, f)
  PROVE  Reader(u, f)
<1>1. CASE Ends(f, t.at) = {}
  <2>1. u.pc = "choose" /\ u.content = t.content /\ u.nb_files = t.nb_files
    BY <1>1 DEF Field
  <2>2. Scrapped(u) => u.nb_files = 0
    BY <1>1, <2>1 DEF ScrapsParsed, Scrapped
  <2> QED  BY <2>1, <2>2 DEF Reader, Scraps
<1>2. CASE Ends(f, t.at) # {}
  <2>1. u = Read(t, f)
    BY <1>2
  <2>2. u.pc = "parse" /\ u.content = t.content
    <3>1. Read(t, f).pc = t.pc /\ Read(t, f).content = t.content
      BY ReadFields, Zenon
    <3> QED  BY <2>1, <3>1
  <2>3. Parses(u, f)
    BY <1>2, <2>1, ReadsParsed
  <2>4. /\ u.at = t.at + 1 /\ u.nb_files = t.nb_files
        /\ u.file_count = t.file_count
    <3>1. /\ Read(t, f).at = Min(Ends(f, t.at))
          /\ Read(t, f).nb_files = t.nb_files
          /\ Read(t, f).file_count = t.file_count
      BY ReadFields, Zenon
    <3> QED  BY <1>2, <2>1, <3>1, FgetsNext
  <2>5. /\ u.at # 0 /\ u.at > 0 /\ u.at - 1 = t.at
        /\ Scrapped(u) => Scrapped(t)
        /\ CutOff(t, f) => CutOff(u, f)
    BY <2>2, <2>4 DEF Scrapped, CutOff
  <2>6. Scraps(u, f)
    BY <2>2, <2>4, <2>5 DEF Scraps, ScrapsParsed
  <2> QED  BY <2>2, <2>3, <2>6 DEF Reader
<1> QED  BY <1>1, <1>2

-----------------------------------------------------------------------------
(***************************************************************************)
(* Parsing a line.                                                         *)
(***************************************************************************)

(* A name begins an entry, with no hashes but scraps in the first one.     *)
LEMMA ParsedName ==
  ASSUME NEW f, NEW t, NEW u, NEW content \in Seq(Entries), NEW k,
         NEW name \in Names \cup {Unset}, NEW kinds, NEW new,
         t.at \in Nat, t.file_count \in Nat, Parses(t, f), Matched(content),
         t.line.kind = "name",
         ~Beyond(t) => name = t.line.text /\ kinds = {},
         t.at > 0 => ~Beyond(t),
         content = t.content, k = t.file_count + 1, k \in 1 .. Len(content),
         new = Enter(content, k, name, kinds),
         u.content = new, u.file_count = k, u.at = t.at
  PROVE  /\ Parsed(u, f) /\ Matched(u.content)
         /\ ~Beyond(t) /\ Scrapped(u) => Scrapped(t)
<1>1. PICK at \in Nat, n \in Nat, m \in Nat :
        at = t.at /\ n = t.file_count /\ m = Len(content)
  OBVIOUS
<1>2. /\ Len(new) = m /\ new[k].name = name
      /\ \A kind \in HashKinds :
           new[k][kind] = IF kind \in kinds THEN Scrap ELSE content[k][kind]
      /\ \A l \in 1 .. m : l # k => new[l] = content[l]
  <2>1. ASSUME NEW c \in Seq(Entries), NEW j \in 1 .. Len(c), NEW d,
               d = Enter(c, j, name, kinds)
        PROVE  /\ d[j].name = name
               /\ \A kind \in HashKinds :
                    d[j][kind] = IF kind \in kinds THEN Scrap ELSE c[j][kind]
               /\ Len(d) = Len(c)
               /\ \A l \in 1 .. Len(c) : l # j => d[l] = c[l]
    BY <2>1, NameStored DEF HashKinds
  <2> QED  BY <1>1, <2>1
<1>3. k = n + 1 /\ k \in 1 .. m /\ k \in n + 1 .. m
  BY <1>1
<1>4. \A l \in n + 1 .. m : content[l] = NoEntry
  BY <1>1, Zenon DEF Parses, Unbegun
<1>5. \A kind \in HashKinds :
        new[k][kind] = IF kind \in kinds THEN Scrap ELSE Unset
  BY <1>2, <1>3, <1>4 DEF NoEntry, HashKinds
<1>6. Unbegun(new, k)
  <2>1. ASSUME NEW l \in k + 1 .. m  PROVE new[l] = NoEntry
    <3>1. l \in n + 1 .. m /\ l \in 1 .. m /\ l # k
      BY <1>3
    <3>2. new[l] = content[l]
      BY <1>2, <3>1, Zenon
    <3> QED  BY <1>4, <3>1, <3>2, Zenon
  <2>2. Len(new) = m
    BY <1>2
  <2> QED  BY <2>1, <2>2, Zenon DEF Unbegun
<1>7. Matched(new) /\ (~Beyond(t) /\ Scrapped(u) => Scrapped(t))
  <2>1. kinds # {} => k = 1
    <3>1. t.at = 0 => t.file_count = 0
      BY DEF Parses
    <3> QED  BY <1>1, <3>1
  <2>2. ASSUME NEW l \in 1 .. m, NEW kind \in HashKinds
        PROVE  /\ \/ new[l][kind] = Unset
                  \/ new[l][kind] = Scrap /\ l = 1
                  \/ /\ new[l].name \in Names
                     /\ new[l][kind] = Sample[new[l].name][kind]
               /\ ~Beyond(t) /\ new[l][kind] = Scrap => content[l][kind] = Scrap
    <3>1. CASE l = k
      BY <1>2, <1>5, <2>1, <2>2, <3>1
    <3>2. CASE l # k
      BY <1>1, <1>2, <2>2, <3>2 DEF Matched
    <3> QED  BY <3>1, <3>2
  <2>3. Matched(new)
    BY <1>2, <2>2 DEF Matched
  <2>4. ASSUME ~Beyond(t), Scrapped(u)  PROVE Scrapped(t)
    <3>1. PICK kind \in HashKinds : m >= 1 /\ new[1][kind] = Scrap
      BY <1>2, <2>4 DEF Scrapped
    <3>2. 1 \in 1 .. m
      BY <3>1
    <3> QED  BY <1>1, <2>2, <2>4, <3>1, <3>2 DEF Scrapped
  <2> QED  BY <2>3, <2>4
<1>8. /\ at <= Len(f) /\ \A q \in 1 .. at : f[q].end
      /\ at > 0 => t.line = f[at]
  BY <1>1, Zenon DEF Parses, Reading
<1>9. ASSUME NEW q \in 1 .. at, f[q].kind = "name", Between(f, q, at)
      PROVE  Begun(u, f[q].text)
  <2>1. q = at
    <3>1. q # at => at \in q + 1 .. at /\ at > 0
      OBVIOUS
    <3> QED  BY <1>8, <1>9, <3>1 DEF Between, IsHash
  <2>2. at > 0 /\ t.line = f[q]
    BY <1>8, <2>1
  <2>3. name = f[q].text
    BY <1>1, <2>2
  <2>4. k >= 1
    BY <1>3
  <2> QED  BY <1>2, <2>3, <2>4 DEF Begun
<1> QED  BY <1>1, <1>6, <1>7, <1>8, <1>9 DEF Parsed

LEMMA NoTextIsScrap ==
  \A kind \in HashKinds : Scrap \notin Texts(kind)
<1>1. Scrap # Unset /\ Scrap \notin DOMAIN Bytes
  BY TbtAssumption
<1>2. \A n \in Names : Sample[n].ctph # Scrap
  BY TbtAssumption DEF Names
<1> QED  BY <1>1, <1>2, TextsOfKinds DEF HashKinds

(* A hash belongs to the entry begun last.                                 *)
LEMMA ParsedHash ==
  ASSUME NEW f \in Seq(Lines), IsHashFile(f), NEW t, NEW u,
         NEW content \in Seq(Entries), NEW k, NEW kind \in HashKinds,
         NEW text \in Texts(kind), NEW new,
         t.at \in Nat, t.file_count \in Nat, Parses(t, f), Matched(content),
         t.line.kind = kind, t.line.text = text,
         content = t.content, k = t.file_count, k \in 1 .. Len(content),
         new = Store(content, k, kind, text),
         u.content = new, u.file_count = k, u.at = t.at
  PROVE  Parsed(u, f) /\ Matched(u.content)
<1>1. PICK at \in Nat, m \in Nat, l \in Nat :
        at = t.at /\ m = Len(content) /\ l = Len(f)
  OBVIOUS
<1>2. /\ Len(new) = m /\ new[k].name = content[k].name /\ new[k][kind] = text
      /\ \A other \in HashKinds : other # kind =>
           new[k][other] = content[k][other]
      /\ \A j \in 1 .. m : j # k => new[j] = content[j]
  <2>1. ASSUME NEW c \in Seq(Entries), NEW i \in 1 .. Len(c), NEW d,
               d = Store(c, i, kind, text)
        PROVE  /\ Len(d) = Len(c) /\ d[i].name = c[i].name /\ d[i][kind] = text
               /\ \A other \in HashKinds : other # kind => d[i][other] = c[i][other]
               /\ \A j \in 1 .. Len(c) : j # i => d[j] = c[j]
    BY <2>1, HashStored
  <2> QED  BY <1>1, <2>1
<1>3. at > 0 /\ at \in 1 .. l /\ t.line = f[at] /\ \A q \in 1 .. at : f[q].end
  <2>1. at # 0 /\ at <= l
    BY <1>1 DEF Parses, Reading
  <2>2. at > 0 /\ at \in 1 .. l
    BY <2>1
  <2> QED  BY <1>1, <2>2 DEF Parses, Reading
<1>4. ASSUME NEW q \in 1 .. at - 1, Under(f, q, at)
      PROVE  k >= 1 /\ content[k].name = f[q].text
  BY <1>1, <1>4 DEF Parses, Begun
<1>5. PICK q \in 1 .. at - 1 :
        Under(f, q, at) /\ text = Sample[f[q].text][kind]
  <2>1. f[at].kind = kind /\ f[at].text = text /\ IsHash(f[at])
    BY <1>3 DEF IsHash, HashKinds
  <2> QED  BY <1>1, <1>3, <2>1 DEF IsHashFile
<1>6. content[k].name \in Names /\ text = Sample[content[k].name][kind]
  <2>1. f[q].kind = "name" /\ q \in 1 .. l
    BY <1>1, <1>3, <1>5 DEF Under
  <2>2. f[q].text \in Names
    BY <1>1, <2>1 DEF IsHashFile
  <2> QED  BY <1>4, <1>5, <2>2
<1>7. Unbegun(new, k)
  <2>1. \A j \in k + 1 .. m : j \in 1 .. m /\ j # k
    BY <1>1
  <2>2. \A j \in k + 1 .. m : content[j] = NoEntry
    BY <1>1, Zenon DEF Parses, Unbegun
  <2> QED  BY <1>2, <2>1, <2>2, Zenon DEF Unbegun
<1>8. Matched(new)
  <2>1. ASSUME NEW j \in 1 .. m, NEW other \in HashKinds
        PROVE  \/ new[j][other] = Unset
               \/ new[j][other] = Scrap /\ j = 1
               \/ /\ new[j].name \in Names
                  /\ new[j][other] = Sample[new[j].name][other]
    <3>1. CASE j = k /\ other = kind
      BY <1>2, <1>6, <3>1
    <3>2. CASE j = k /\ other # kind
      BY <1>1, <1>2, <2>1, <3>2 DEF Matched
    <3>3. CASE j # k
      BY <1>1, <1>2, <2>1, <3>3 DEF Matched
    <3> QED  BY <3>1, <3>2, <3>3
  <2> QED  BY <1>2, <2>1 DEF Matched
<1>9. ASSUME NEW p \in 1 .. at, f[p].kind = "name", Between(f, p, at)
      PROVE  Begun(u, f[p].text)
  <2>1. p # at
    BY <1>3, <1>9 DEF HashKinds
  <2>2. p \in 1 .. at - 1 /\ p < at
    BY <2>1
  <2>3. Under(f, p, at)
    BY <1>9, <2>2 DEF Under, Between
  <2> QED  BY <1>2, <1>4, <2>2, <2>3 DEF Begun
<1> QED  BY <1>1, <1>3, <1>7, <1>8, <1>9 DEF Parsed, Parses, Reading

(* A hash is no scrap.                                                     *)
LEMMA HashIsNoScrap ==
  ASSUME NEW t, NEW u, t.content \in Seq(Entries), NEW k \in 1 .. Len(t.content),
         NEW kind \in HashKinds, NEW text \in Texts(kind),
         u.content = Store(t.content, k, kind, text), Scrapped(u)
  PROVE  Scrapped(t)
<1> DEFINE content == t.content
           new == u.content
<1>1. PICK other \in HashKinds : Len(new) >= 1 /\ new[1][other] = Scrap
  BY DEF Scrapped
<1>2. /\ Len(new) = Len(content) /\ new[k][kind] = text
      /\ \A o \in HashKinds : o # kind => new[k][o] = content[k][o]
      /\ \A j \in 1 .. Len(content) : j # k => new[j] = content[j]
  <2>1. new = Store(content, k, kind, text) /\ content \in Seq(Entries)
        /\ k \in 1 .. Len(content)
    OBVIOUS
  <2> HIDE DEF new, content
  <2> QED  BY <2>1, HashStored
<1>3. Len(content) \in Nat /\ text # Scrap
  BY NoTextIsScrap
<1>4. 1 \in 1 .. Len(content)
  BY <1>1, <1>2, <1>3
<1>5. content[1][other] = Scrap
  BY <1>1, <1>2, <1>3, <1>4
<1> QED  BY <1>1, <1>2, <1>5 DEF Scrapped

(* Nothing is stored: there is no name before the line.                    *)
LEMMA ParsedNothing ==
  ASSUME NEW f, NEW t, t.at \in Nat, Parses(t, f),
         t.line.kind # "name", IsHash(t.line) => t.file_count = 0
  PROVE  Parsed(t, f)
<1>1. PICK at \in Nat : at = t.at
  OBVIOUS
<1>2. /\ at <= Len(f) /\ \A q \in 1 .. at : f[q].end
      /\ at > 0 => t.line = f[at]
      /\ Unbegun(t.content, t.file_count)
  BY <1>1, Zenon DEF Parses, Reading
<1>3. ASSUME NEW q \in 1 .. at, f[q].kind = "name", Between(f, q, at)
      PROVE  Begun(t, f[q].text)
  <2>1. at > 0
    OBVIOUS
  <2>2. q # at
    BY <1>2, <1>3, <2>1
  <2>3. q \in 1 .. at - 1 /\ q < at /\ at \in q + 1 .. at
    BY <2>2
  <2>4. Under(f, q, at) /\ IsHash(f[at])
    BY <1>3, <2>3 DEF Under, Between
  <2>5. Begun(t, f[q].text)
    BY <1>1, <2>3, <2>4 DEF Parses
  <2> QED  BY <2>5
<1> QED  BY <1>1, <1>2, <1>3 DEF Parsed

(* A name of a line that was read is one of a file.                        *)
LEMMA WholeLines ==
  ASSUME NEW f \in Seq(Lines), IsHashFile(f), NEW t, Reading(t, f),
         t.at \in Nat, t.at > 0
  PROVE  /\ t.at \in 1 .. Len(f) /\ t.line = f[t.at]
         /\ t.line.kind # "hole"
         /\ t.line.kind = "name" => ~Beyond(t) /\ t.line.text \in Names
<1>1. PICK at \in Nat, l \in Nat : at = t.at /\ l = Len(f)
  OBVIOUS
<1>2. at \in 1 .. l /\ at \in 1 .. at
  BY <1>1 DEF Reading
<1>3. t.line = f[at] /\ f[at].end
  BY <1>1, <1>2 DEF Reading
<1>4. f[at].kind # "hole" /\ (f[at].kind = "name" => f[at].text \in Names)
  BY <1>1, <1>2 DEF IsHashFile
<1>5. Unset \notin Names
  BY TbtAssumption DEF Names
<1> QED  BY <1>1, <1>2, <1>3, <1>4, <1>5 DEF Beyond

(* Who took a scrap stays an entry ahead of those counted, and so cannot   *)
(* come to the end: it would have parsed more entries than were counted.   *)
LEMMA ScrapsGoOn ==
  ASSUME NEW f \in Seq(Lines), IsHashFile(f), NEW t, NEW v,
         t.at \in Nat, t.at > 0, Reading(t, f), t.file_count \in Nat,
         t.line.kind = "name" \/ IsHash(t.line),
         t.file_count <= t.nb_files, v.nb_files = t.nb_files, v.at = t.at,
         v.file_count = IF IsHash(t.line) THEN t.file_count ELSE t.file_count + 1,
         CutOff(t, f), t.file_count >= 1 + Counted(f, t.at - 1)
  PROVE  /\ CutOff(v, f)
         /\ v.file_count >= 1 + Counted(f, v.at)
         /\ Ends(f, v.at) # {}
<1>1. PICK at \in Nat, l \in Nat, b \in Nat :
        at = t.at /\ l = Len(f) /\ b = t.at - 1 /\ at = b + 1
  OBVIOUS
<1>2. CutOff(v, f)
  BY DEF CutOff
<1>3. t.line = f[at]
  BY <1>1, WholeLines
<1>4. /\ Counted(f, at) = IF IsHash(f[at]) THEN Counted(f, b) ELSE Counted(f, b) + 1
      /\ Counted(f, b) \in Nat /\ Counted(f, at) \in Nat
  BY <1>1, CountedNext, CountedType
<1>5. v.file_count >= 1 + Counted(f, at)
  BY <1>1, <1>3, <1>4
<1>6. PICK m \in 0 .. l : /\ \A k \in 1 .. m : f[k].end
                          /\ t.nb_files = Counted(f, m)
                          /\ m > 0 => f[m].kind # "name"
  BY <1>1 DEF CutOff
<1>7. ASSUME Ends(f, at) = {}  PROVE FALSE
  <2>1. m <= at
    <3>1. m > at => m \in at + 1 .. l /\ m \in 1 .. m
      BY <1>1, <1>6
    <3>2. m > at => m \in Ends(f, at)
      BY <1>1, <1>6, <3>1 DEF Ends
    <3> QED  BY <1>1, <1>6, <1>7, <3>2
  <2>2. m \in Nat /\ Counted(f, m) \in Nat
    <3>1. m \in Nat
      BY <1>6
    <3> QED  BY <3>1, CountedType
  <2>3. CASE m <= b
    <3>1. Counted(f, m) <= Counted(f, b)
      BY <1>1, <2>2, <2>3, CountedRises
    <3> QED  BY <1>1, <1>4, <1>6, <2>2, <3>1
  <2>4. CASE m = at
    <3>1. f[at].kind # "name"
      BY <1>1, <1>6, <2>4
    <3>2. IsHash(f[at])
      BY <1>3, <3>1
    <3>3. Counted(f, m) = Counted(f, b)
      BY <1>4, <2>4, <3>2
    <3>4. t.file_count >= 1 + Counted(f, b) /\ t.file_count <= Counted(f, b)
      BY <1>1, <1>6, <3>3
    <3> QED  BY <1>4, <3>4
  <2> QED  BY <1>1, <2>1, <2>2, <2>3, <2>4
<1> QED  BY <1>1, <1>2, <1>5, <1>7

-----------------------------------------------------------------------------
(***************************************************************************)
(* The invariant: what the one writer of a file has written, and what a    *)
(* reader has made of it.                                                  *)
(***************************************************************************)

(* At most one of the memories m has opened the file at path.              *)
Sole(m, path) ==
  \A q, r \in Process : m[q].OUTPUT = path /\ m[r].OUTPUT = path => q = r

Alone(m, path) == path \in Path => Sole(m, path)

(* The file was there, or somebody has created it.                         *)
Known(m, path) ==
  Disk[path] # Null \/ \E q \in Process : m[q].OUTPUT = path

(* What a process has not done yet.                                        *)
Fresh(t) ==
  /\ t.pc \in {"access", "create"} =>
       t.OUTPUT = Null /\ t.out = <<>> /\ t.flushed = 0
  /\ t.pc \in {"access", "create", "fopen"} => t.at = 0
  /\ t.pc \in {"access", "create", "fopen", "count"} =>
       t.file_count = 0 /\ t.content = <<>>

WritesWell(t, m, disk) ==
  t.OUTPUT # Null /\ Sole(m, t.OUTPUT) => Written(t, disk[t.OUTPUT])

ReadsWell(t, m, disk) ==
  /\ t.pc \in {"count", "parse"} => Known(m, t.command.argument)
  /\ Alone(m, t.command.argument) => Reader(t, disk[t.command.argument])

ReadInv ==
  /\ TypeInv
  /\ \A path \in Path : fs[path] # Null => Known(tbt, path)
  /\ \A p \in Process :
       /\ Fresh(tbt[p])
       /\ HashesUnder(tbt[p].out)
       /\ WritesWell(tbt[p], tbt, fs)
       /\ ReadsWell(tbt[p], tbt, fs)

(* A file with one writer at most is a hash file.                          *)
LEMMA KnownIsFile ==
  ASSUME ReadInv, NEW path \in Path, Known(tbt, path), Sole(tbt, path)
  PROVE  fs[path] \in Seq(Lines) /\ IsHashFile(fs[path])
<1>1. CASE Disk[path] # Null
  <2>1. fs[path] = Disk[path]
    BY <1>1 DEF ReadInv, TypeInv, TbtInv, Disks, ExistingFilesStay
  <2>2. fs[path] \in Seq(Lines)
    BY <1>1, <2>1 DEF ReadInv, TypeInv, TypedFiles
  <2>3. IsHashFile(Disk[path])
    BY <1>1, InputAssumption
  <2> QED  BY <2>1, <2>2, <2>3
<1>2. CASE \E q \in Process : tbt[q].OUTPUT = path
  <2>1. PICK q \in Process : tbt[q].OUTPUT = path
    BY <1>2
  <2>2. path # Null
    BY TbtAssumption DEF Path
  <2> DEFINE t == tbt[q]
             f == fs[path]
  <2>3. /\ t.out \in Seq(Printable) /\ t.flushed \in 0 .. Len(t.out)
        /\ f \in Seq(Lines)
    BY <2>1, <2>2 DEF ReadInv, TypeInv, Typed, Opened
  <2>4. Written(t, f) /\ HashesUnder(t.out)
    BY <2>1, <2>2 DEF ReadInv, WritesWell
  <2> HIDE DEF t, f
  <2>5. f \in Seq(Lines) /\ IsHashFile(f)
    BY <2>3, <2>4, WrittenIsHashFile
  <2> QED  BY <2>5 DEF f
<1> QED  BY <1>1, <1>2 DEF Known

(* A step sets the memory of one process, and may write the file this      *)
(* process has opened: nobody else is concerned.                           *)
LEMMA ReadInvKept ==
  ASSUME ReadInv, TypeInv', NEW p \in Process, NEW u, Set(p, u),
         u.OUTPUT = tbt[p].OUTPUT \/ tbt[p].OUTPUT = Null,
         Fresh(u), HashesUnder(u.out),
         \A path \in Path : path # u.OUTPUT => fs'[path] = fs[path],
         u.OUTPUT # Null /\ Sole(tbt', u.OUTPUT) =>
           /\ Written(u, fs'[u.OUTPUT])
           /\ Known(tbt, u.OUTPUT) => Extends(fs[u.OUTPUT], fs'[u.OUTPUT]),
         u.pc \in {"count", "parse"} => Known(tbt, u.command.argument),
         Alone(tbt', u.command.argument) =>
           Reader(u, fs'[u.command.argument])
  PROVE  ReadInv'
<1>1. /\ tbt'[p] = u /\ \A q \in Process : q # p => tbt'[q] = tbt[q]
      /\ TypeInv /\ Null \notin Path
  BY TbtAssumption DEF ReadInv, Set, TypeInv, TbtInv, Memories, Path
<1>2. ASSUME NEW path, path # Null
      PROVE  /\ \A q \in Process : tbt[q].OUTPUT = path => tbt'[q].OUTPUT = path
             /\ Known(tbt, path) => Known(tbt', path)
             /\ Sole(tbt', path) => Sole(tbt, path)
  <2>1. \A q \in Process : tbt[q].OUTPUT = path => tbt'[q].OUTPUT = path
    BY <1>1, <1>2
  <2> QED  BY <2>1 DEF Known, Sole
<1>3. u.OUTPUT # Null => u.OUTPUT \in Path /\ Known(tbt', u.OUTPUT)
  <2>1. Typed(u)
    BY <1>1 DEF TypeInv, Typed
  <2> QED  BY <1>1, <2>1 DEF Typed, IsCommand, Known
<1>4. ASSUME NEW path \in Path, fs'[path] # Null  PROVE Known(tbt', path)
  <2>1. CASE path = u.OUTPUT
    BY <1>1, <1>3, <2>1
  <2>2. CASE path # u.OUTPUT
    <3>1. Known(tbt, path)
      BY <1>4, <2>2 DEF ReadInv
    <3> QED  BY <1>1, <1>2, <3>1
  <2> QED  BY <2>1, <2>2
<1>5. WritesWell(u, tbt', fs')
  BY DEF WritesWell
<1>6. ReadsWell(u, tbt', fs')
  <2>1. Typed(u)
    BY <1>1 DEF TypeInv, Typed
  <2>2. u.pc \in {"count", "parse"} => u.command.argument \in Path
    BY <2>1 DEF Typed, IsCommand, Places
  <2> QED  BY <1>1, <1>2, <2>2 DEF ReadsWell
<1>7. ASSUME NEW q \in Process, q # p
      PROVE  WritesWell(tbt[q], tbt', fs') /\ ReadsWell(tbt[q], tbt', fs')
  <2> DEFINE t == tbt[q]
             output == t.OUTPUT
             argument == t.command.argument
  <2>1. /\ Typed(t) /\ Opened(t, fs) /\ WritesWell(t, tbt, fs)
        /\ ReadsWell(t, tbt, fs)
    BY DEF ReadInv, TypeInv
  <2>2. ASSUME output # Null, Sole(tbt', output)
        PROVE  Written(t, fs'[output])
    <3>1. output \in Path
      BY <2>1, <2>2 DEF Typed, IsCommand
    <3>2. output # u.OUTPUT
      BY <1>1, <1>7, <2>2 DEF Sole
    <3>3. Written(t, fs[output])
      BY <1>2, <2>1, <2>2 DEF WritesWell
    <3> QED  BY <3>1, <3>2, <3>3
  <2>3. t.pc \in {"count", "parse"} =>
          /\ argument \in Path /\ Known(tbt, argument)
          /\ Known(tbt', argument) /\ fs[argument] \in Seq(Lines)
    <3>1. t.pc \in {"count", "parse"} => argument \in Path
      BY <2>1 DEF Typed, IsCommand, Places
    <3> QED  BY <1>1, <1>2, <2>1, <3>1 DEF ReadsWell, Opened
  <2>4. ASSUME Alone(tbt', argument)  PROVE Reader(t, fs'[argument])
    <3>1. CASE t.pc \notin {"count", "parse"}
      <4>1. Alone(tbt, argument)
        BY <1>1, <1>2, <2>4 DEF Alone
      <4>2. Reader(t, fs[argument])
        BY <2>1, <4>1 DEF ReadsWell
      <4> QED  BY <3>1, <4>2 DEF Reader, Scraps
    <3>2. CASE t.pc \in {"count", "parse"}
      <4>1. Reader(t, fs[argument])
        BY <1>1, <1>2, <2>1, <2>3, <2>4, <3>2 DEF ReadsWell, Alone
      <4>2. CASE argument # u.OUTPUT
        BY <2>3, <3>2, <4>1, <4>2
      <4>3. CASE argument = u.OUTPUT
        <5>1. Extends(fs[argument], fs'[argument])
          BY <1>1, <2>3, <2>4, <3>2, <4>3 DEF Alone
        <5>2. fs'[argument] \in Seq(Lines)
          <6>1. Typed(tbt'[q]) /\ Opened(tbt'[q], fs')
            BY DEF TypeInv, Typed, Opened
          <6> QED  BY <1>1, <1>7, <3>2, <6>1 DEF Opened
        <5>3. t.at \in Nat
          BY <2>1 DEF Typed
        <5> HIDE DEF t, argument
        <5> QED  BY <2>3, <3>2, <4>1, <5>1, <5>2, <5>3, ReaderOn
      <4> QED  BY <4>2, <4>3
    <3> QED  BY <3>1, <3>2
  <2> QED  BY <2>2, <2>3, <2>4 DEF WritesWell, ReadsWell
<1>8. ASSUME NEW q \in Process
      PROVE  /\ Fresh(tbt'[q]) /\ HashesUnder(tbt'[q].out)
             /\ WritesWell(tbt'[q], tbt', fs') /\ ReadsWell(tbt'[q], tbt', fs')
  <2>1. CASE q = p
    BY <1>1, <1>5, <1>6, <2>1
  <2>2. CASE q # p
    BY <1>1, <1>7, <2>2 DEF ReadInv
  <2> QED  BY <2>1, <2>2
<1>9. Path' = Path
  BY DEF Path
<1> QED
  BY <1>4, <1>8
  DEF ReadInv, Fresh, HashesUnder, WritesWell, ReadsWell, Known

(* A step that writes nothing and opens no file to write.                  *)
LEMMA LocalReads ==
  ASSUME ReadInv, TypeInv', NEW p \in Process, NEW u, Set(p, u), UNCHANGED fs,
         u.command = tbt[p].command, u.OUTPUT = tbt[p].OUTPUT,
         Fresh(u), HashesUnder(u.out),
         \A f \in Seq(Lines) : Written(tbt[p], f) => Written(u, f),
         u.pc \in {"count", "parse"} => Known(tbt, u.command.argument),
         Alone(tbt, u.command.argument) => Reader(u, fs[u.command.argument])
  PROVE  ReadInv'
<1>1. /\ tbt'[p] = u /\ \A q \in Process : q # p => tbt'[q] = tbt[q]
      /\ Typed(tbt[p]) /\ Opened(tbt[p], fs) /\ WritesWell(tbt[p], tbt, fs)
  BY DEF ReadInv, Set, TypeInv, TbtInv, Memories
<1>2. \A q \in Process : tbt'[q].OUTPUT = tbt[q].OUTPUT
  BY <1>1
<1>3. \A path : (Sole(tbt', path) => Sole(tbt, path))
  BY <1>2 DEF Sole
<1>4. \A path : (Alone(tbt', path) => Alone(tbt, path))
  BY <1>3 DEF Alone
<1>5. ASSUME u.OUTPUT # Null, Sole(tbt', u.OUTPUT)
      PROVE  /\ Written(u, fs'[u.OUTPUT])
             /\ Extends(fs[u.OUTPUT], fs'[u.OUTPUT])
  <2>1. fs[u.OUTPUT] \in Seq(Lines) /\ Written(tbt[p], fs[u.OUTPUT])
    BY <1>1, <1>3, <1>5 DEF Opened, WritesWell
  <2> DEFINE f == fs[u.OUTPUT]
  <2>2. Extends(f, f)
    <3>1. f \in Seq(Lines)
      BY <2>1
    <3>2. PICK n \in Nat : n = Len(f)
      BY <3>1
    <3> HIDE DEF f
    <3> QED  BY <3>2 DEF Extends
  <2> QED  BY <2>1, <2>2
<1> QED  BY <1>3, <1>4, <1>5, ReadInvKept

(* A step that only goes on, to a place where nothing is read.             *)
LEMMA IdleReads ==
  ASSUME ReadInv, TypeInv', NEW p \in Process, NEW u, Set(p, u), UNCHANGED fs,
         u.command = tbt[p].command, u.OUTPUT = tbt[p].OUTPUT,
         u.out = tbt[p].out, u.flushed = tbt[p].flushed,
         u.content = tbt[p].content,
         u.pc \notin {"access", "create", "fopen", "count", "parse"},
         u.pc \in {"choose", "compare"} =>
           tbt[p].pc \in {"choose", "compare"} /\ u.nb_files = tbt[p].nb_files
  PROVE  ReadInv'
<1>1. HashesUnder(tbt[p].out) /\ ReadsWell(tbt[p], tbt, fs)
  BY DEF ReadInv
<1>2. \A f \in Seq(Lines) : Written(tbt[p], f) => Written(u, f)
  BY DEF Written
<1>3. Fresh(u)
  BY DEF Fresh
<1>4. Alone(tbt, u.command.argument) => Reader(u, fs[u.command.argument])
  BY <1>1 DEF ReadsWell, Reader, Scraps, Scrapped
<1> QED  BY <1>1, <1>2, <1>3, <1>4, LocalReads

(* A step that prints more.                                                *)
LEMMA PrintReads ==
  ASSUME ReadInv, TypeInv', NEW p \in Process, NEW u, Set(p, u), UNCHANGED fs,
         u.command = tbt[p].command, u.OUTPUT = tbt[p].OUTPUT,
         NEW more \in Seq(Printable), HashesUnder(more),
         u.out = tbt[p].out \o more, u.flushed = tbt[p].flushed,
         u.content = tbt[p].content,
         u.pc \notin {"access", "create", "fopen", "count", "parse"},
         u.pc \in {"choose", "compare"} =>
           tbt[p].pc \in {"choose", "compare"} /\ u.nb_files = tbt[p].nb_files
  PROVE  ReadInv'
<1>1. /\ HashesUnder(tbt[p].out) /\ ReadsWell(tbt[p], tbt, fs)
      /\ tbt[p].out \in Seq(Printable) /\ tbt[p].flushed \in 0 .. Len(tbt[p].out)
  BY DEF ReadInv, TypeInv, Typed
<1>2. ASSUME NEW f \in Seq(Lines), Written(tbt[p], f)  PROVE Written(u, f)
  BY <1>1, <1>2, WrittenBefore
<1>3. Fresh(u)
  BY DEF Fresh
<1>4. Alone(tbt, u.command.argument) => Reader(u, fs[u.command.argument])
  BY <1>1 DEF ReadsWell, Reader, Scraps, Scrapped
<1>5. HashesUnder(u.out)
  BY <1>1, HashesJoined
<1> QED  BY <1>2, <1>3, <1>4, <1>5, LocalReads

LEMMA ReaderSame ==
  ASSUME NEW t, NEW u, NEW f, u.at = t.at, u.line = t.line,
         u.content = t.content, u.file_count = t.file_count,
         u.nb_files = t.nb_files,
         u.pc = t.pc \/ u.pc \notin {"count", "parse", "choose", "compare"},
         Reader(t, f)
  PROVE  Reader(u, f)
<1>1. /\ u.pc = "count" => Reading(u, f)
      /\ u.pc = "parse" => Parses(u, f)
      /\ Matched(u.content)
  BY DEF Reader, Parses, Reading, Begun
<1>2. Scraps(u, f)
  BY DEF Reader, Scraps, Scrapped, Beyond, CutOff
<1> QED  BY <1>1, <1>2 DEF Reader

(* A step that writes n lines, and the beginning of one perhaps.           *)
LEMMA WriteReads ==
  ASSUME ReadInv, TypeInv', NEW p \in Process, NEW u, Set(p, u),
         u.command = tbt[p].command, u.OUTPUT = tbt[p].OUTPUT,
         u.out = tbt[p].out, u.at = tbt[p].at, u.line = tbt[p].line,
         u.content = tbt[p].content, u.file_count = tbt[p].file_count,
         u.nb_files = tbt[p].nb_files,
         u.pc = tbt[p].pc \/ u.pc = "done",
         tbt[p].OUTPUT # Null, NEW lines \in Seq(Lines),
         fs' = [fs EXCEPT ![tbt[p].OUTPUT] = Write(@, tbt[p].flushed, lines)],
         NEW n \in 0 .. Len(tbt[p].out) - tbt[p].flushed,
         u.flushed = tbt[p].flushed + n,
         \A k \in 1 .. n : lines[k] = tbt[p].out[tbt[p].flushed + k],
         \/ Len(lines) = n
         \/ /\ n < Len(tbt[p].out) - tbt[p].flushed /\ Len(lines) = n + 1
            /\ lines[n + 1] = Cut(tbt[p].out[tbt[p].flushed + (n + 1)])
  PROVE  ReadInv'
<1> DEFINE t == tbt[p]
           output == t.OUTPUT
           argument == t.command.argument
<1>1. /\ tbt'[p] = u /\ \A q \in Process : q # p => tbt'[q] = tbt[q]
      /\ Typed(t) /\ Opened(t, fs) /\ WritesWell(t, tbt, fs)
      /\ ReadsWell(t, tbt, fs) /\ Fresh(t) /\ HashesUnder(t.out)
      /\ DOMAIN fs = Path
  BY DEF ReadInv, Set, TypeInv, TbtInv, Memories, Disks
<1>2. \A q \in Process : tbt'[q].OUTPUT = tbt[q].OUTPUT
  BY <1>1
<1>3. \A path : (Sole(tbt', path) => Sole(tbt, path))
  BY <1>2 DEF Sole
<1>4. \A path : (Alone(tbt', path) => Alone(tbt, path))
  BY <1>3 DEF Alone
<1>5. /\ output \in Path /\ fs[output] \in Seq(Lines)
      /\ t.out \in Seq(Printable) /\ t.flushed \in 0 .. Len(t.out)
  BY <1>1 DEF Typed, Opened, IsCommand
<1> DEFINE g == Write(fs[output], t.flushed, lines)
<1>6. fs'[output] = g /\ \A path \in Path : path # output => fs'[path] = fs[path]
  BY <1>1, <1>5
<1>7. ASSUME Sole(tbt, output)
      PROVE  Written(u, g) /\ Extends(fs[output], g)
  <2>1. Written(t, fs[output])
    BY <1>1, <1>7 DEF WritesWell
  <2> QED  BY <1>5, <2>1, WrittenOn
<1>8. Fresh(u)
  BY <1>1 DEF Fresh
<1>9. u.pc \in {"count", "parse"} => Known(tbt, argument)
  BY <1>1 DEF ReadsWell
<1>10. ASSUME Alone(tbt, argument)  PROVE Reader(u, fs'[argument])
  <2>1. Reader(t, fs[argument])
    BY <1>1, <1>10 DEF ReadsWell
  <2>2. Reader(u, fs[argument])
    BY <2>1, ReaderSame
  <2>3. CASE u.pc \in {"count", "parse"}
    <3>1. argument \in Path /\ fs[argument] \in Seq(Lines)
      BY <1>1, <2>3 DEF Typed, IsCommand, Places, Opened
    <3>2. CASE argument # output
      BY <1>6, <2>2, <3>1, <3>2
    <3>3. CASE argument = output
      <4>1. Extends(fs[argument], fs'[argument])
        BY <1>6, <1>7, <1>10, <3>1, <3>3 DEF Alone
      <4>2. fs'[argument] \in Seq(Lines)
        <5>1. TypedFiles' /\ Opened(tbt'[p], fs') /\ tbt'[p].OUTPUT = output
          BY <1>1 DEF TypeInv, Opened
        <5> QED  BY <1>1, <1>5, <3>3, <5>1 DEF Opened, Typed
      <4>3. u.at \in Nat
        BY <1>1 DEF Typed
      <4> QED  BY <2>2, <3>1, <4>1, <4>2, <4>3, ReaderOn
    <3> QED  BY <3>2, <3>3
  <2>4. CASE u.pc \notin {"count", "parse"}
    BY <2>2, <2>4 DEF Reader, Scraps
  <2> QED  BY <2>3, <2>4
<1> HIDE DEF g
<1> QED  BY <1>1, <1>3, <1>4, <1>6, <1>7, <1>8, <1>9, <1>10, ReadInvKept

-----------------------------------------------------------------------------
(***************************************************************************)
(* The steps, one by one.                                                  *)
(***************************************************************************)

LEMMA ExitReads ==
  ASSUME ReadInv, TypeInv', NEW p \in Process, NEW code, Exit(p, code)
  PROVE  ReadInv'
<1> DEFINE t == tbt[p]
           u == [t EXCEPT !.pc = "done", !.code = code, !.flushed = Len(t.out)]
<1>1. DOMAIN t = Field /\ Typed(t)
  BY DEF ReadInv, TypeInv, TbtInv, Memories, IsMemory
<1>2. /\ u.command = t.command /\ u.OUTPUT = t.OUTPUT /\ u.out = t.out
      /\ u.at = t.at /\ u.line = t.line /\ u.content = t.content
      /\ u.file_count = t.file_count /\ u.nb_files = t.nb_files
      /\ u.pc = "done" /\ u.flushed = Len(t.out)
  BY <1>1 DEF Field
<1>3. Set(p, u)
  BY DEF Exit
<1> HIDE DEF u
<1>4. t.out \in Seq(Printable) /\ t.flushed \in 0 .. Len(t.out)
  BY <1>1 DEF Typed
<1>5. PICK m \in Nat, o \in Nat, n \in Nat :
        m = t.flushed /\ o = Len(t.out) /\ n = o - m /\ m <= o /\ o = m + n
  <2>1. PICK m \in Nat, o \in Nat : m = t.flushed /\ o = Len(t.out) /\ m <= o
    BY <1>4
  <2>2. o - m \in Nat /\ o = m + (o - m)
    BY <2>1
  <2> QED  BY <2>1, <2>2
<1>6. /\ Pending(t) \in Seq(Printable) /\ Len(Pending(t)) = n
      /\ \A k \in 1 .. n : Pending(t)[k] = t.out[t.flushed + k]
  BY <1>4, <1>5, PendingType
<1>7. CASE t.OUTPUT = Null /\ UNCHANGED fs
  <2>1. HashesUnder(t.out) /\ ReadsWell(t, tbt, fs)
    BY DEF ReadInv
  <2>2. /\ tbt'[p] = u
        /\ \A q \in Process : q # p => tbt'[q] = tbt[q]
    BY <1>3 DEF ReadInv, Set, TypeInv, TbtInv, Memories
  <2>3. \A path : Sole(tbt', path) => Sole(tbt, path)
    BY <1>2, <2>2 DEF Sole
  <2>4. Fresh(u)
    BY <1>2 DEF Fresh
  <2>5. Alone(tbt', u.command.argument) => Reader(u, fs'[u.command.argument])
    BY <1>2, <1>7, <2>1, <2>3 DEF ReadsWell, Reader, Scraps, Alone
  <2> HIDE DEF t
  <2> QED  BY <1>2, <1>3, <1>7, <2>1, <2>4, <2>5, ReadInvKept DEF t
<1>8. CASE Pending(t) = <<>> /\ UNCHANGED fs
  <2>1. n = 0
    BY <1>6, <1>8
  <2>2. u.flushed = t.flushed
    BY <1>2, <1>5, <2>1
  <2> QED  BY <1>2, <1>3, <1>8, <2>2, IdleReads
<1>9. CASE /\ t.OUTPUT # Null
           /\ fs' = [fs EXCEPT ![t.OUTPUT] = Write(@, t.flushed, Pending(t))]
  <2>1. n \in 0 .. Len(t.out) - t.flushed /\ u.flushed = t.flushed + n
    BY <1>2, <1>5
  <2>2. Pending(t) \in Seq(Lines)
    BY <1>6, PrintedAreLines
  <2>3. PICK lines \in Seq(Lines), k \in 0 .. Len(t.out) - t.flushed :
          lines = Pending(t) /\ k = n
    BY <2>1, <2>2
  <2>4. /\ u.flushed = t.flushed + k /\ Len(lines) = k
        /\ \A l \in 1 .. k : lines[l] = t.out[t.flushed + l]
        /\ fs' = [fs EXCEPT ![t.OUTPUT] = Write(@, t.flushed, lines)]
    BY <1>6, <1>9, <2>1, <2>3
  <2>5. /\ u.command = t.command /\ u.OUTPUT = t.OUTPUT /\ u.out = t.out
        /\ u.at = t.at /\ u.line = t.line /\ u.content = t.content
        /\ u.file_count = t.file_count /\ u.nb_files = t.nb_files
        /\ u.pc = t.pc \/ u.pc = "done"
    BY <1>2
  <2>6. t.OUTPUT # Null
    BY <1>9
  <2> HIDE DEF t
  <2>7. ReadInv'
    BY <1>3, <2>4, <2>5, <2>6, WriteReads DEF t
  <2> QED  BY <2>7
<1> QED  BY <1>7, <1>8, <1>9 DEF Exit

LEMMA FlushReads ==
  ASSUME ReadInv, TypeInv', NEW p \in Process, Flush(p)
  PROVE  ReadInv'
<1> DEFINE t == tbt[p]
<1>1. DOMAIN t = Field /\ Typed(t) /\ t.OUTPUT # Null
  BY DEF ReadInv, TypeInv, TbtInv, Memories, IsMemory, Flush
<1>2. PICK lines \in Starts(Pending(t)) :
        /\ fs' = [fs EXCEPT ![t.OUTPUT] = Write(@, t.flushed, lines)]
        /\ Set(p, [t EXCEPT
                     !.flushed = @ + Cardinality({k \in DOMAIN lines : lines[k].end})])
  BY DEF Flush
<1>3. /\ t.out \in Seq(Printable) /\ t.flushed \in 0 .. Len(t.out)
  BY <1>1 DEF Typed
<1>4. /\ Pending(t) \in Seq(Printable)
      /\ Len(Pending(t)) = Len(t.out) - t.flushed
      /\ \A k \in 1 .. Len(Pending(t)) : Pending(t)[k] = t.out[t.flushed + k]
  BY <1>3, PendingType
<1> DEFINE pending == Pending(t)
<1>5. PICK n \in 0 .. Len(pending) :
        /\ Cardinality({k \in DOMAIN lines : lines[k].end}) = n
        /\ \A k \in 1 .. n : lines[k] = pending[k]
        /\ \/ Len(lines) = n
           \/ /\ n < Len(pending) /\ Len(lines) = n + 1
              /\ lines[n + 1] = Cut(pending[n + 1])
  BY <1>4, StartsType
<1>6. lines \in Seq(Lines)
  BY <1>4, StartsType
<1>7. PICK o \in Nat : o = Len(pending) /\ o = Len(t.out) - t.flushed
  BY <1>4
<1> DEFINE u == [t EXCEPT !.flushed = @ + n]
<1>8. /\ u.command = t.command /\ u.OUTPUT = t.OUTPUT /\ u.out = t.out
      /\ u.at = t.at /\ u.line = t.line /\ u.content = t.content
      /\ u.file_count = t.file_count /\ u.nb_files = t.nb_files
      /\ u.pc = t.pc /\ u.flushed = t.flushed + n
  BY <1>1 DEF Field
<1>9. Set(p, u)
  BY <1>2, <1>5
<1> HIDE DEF u
<1>10. \A k \in 1 .. o : pending[k] = t.out[t.flushed + k]
  BY <1>4, <1>7
<1> HIDE DEF pending
<1>11. n \in 0 .. o /\ \A k \in 1 .. n : k \in 1 .. o
  BY <1>7
<1>12. n < o => n + 1 \in 1 .. o
  BY <1>11
<1>13. /\ \A k \in 1 .. n : lines[k] = t.out[t.flushed + k]
       /\ \/ Len(lines) = n
          \/ /\ n < Len(t.out) - t.flushed /\ Len(lines) = n + 1
             /\ lines[n + 1] = Cut(t.out[t.flushed + (n + 1)])
  BY <1>5, <1>7, <1>10, <1>11, <1>12, Zenon
<1>14. n \in 0 .. Len(t.out) - t.flushed
  BY <1>7, <1>11, Zenon
<1> QED  BY <1>1, <1>2, <1>6, <1>8, <1>9, <1>13, <1>14, WriteReads

LEMMA GotoReads ==
  ASSUME ReadInv, TypeInv', NEW p \in Process, NEW pc, Goto(p, pc),
         UNCHANGED fs, pc \in {"close", "killed"}
  PROVE  ReadInv'
<1> DEFINE t == tbt[p]
           u == [t EXCEPT !.pc = pc]
<1>1. DOMAIN t = Field
  BY DEF ReadInv, TypeInv, TbtInv, Memories, IsMemory
<1>2. /\ u.command = t.command /\ u.OUTPUT = t.OUTPUT /\ u.out = t.out
      /\ u.content = t.content /\ u.pc = pc /\ u.flushed = t.flushed
  BY <1>1 DEF Field
<1>3. Set(p, u)
  BY DEF Goto
<1> HIDE DEF u
<1> QED  BY <1>2, <1>3, IdleReads

(* On the way to the files nothing is printed or read yet.                 *)
LEMMA AccessReads ==
  ASSUME ReadInv, TypeInv', NEW p \in Process, Access(p)
  PROVE  ReadInv'
<1> DEFINE t == tbt[p]
<1>1. /\ DOMAIN t = Field /\ Fresh(t) /\ t.pc = "access" /\ HashesUnder(t.out)
  BY DEF ReadInv, TypeInv, TbtInv, Memories, IsMemory, Access
<1>2. ASSUME NEW pc, Goto(p, pc), UNCHANGED fs,
             pc \in {"create", "stat", "fopen"}
      PROVE  ReadInv'
  <2> DEFINE u == [t EXCEPT !.pc = pc]
  <2>1. /\ u.command = t.command /\ u.OUTPUT = t.OUTPUT /\ u.out = t.out
        /\ u.content = t.content /\ u.pc = pc /\ u.flushed = t.flushed
        /\ u.at = t.at /\ u.file_count = t.file_count
    BY <1>1 DEF Field
  <2>2. Set(p, u)
    BY <1>2 DEF Goto
  <2> HIDE DEF u
  <2>3. Fresh(u)
    BY <1>1, <1>2, <2>1 DEF Fresh
  <2>4. \A f : Reader(u, f)
    <3>1. u.content = <<>>
      BY <1>1, <2>1 DEF Fresh
    <3> QED  BY <1>2, <2>1, <3>1 DEF Reader, Scraps, Matched
  <2>5. \A f \in Seq(Lines) : Written(t, f) => Written(u, f)
    BY <2>1 DEF Written
  <2> QED  BY <1>1, <1>2, <2>1, <2>2, <2>3, <2>4, <2>5, LocalReads
<1>3. Mode(p) \in {"create", "stat", "fopen"}
  BY DEF Mode
<1>4. CASE Exit(p, 1)
  BY <1>4, ExitReads
<1> QED  BY <1>2, <1>3, <1>4 DEF Access

(* The file is empty, and what was in it is read by nobody: it was not     *)
(* there, or somebody else writes it too.                                  *)
LEMMA CreateReads ==
  ASSUME ReadInv, TypeInv', NEW p \in Process, Create(p)
  PROVE  ReadInv'
<1> DEFINE t == tbt[p]
           output == t.command.output
           u == [t EXCEPT !.pc = Mode(p), !.OUTPUT = output]
<1>1. /\ DOMAIN t = Field /\ Fresh(t) /\ t.pc = "create" /\ HashesUnder(t.out)
      /\ Typed(t) /\ Aside(t) /\ DOMAIN fs = Path
  BY DEF ReadInv, TypeInv, TbtInv, Memories, IsMemory, Create, Disks
<1>2. /\ t.OUTPUT = Null /\ t.out = <<>> /\ t.flushed = 0 /\ t.at = 0
      /\ t.file_count = 0 /\ t.content = <<>>
  BY <1>1 DEF Fresh
<1>3. output \in Path /\ output # Null
  BY <1>1 DEF Typed, IsCommand
<1>4. CASE fs' = [fs EXCEPT ![output] = <<>>] /\ Set(p, u)
  <2>1. /\ u.command = t.command /\ u.OUTPUT = output /\ u.out = <<>>
        /\ u.content = <<>> /\ u.pc = Mode(p) /\ u.flushed = 0
        /\ u.at = 0 /\ u.file_count = 0
    BY <1>1, <1>2 DEF Field
  <2>2. Mode(p) \in {"stat", "fopen"}
    BY DEF Mode
  <2> HIDE DEF u
  <2>3. Fresh(u) /\ HashesUnder(u.out) /\ \A f : Reader(u, f)
    BY <2>1, <2>2 DEF Fresh, HashesUnder, NamesFollowed, Reader, Scraps, Matched
  <2>4. fs'[output] = <<>> /\ \A path \in Path : path # output => fs'[path] = fs[path]
    BY <1>1, <1>3, <1>4
  <2>5. Written(u, <<>>)
    BY <2>1 DEF Written
  <2>6. ~(Known(tbt, output) /\ Sole(tbt', output))
    <3>1. Disk[output] = Null
      BY <1>1, <1>3 DEF Aside
    <3>2. ASSUME NEW q \in Process, tbt[q].OUTPUT = output
          PROVE  ~Sole(tbt', output)
      <4>1. q # p
        BY <1>2, <1>3, <3>2
      <4>2. tbt'[q].OUTPUT = output /\ tbt'[p].OUTPUT = output
        BY <1>4, <2>1, <3>2, <4>1 DEF Set, ReadInv, TypeInv, TbtInv, Memories
      <4> QED  BY <4>1, <4>2 DEF Sole
    <3> QED  BY <3>1, <3>2 DEF Known
  <2>7. u.pc \notin {"count", "parse"}
    BY <2>1, <2>2
  <2> QED  BY <1>2, <1>4, <2>1, <2>3, <2>4, <2>5, <2>6, <2>7, ReadInvKept
<1>5. CASE Exit(p, 1)
  BY <1>5, ExitReads
<1> QED  BY <1>4, <1>5 DEF Create

LEMMA StatReads ==
  ASSUME ReadInv, TypeInv', NEW p \in Process, Stat(p)
  PROVE  ReadInv'
<1> DEFINE t == tbt[p]
           read(names) == [t EXCEPT !.pc = "readdir", !.files = names]
           fail == [t EXCEPT !.pc = "close", !.code = 1]
<1>1. DOMAIN t = Field
  BY DEF ReadInv, TypeInv, TbtInv, Memories, IsMemory
<1>2. ASSUME NEW names, Set(p, read(names)), UNCHANGED fs  PROVE ReadInv'
  <2> DEFINE u == read(names)
  <2>1. /\ u.command = t.command /\ u.OUTPUT = t.OUTPUT /\ u.out = t.out
        /\ u.content = t.content /\ u.pc = "readdir" /\ u.flushed = t.flushed
    BY <1>1 DEF Field
  <2>2. Set(p, u)
    BY <1>2
  <2> HIDE DEF u
  <2> QED  BY <1>2, <2>1, <2>2, IdleReads
<1>3. CASE Set(p, fail) /\ UNCHANGED fs
  <2>1. /\ fail.command = t.command /\ fail.OUTPUT = t.OUTPUT
        /\ fail.out = t.out /\ fail.content = t.content
        /\ fail.pc = "close" /\ fail.flushed = t.flushed
    BY <1>1 DEF Field
  <2> HIDE DEF fail
  <2> QED  BY <1>3, <2>1, IdleReads
<1>4. CASE Exit(p, 1)
  BY <1>4, ExitReads
<1>5. \/ \E names : Set(p, read(names)) /\ UNCHANGED fs
      \/ Set(p, fail) /\ UNCHANGED fs
      \/ Exit(p, 1)
  BY DEF Stat
<1> HIDE DEF read, fail
<1> QED  BY <1>2, <1>3, <1>4, <1>5

(* The hashes of a file are printed under its name.                        *)
LEMMA TreatReads ==
  ASSUME ReadInv, TypeInv', NEW p \in Process, treat_dir(p)
  PROVE  ReadInv'
<1> DEFINE t == tbt[p]
<1>1. DOMAIN t = Field /\ Typed(t) /\ t.pc = "readdir" /\ UNCHANGED fs
  BY DEF ReadInv, TypeInv, TbtInv, Memories, IsMemory, treat_dir
<1>2. ASSUME NEW name \in t.files, treat_file(p, name)  PROVE ReadInv'
  <2> DEFINE u == [t EXCEPT !.files = @ \ {name},
                            !.out = IF Sample[name].elf
                                      THEN @ \o Printed(t.algorithm, name)
                                      ELSE @]
             lines == Printed(t.algorithm, name)
  <2>1. /\ u.command = t.command /\ u.OUTPUT = t.OUTPUT
        /\ u.out = IF Sample[name].elf THEN t.out \o lines ELSE t.out
        /\ u.content = t.content /\ u.pc = "readdir" /\ u.flushed = t.flushed
    BY <1>1 DEF Field
  <2>2. Set(p, u)
    BY <1>2 DEF treat_file
  <2> HIDE DEF u
  <2>3. CASE Sample[name].elf
    <3>1. lines \in Seq(Printable)
      BY <1>1, <2>3, PrintedType DEF Typed, Names
    <3>2. HashesUnder(lines)
      BY <1>1, <2>3, PrintedUnder DEF Typed, Names
    <3> HIDE DEF lines
    <3>3. u.out = t.out \o lines
      BY <2>1, <2>3
    <3> QED  BY <1>1, <2>1, <2>2, <3>1, <3>2, <3>3, PrintReads
  <2>4. CASE ~Sample[name].elf
    BY <1>1, <2>1, <2>2, <2>4, IdleReads
  <2> QED  BY <2>3, <2>4
<1>3. CASE Goto(p, "close")
  BY <1>1, <1>3, GotoReads
<1> QED  BY <1>2, <1>3 DEF treat_dir

LEMMA FopenReads ==
  ASSUME ReadInv, TypeInv', NEW p \in Process, Fopen(p)
  PROVE  ReadInv'
<1> DEFINE t == tbt[p]
           u == [t EXCEPT !.pc = "count",
                          !.settled = Settled(t.command.argument)]
<1>1. /\ DOMAIN t = Field /\ Fresh(t) /\ t.pc = "fopen" /\ HashesUnder(t.out)
      /\ Typed(t)
  BY DEF ReadInv, TypeInv, TbtInv, Memories, IsMemory, Fopen
<1>2. CASE Exit(p, 1)
  BY <1>2, ExitReads
<1>3. CASE In(p) # Null /\ Set(p, u) /\ UNCHANGED fs
  <2>1. /\ u.command = t.command /\ u.OUTPUT = t.OUTPUT /\ u.out = t.out
        /\ u.content = t.content /\ u.pc = "count" /\ u.flushed = t.flushed
        /\ u.at = t.at /\ u.file_count = t.file_count
        /\ u.nb_files = t.nb_files
    BY <1>1 DEF Field
  <2>2. t.command.argument \in Path
    BY <1>1 DEF Typed, IsCommand, Places
  <2>3. Known(tbt, t.command.argument) /\ In(p) \in Seq(Lines)
    BY <1>3, <2>2 DEF ReadInv, TypeInv, TypedFiles, In
  <2> HIDE DEF u
  <2>4. Fresh(u)
    BY <1>1, <2>1 DEF Fresh
  <2>5. Reader(u, In(p))
    <3>1. u.at = 0 /\ u.content = <<>> /\ u.nb_files = 0
      BY <1>1, <2>1 DEF Fresh, Typed
    <3>2. 0 <= Len(In(p)) /\ Counted(In(p), 0) = 0
      BY <2>3, CountedNone
    <3> QED  BY <2>1, <3>1, <3>2 DEF Reader, Scraps, Reading, Matched
  <2>6. \A f \in Seq(Lines) : Written(t, f) => Written(u, f)
    BY <2>1 DEF Written
  <2> QED  BY <1>1, <1>3, <2>1, <2>3, <2>4, <2>5, <2>6, LocalReads DEF In
<1> QED  BY <1>2, <1>3 DEF Fopen

(* A step of a reader, whose file is a hash file if one process at most    *)
(* has written it.                                                         *)
LEMMA ReadingReads ==
  ASSUME ReadInv, TypeInv', NEW p \in Process, NEW u, Set(p, u), UNCHANGED fs,
         tbt[p].pc \in {"count", "parse"},
         u.command = tbt[p].command, u.OUTPUT = tbt[p].OUTPUT,
         u.out = tbt[p].out, u.flushed = tbt[p].flushed, Fresh(u),
         /\ In(p) \in Seq(Lines) /\ IsHashFile(In(p)) /\ Reader(tbt[p], In(p))
           => Reader(u, In(p))
  PROVE  ReadInv'
<1> DEFINE t == tbt[p]
           argument == t.command.argument
<1>1. /\ HashesUnder(t.out) /\ ReadsWell(t, tbt, fs) /\ Typed(t)
  BY DEF ReadInv, TypeInv
<1>2. argument \in Path /\ Known(tbt, argument)
  BY <1>1 DEF ReadsWell, Typed, IsCommand, Places
<1>3. \A f \in Seq(Lines) : Written(t, f) => Written(u, f)
  BY DEF Written
<1>4. ASSUME Alone(tbt, argument)  PROVE Reader(u, In(p))
  <2>1. In(p) \in Seq(Lines) /\ IsHashFile(In(p))
    BY <1>2, <1>4, KnownIsFile DEF Alone, In
  <2>2. Reader(t, In(p))
    BY <1>1, <1>4 DEF ReadsWell, In
  <2> QED  BY <2>1, <2>2
<1> QED  BY <1>1, <1>2, <1>3, <1>4, LocalReads DEF In

LEMMA CountLineReads ==
  ASSUME ReadInv, TypeInv', NEW p \in Process, CountLine(p)
  PROVE  ReadInv'
<1> DEFINE t == tbt[p]
           v == Read(t, In(p))
           u == [v EXCEPT !.nb_files = IF IsHash(v.line) THEN @ ELSE @ + 1]
<1>1. /\ DOMAIN t = Field /\ Typed(t) /\ Fresh(t) /\ t.pc = "count"
      /\ Ends(In(p), t.at) # {} /\ Set(p, u) /\ UNCHANGED fs
  BY DEF ReadInv, TypeInv, TbtInv, Memories, IsMemory, CountLine
<1>2. /\ DOMAIN v = Field /\ v.command = t.command /\ v.OUTPUT = t.OUTPUT
      /\ v.pc = t.pc /\ v.out = t.out /\ v.flushed = t.flushed
      /\ v.content = t.content /\ v.file_count = t.file_count
      /\ v.at = Min(Ends(In(p), t.at)) /\ v.line = Fgets(In(p), t.at)
      /\ v.nb_files = t.nb_files
  BY <1>1, ReadFields
<1> HIDE DEF v
<1>3. /\ u.command = t.command /\ u.OUTPUT = t.OUTPUT
      /\ u.pc = t.pc /\ u.out = t.out /\ u.flushed = t.flushed
      /\ u.content = t.content /\ u.file_count = t.file_count
      /\ u.at = v.at /\ u.line = v.line
      /\ u.nb_files = IF IsHash(v.line) THEN t.nb_files ELSE t.nb_files + 1
  BY <1>2 DEF Field
<1> HIDE DEF u
<1>4. Fresh(u)
  BY <1>1, <1>3 DEF Fresh
<1>5. ASSUME In(p) \in Seq(Lines), IsHashFile(In(p)), Reader(t, In(p))
      PROVE  Reader(u, In(p))
  <2>1. /\ Reading(t, In(p)) /\ Matched(t.content)
        /\ t.nb_files = Counted(In(p), t.at)
    BY <1>1, <1>5 DEF Reader, Scraps
  <2>2. t.at \in Nat /\ \A k \in 1 .. t.at : In(p)[k].end
    BY <1>1, <2>1 DEF Typed, Reading
  <2>3. u.at = Min(Ends(In(p), t.at)) /\ u.line = Fgets(In(p), t.at)
    BY <1>2, <1>3
  <2> DEFINE f == In(p)
  <2>4. Reading(u, f)
    <3>1. /\ f \in Seq(Lines) /\ IsHashFile(f) /\ Ends(f, t.at) # {}
          /\ \A k \in 1 .. t.at : f[k].end
          /\ u.at = Min(Ends(f, t.at)) /\ u.line = Fgets(f, t.at)
      BY <1>1, <1>5, <2>2, <2>3
    <3> HIDE DEF f
    <3> QED  BY <1>1, <2>2, <3>1, ReadsOn
  <2>5. u.nb_files = Counted(f, u.at)
    <3>1. u.at = t.at + 1 /\ v.line = f[t.at + 1]
      BY <1>1, <1>2, <1>3, <1>5, <2>2, FgetsNext
    <3>2. Counted(f, t.at + 1) = IF IsHash(f[t.at + 1]) THEN Counted(f, t.at)
                                 ELSE Counted(f, t.at) + 1
      BY <2>2, CountedNext
    <3> QED  BY <1>3, <2>1, <3>1, <3>2
  <2> QED  BY <1>1, <1>3, <2>1, <2>4, <2>5 DEF Reader, Scraps
<1> QED  BY <1>1, <1>3, <1>4, <1>5, ReadingReads

(* A name that is cut off stands behind a hash.                            *)
LEMMA CutBehind ==
  ASSUME NEW f \in Seq(Lines), IsHashFile(f), NEW t, NEW v, Reading(t, f),
         t.at \in Nat, Ends(f, t.at) = {}, Len(f) > t.at,
         t.nb_files = Counted(f, t.at), v.nb_files = t.nb_files,
         NEW line, line = Cut(Fgets(f, t.at)), line.kind = "name"
  PROVE  CutOff(v, f)
<1>1. PICK at \in Nat, l \in Nat : at = t.at /\ l = Len(f) /\ l > at
  OBVIOUS
<1>2. l = at + 1
  <2>1. \A k \in 1 .. l - 1 : f[k].end
    BY <1>1 DEF IsHashFile
  <2>2. l > at + 1 => at + 1 \in 1 .. l - 1 /\ at + 1 \in at + 1 .. l
    BY <1>1
  <2>3. l > at + 1 => at + 1 \in Ends(f, at)
    BY <1>1, <2>1, <2>2 DEF Ends
  <2> QED  BY <1>1, <2>3
<1>3. Fgets(f, at) = f[at + 1]
  BY <1>1, <1>2 DEF Fgets
<1>4. at + 1 \in 1 .. l /\ f[at + 1] \in Lines
  <2>1. at + 1 \in 1 .. l
    BY <1>1, <1>2
  <2> QED  BY <1>1, <2>1
<1>5. f[at + 1].kind = "name"
  BY <1>1, <1>3, <1>4, CutIsLine
<1>6. ASSUME at > 0  PROVE f[at].kind # "name"
  <2>1. at \in 1 .. l /\ at < l
    BY <1>1, <1>6
  <2>2. f[at].kind = "name" => IsHash(f[at + 1])
    BY <1>1, <2>1 DEF IsHashFile
  <2> QED  BY <1>5, <2>2 DEF IsHash
<1>7. at \in 0 .. l /\ \A k \in 1 .. at : f[k].end
  BY <1>1 DEF Reading
<1> QED  BY <1>1, <1>6, <1>7 DEF CutOff

LEMMA CountEndReads ==
  ASSUME ReadInv, TypeInv', NEW p \in Process, CountEnd(p)
  PROVE  ReadInv'
<1> DEFINE t == tbt[p]
           content == [k \in 1 .. t.nb_files + 1 |-> NoEntry]
           u(line) == [t EXCEPT !.pc = "parse", !.at = 0, !.line = line,
                                !.content = content]
<1>1. /\ DOMAIN t = Field /\ Fresh(t) /\ t.pc = "count" /\ UNCHANGED fs
      /\ t.nb_files \in Nat /\ t.at \in Nat /\ Ends(In(p), t.at) = {}
  BY DEF ReadInv, TypeInv, TbtInv, Memories, IsMemory, Typed, CountEnd
<1>2. PICK line : /\ Set(p, u(line))
                  /\ \/ Len(In(p)) > t.at /\ line = Cut(Fgets(In(p), t.at))
                     \/ t.at > 0 /\ line = t.line
                     \/ ~(t.at > 0)
  BY DEF CountEnd
<1> DEFINE v == u(line)
<1>3. /\ v.command = t.command /\ v.OUTPUT = t.OUTPUT /\ v.pc = "parse"
      /\ v.out = t.out /\ v.flushed = t.flushed /\ v.at = 0
      /\ v.content = content /\ v.file_count = t.file_count
      /\ v.line = line /\ v.nb_files = t.nb_files
  BY <1>1 DEF Field
<1>4. t.file_count = 0
  BY <1>1 DEF Fresh
<1>5. Set(p, v)
  BY <1>2
<1>6. \A k \in 1 .. Len(content) : content[k] = NoEntry
  BY <1>1
<1> HIDE DEF u, v, content
<1>7. Fresh(v)
  BY <1>3 DEF Fresh
<1>8. ASSUME In(p) \in Seq(Lines), IsHashFile(In(p)), Reader(t, In(p))
      PROVE  Reader(v, In(p))
  <2>1. 0 <= Len(In(p))
    BY <1>8
  <2>2. Unbegun(content, 0) /\ Matched(content)
    BY <1>6 DEF Unbegun, Matched, NoEntry, HashKinds
  <2>3. Parses(v, In(p))
    BY <1>3, <1>4, <2>1, <2>2 DEF Parses, Reading
  <2>4. ~Scrapped(v)
    <3>1. Scrap # Unset
      BY TbtAssumption
    <3>2. ASSUME NEW kind \in HashKinds, Len(content) >= 1, content[1][kind] = Scrap
          PROVE  FALSE
      <4>1. content[1] = NoEntry
        BY <1>1, <1>6, <3>2
      <4> QED  BY <3>1, <3>2, <4>1 DEF NoEntry, HashKinds
    <3> QED  BY <1>3, <3>2 DEF Scrapped
  <2> DEFINE f == In(p)
  <2>5. ASSUME line.kind = "name", Beyond(v)  PROVE CutOff(v, f)
    <3>1. Reading(t, f) /\ t.nb_files = Counted(f, t.at)
      BY <1>1, <1>8 DEF Reader, Scraps
    <3> HIDE DEF f
    <3>2. CASE Len(f) > t.at /\ line = Cut(Fgets(f, t.at))
      BY <1>1, <1>3, <1>8, <2>5, <3>1, <3>2, CutBehind DEF f
    <3>3. CASE t.at > 0 /\ line = t.line
      <4>1. ~Beyond(t)
        BY <1>1, <1>8, <2>5, <3>1, <3>3, WholeLines DEF f
      <4> QED  BY <1>3, <2>5, <3>3, <4>1 DEF Beyond
    <3>4. CASE ~(t.at > 0)
      <4>1. t.at = 0 /\ 0 \in 0 .. Len(f)
        BY <1>1, <2>1, <3>4 DEF f
      <4> QED  BY <1>3, <3>1, <4>1 DEF CutOff
    <3> QED  BY <1>2, <3>2, <3>3, <3>4 DEF f
  <2>6. Scraps(v, f)
    BY <1>3, <2>4, <2>5 DEF Scraps
  <2> QED  BY <1>3, <2>2, <2>3, <2>6 DEF Reader
<1> QED  BY <1>1, <1>3, <1>5, <1>7, <1>8, ReadingReads

(* The line has been parsed into v, and the next is read.                  *)
LEMMA ReadNextReads ==
  ASSUME ReadInv, TypeInv', NEW p \in Process, tbt[p].pc = "parse",
         NEW v, DOMAIN v = Field, ReadNext(p, v),
         v.pc = "parse", v.command = tbt[p].command, v.OUTPUT = tbt[p].OUTPUT,
         v.out = tbt[p].out, v.flushed = tbt[p].flushed, v.at = tbt[p].at,
         /\ In(p) \in Seq(Lines) /\ IsHashFile(In(p)) /\ Reader(tbt[p], In(p))
           => Parsed(v, In(p)) /\ Matched(v.content) /\ ScrapsParsed(v, In(p))
  PROVE  ReadInv'
<1>1. PICK u : /\ Set(p, u) /\ UNCHANGED fs
               /\ u = IF Ends(In(p), v.at) = {} THEN [v EXCEPT !.pc = "choose"]
                      ELSE Read(v, In(p))
  BY DEF ReadNext
<1>2. /\ u.command = v.command /\ u.OUTPUT = v.OUTPUT /\ u.out = v.out
      /\ u.flushed = v.flushed /\ u.pc \in {"parse", "choose"}
  <2>1. CASE u = [v EXCEPT !.pc = "choose"]
    BY <2>1 DEF Field
  <2>2. CASE u = Read(v, In(p))
    BY <2>2 DEF Field, Read
  <2> QED  BY <1>1, <2>1, <2>2
<1>3. v.at \in Nat
  BY DEF ReadInv, TypeInv, Typed
<1> DEFINE f == In(p)
<1>4. u = IF Ends(f, v.at) = {} THEN [v EXCEPT !.pc = "choose"] ELSE Read(v, f)
  BY <1>1
<1>5. ASSUME f \in Seq(Lines), IsHashFile(f), Reader(tbt[p], f)
      PROVE  Reader(u, f)
  <2>1. Parsed(v, f) /\ Matched(v.content) /\ ScrapsParsed(v, f)
    BY <1>5
  <2> HIDE DEF f
  <2> QED  BY <1>3, <1>4, <1>5, <2>1, ReadsNext
<1>6. Fresh(u)
  BY <1>2 DEF Fresh
<1> QED  BY <1>1, <1>2, <1>5, <1>6, ReadingReads

LEMMA ParseNameReads ==
  ASSUME ReadInv, TypeInv', NEW p \in Process, ParseName(p)
  PROVE  ReadInv'
<1> DEFINE t == tbt[p]
           k == t.file_count + 1
<1>1. PICK name \in {t.line.text, Unset}, kinds \in SUBSET HashKinds :
        /\ ReadNext(p, Named(t, name, kinds))
        /\ ~Beyond(t) => name = t.line.text /\ kinds = {}
  BY ParseNameStores DEF HashKinds
<1>2. /\ Typed(t) /\ IsMemory(t) /\ t.pc = "parse" /\ t.line.kind = "name"
      /\ t.file_count <= t.nb_files
  BY DEF ReadInv, TypeInv, TbtInv, Memories, ParseName, Parsing
<1>3. name \in Names \cup {Unset}
  <2>1. t.line.text \in Texts("name") \cup {Unset}
    BY <1>2 DEF Typed, IsBuffer
  <2> QED  BY <1>1, <2>1, TextsOfKinds
<1>4. /\ k \in 1 .. Len(t.content) /\ t.content \in Seq(Entries)
      /\ t.at \in Nat /\ t.file_count \in Nat
  BY <1>2 DEF Typed, IsMemory
<1> DEFINE v == Named(t, name, kinds)
<1>5. /\ DOMAIN v = Field
      /\ v.content = Enter(t.content, k, name, kinds)
      /\ v.file_count = k /\ v.command = t.command /\ v.OUTPUT = t.OUTPUT
      /\ v.pc = t.pc /\ v.out = t.out /\ v.flushed = t.flushed
      /\ v.at = t.at /\ v.nb_files = t.nb_files
  BY <1>2, NamedFields DEF IsMemory
<1>6. ReadNext(p, v)
  BY <1>1
<1> HIDE DEF v
<1>7. ASSUME In(p) \in Seq(Lines), IsHashFile(In(p)), Reader(t, In(p))
      PROVE  Parsed(v, In(p)) /\ Matched(v.content) /\ ScrapsParsed(v, In(p))
  <2> DEFINE f == In(p)
             content == t.content
             new == v.content
  <2>1. /\ Parses(t, f) /\ Matched(content) /\ Scraps(t, f) /\ Reading(t, f)
        /\ f \in Seq(Lines) /\ IsHashFile(f)
    BY <1>2, <1>7 DEF Reader, Parses
  <2> HIDE DEF f
  <2>2. t.at > 0 => ~Beyond(t)
    BY <1>2, <1>4, <2>1, WholeLines
  <2>3. /\ Parsed(v, f) /\ Matched(v.content)
        /\ ~Beyond(t) /\ Scrapped(v) => Scrapped(t)
    <3>1. /\ content \in Seq(Entries) /\ content = t.content
          /\ k \in 1 .. Len(content) /\ k = t.file_count + 1
          /\ new = Enter(content, k, name, kinds) /\ new = v.content
          /\ Matched(content)
      BY <1>4, <1>5, <2>1
    <3> HIDE DEF content, new, k
    <3> QED  BY <1>1, <1>2, <1>3, <1>4, <1>5, <2>1, <2>2, <3>1, ParsedName
  <2>4. ASSUME Scrapped(v), t.at = 0
        PROVE  /\ CutOff(v, f) /\ v.file_count >= 1 + Counted(f, v.at)
               /\ Ends(f, v.at) = {} => v.nb_files = 0
    <3>1. Beyond(t) /\ CutOff(t, f)
      BY <1>2, <2>1, <2>3, <2>4 DEF Scraps
    <3>2. CutOff(v, f)
      BY <1>5, <3>1 DEF CutOff
    <3>3. v.file_count >= 1 + Counted(f, v.at)
      BY <1>4, <1>5, <2>4, CountedNone
    <3>4. ASSUME Ends(f, 0) = {}  PROVE t.nb_files = 0
      <4>1. PICK l \in Nat : l = Len(f)
        BY <2>1
      <4>2. PICK m \in 0 .. l : /\ \A q \in 1 .. m : f[q].end
                                /\ t.nb_files = Counted(f, m)
        BY <3>1, <4>1 DEF CutOff
      <4>3. m # 0 => m \in 0 + 1 .. l /\ m \in 1 .. m
        BY <4>2
      <4>4. m = 0
        BY <3>4, <4>1, <4>2, <4>3 DEF Ends
      <4> QED  BY <4>2, <4>4, CountedNone
    <3> QED  BY <1>5, <2>4, <3>2, <3>3, <3>4
  <2>5. ASSUME Scrapped(v), t.at > 0
        PROVE  /\ CutOff(v, f) /\ v.file_count >= 1 + Counted(f, v.at)
               /\ Ends(f, v.at) = {} => v.nb_files = 0
    <3>1. CutOff(t, f) /\ t.file_count >= 1 + Counted(f, t.at - 1)
      BY <1>2, <2>1, <2>2, <2>3, <2>5 DEF Scraps
    <3>2. ~IsHash(t.line)
      BY <1>2 DEF IsHash
    <3> HIDE DEF t, k
    <3> QED  BY <1>2, <1>4, <1>5, <2>1, <2>5, <3>1, <3>2, ScrapsGoOn DEF k
  <2>6. ScrapsParsed(v, f)
    BY <1>4, <2>4, <2>5 DEF ScrapsParsed
  <2> QED  BY <2>3, <2>6 DEF f
<1> QED  BY <1>2, <1>5, <1>6, <1>7, ReadNextReads

LEMMA ParseHashReads ==
  ASSUME ReadInv, TypeInv', NEW p \in Process, ParseHash(p)
  PROVE  ReadInv'
<1> DEFINE t == tbt[p]
           k == t.file_count
           kind == t.line.kind
           text == t.line.text
<1>1. ReadNext(p, IF t.file_count = 0 THEN t ELSE Hashed(t))
  BY DEF ParseHash, Hashed
<1>2. /\ Typed(t) /\ IsMemory(t) /\ t.pc = "parse" /\ DOMAIN t = Field
      /\ kind \in HashKinds /\ t.file_count <= t.nb_files /\ IsHash(t.line)
  BY DEF ReadInv, TypeInv, TbtInv, Memories, ParseHash, Parsing, IsHash,
         HashKinds, IsMemory
<1>3. t.at \in Nat /\ t.file_count \in Nat
  BY <1>2 DEF Typed, IsMemory
<1>4. CASE t.file_count = 0
  <2>1. ASSUME Reader(t, In(p))
        PROVE  Parsed(t, In(p)) /\ Matched(t.content) /\ ScrapsParsed(t, In(p))
    <3>1. Parses(t, In(p)) /\ Matched(t.content) /\ Scraps(t, In(p))
      BY <1>2, <2>1 DEF Reader
    <3>2. t.line.kind # "name"
      BY <1>2 DEF HashKinds
    <3>3. ~Scrapped(t)
      <4>1. t.at - 1 \in Nat => Counted(In(p), t.at - 1) \in Nat
        BY CountedType
      <4> QED  BY <1>2, <1>3, <1>4, <3>1, <4>1 DEF Scraps
    <3> QED  BY <1>3, <1>4, <3>1, <3>2, <3>3, ParsedNothing DEF ScrapsParsed
  <2> QED  BY <1>1, <1>2, <1>4, <2>1, ReadNextReads
<1>5. CASE t.file_count # 0
  <2>1. text \in Texts(kind)
    <3>1. text \in Texts(kind) \cup {Unset}
      BY <1>2 DEF Typed, IsBuffer
    <3>2. Unset \in Texts(kind)
      BY <1>2, TextsOfKinds DEF HashKinds
    <3> QED  BY <3>1, <3>2
  <2>2. k \in 1 .. Len(t.content) /\ t.content \in Seq(Entries)
    BY <1>2, <1>5 DEF Typed, IsMemory
  <2> DEFINE v == Hashed(t)
  <2>3. /\ DOMAIN v = Field
        /\ v.content = Store(t.content, k, kind, text)
        /\ v.file_count = k /\ v.command = t.command /\ v.OUTPUT = t.OUTPUT
        /\ v.pc = t.pc /\ v.out = t.out /\ v.flushed = t.flushed
        /\ v.at = t.at /\ v.nb_files = t.nb_files
    BY <1>2, HashedFields
  <2>4. ReadNext(p, v)
    BY <1>1, <1>5
  <2> HIDE DEF v
  <2>5. ASSUME In(p) \in Seq(Lines), IsHashFile(In(p)), Reader(t, In(p))
        PROVE  Parsed(v, In(p)) /\ Matched(v.content) /\ ScrapsParsed(v, In(p))
    <3>1. Parses(t, In(p)) /\ Matched(t.content) /\ Scraps(t, In(p))
      BY <1>2, <2>5 DEF Reader
    <3> DEFINE content == t.content
               new == v.content
               f == In(p)
    <3>2. /\ content \in Seq(Entries) /\ content = t.content
          /\ k \in 1 .. Len(content) /\ k = t.file_count
          /\ new = Store(content, k, kind, text) /\ new = v.content
          /\ Matched(content) /\ t.line.kind = kind /\ t.line.text = text
          /\ f \in Seq(Lines) /\ IsHashFile(f) /\ Parses(t, f)
          /\ kind \in HashKinds /\ text \in Texts(kind)
          /\ v.file_count = k /\ v.at = t.at
      BY <1>2, <2>1, <2>2, <2>3, <2>5, <3>1
    <3> HIDE DEF content, new, k, kind, text, f, t
    <3>3. Parsed(v, f) /\ Matched(v.content)
      BY <1>3, <3>2, ParsedHash
    <3>4. ASSUME Scrapped(v)
          PROVE  /\ CutOff(v, f) /\ v.file_count >= 1 + Counted(f, v.at)
                 /\ Ends(f, v.at) # {}
      <4>1. /\ t.at > 0 /\ CutOff(t, f)
            /\ t.file_count >= 1 + Counted(f, t.at - 1)
        <5>1. /\ t.content \in Seq(Entries) /\ k \in 1 .. Len(t.content)
              /\ v.content = Store(t.content, k, kind, text)
              /\ kind \in HashKinds /\ text \in Texts(kind)
          BY <3>2
        <5>2. Scrapped(t)
          BY <3>4, <5>1, HashIsNoScrap
        <5> QED  BY <1>2, <3>1, <5>2 DEF Scraps, f
      <4>2. Reading(t, f) /\ f \in Seq(Lines) /\ IsHashFile(f)
        BY <3>2 DEF Parses
      <4>3. /\ v.nb_files = t.nb_files /\ v.at = t.at
            /\ v.file_count = t.file_count
        BY <2>3, <3>2
      <4> HIDE DEF t
      <4> QED  BY <1>2, <1>3, <4>1, <4>2, <4>3, ScrapsGoOn
    <3>5. ScrapsParsed(v, f)
      BY <3>4 DEF ScrapsParsed
    <3> QED  BY <3>3, <3>5 DEF f
  <2> QED  BY <1>2, <2>3, <2>4, <2>5, ReadNextReads
<1> QED  BY <1>4, <1>5

LEMMA ParseNothingReads ==
  ASSUME ReadInv, TypeInv', NEW p \in Process, ParseNothing(p)
  PROVE  ReadInv'
<1> DEFINE t == tbt[p]
<1>1. /\ Typed(t) /\ DOMAIN t = Field /\ t.pc = "parse"
      /\ t.line.kind = "hole" /\ ReadNext(p, t)
  BY DEF ReadInv, TypeInv, TbtInv, Memories, IsMemory, ParseNothing, Parsing
<1>2. ASSUME In(p) \in Seq(Lines), IsHashFile(In(p)), Reader(t, In(p))
      PROVE  Parsed(t, In(p)) /\ Matched(t.content) /\ ScrapsParsed(t, In(p))
  <2>1. /\ Parses(t, In(p)) /\ Matched(t.content) /\ t.at \in Nat
        /\ Scraps(t, In(p)) /\ Reading(t, In(p))
    BY <1>1, <1>2 DEF Reader, Typed, Parses
  <2>2. t.line.kind # "name" /\ ~IsHash(t.line)
    BY <1>1 DEF IsHash
  <2>3. ~(t.at > 0)
    BY <1>1, <1>2, <2>1, WholeLines
  <2>4. ~Scrapped(t)
    BY <1>1, <2>1, <2>3 DEF Scraps
  <2> QED  BY <2>1, <2>2, <2>4, ParsedNothing DEF ScrapsParsed
<1> QED  BY <1>1, <1>2, ReadNextReads

LEMMA ChooseReads ==
  ASSUME ReadInv, TypeInv', NEW p \in Process, Choose(p)
  PROVE  ReadInv'
<1> DEFINE t == tbt[p]
           u == [t EXCEPT !.pc = "compare", !.algorithm = Chosen(t),
                          !.work = Work(Section[Chosen(t)], t.nb_files)]
<1>1. DOMAIN t = Field
  BY DEF ReadInv, TypeInv, TbtInv, Memories, IsMemory
<1>2. Exit(p, 1) \/ (Set(p, u) /\ UNCHANGED fs)
  BY DEF Choose
<1>3. /\ u.command = t.command /\ u.OUTPUT = t.OUTPUT /\ u.out = t.out
      /\ u.content = t.content /\ u.pc = "compare" /\ u.flushed = t.flushed
      /\ u.nb_files = t.nb_files /\ t.pc = "choose"
  BY <1>1 DEF Field, Choose
<1> HIDE DEF u
<1> QED  BY <1>2, <1>3, ExitReads, IdleReads

LEMMA HeadingReads ==
  ASSUME ReadInv, TypeInv', NEW p \in Process, Heading(p)
  PROVE  ReadInv'
<1> DEFINE t == tbt[p]
           line == Line("head", Head(t.work)[1])
           u == [t EXCEPT !.work = Tail(@), !.out = Append(@, line)]
<1>1. /\ Typed(t) /\ DOMAIN t = Field /\ t.pc = "compare" /\ t.work # <<>>
      /\ Set(p, u) /\ UNCHANGED fs
  BY DEF ReadInv, TypeInv, TbtInv, Memories, IsMemory, Heading
<1>2. t.out \in Seq(Printable) /\ t.work \in WorkOf(t.nb_files)
  BY <1>1 DEF Typed
<1>3. Head(t.work)[1] \in {"ctph", "simhash"}
  BY <1>1, <1>2 DEF WorkOf
<1>4. line \in Printable /\ line.kind = "head"
  <2>1. line \in Printable
    BY <1>3, LineIsPrintable, TextsOfKinds DEF Kinds
  <2> QED  BY <2>1 DEF Line
<1> HIDE DEF line
<1>5. /\ u.command = t.command /\ u.OUTPUT = t.OUTPUT
      /\ u.out = Append(t.out, line) /\ u.flushed = t.flushed
      /\ u.content = t.content /\ u.pc = "compare" /\ u.nb_files = t.nb_files
  BY <1>1 DEF Field
<1>6. Append(t.out, line) = t.out \o <<line>> /\ <<line>> \in Seq(Printable)
  <2>1. <<line>> \in Seq(Printable)
    BY <1>4
  <2> DEFINE out == t.out
  <2>2. out \in Seq(Printable)
    BY <1>2
  <2> HIDE DEF out, u, t
  <2>3. Append(out, line) = out \o <<line>>
    BY <1>4, <2>2
  <2> QED  BY <2>1, <2>3 DEF out
<1>7. HashesUnder(<<line>>)
  BY <1>4, NoHashesUnder DEF NoEntries, IsHash
<1> HIDE DEF u
<1> DEFINE more == <<line>>
<1>8. more \in Seq(Printable) /\ HashesUnder(more) /\ u.out = t.out \o more
  BY <1>5, <1>6, <1>7
<1> HIDE DEF more
<1> QED  BY <1>1, <1>5, <1>8, PrintReads

LEMMA CompareNextReads ==
  ASSUME ReadInv, TypeInv', NEW p \in Process, CompareNext(p)
  PROVE  ReadInv'
<1> DEFINE t == tbt[p]
           u(list) == [t EXCEPT !.work = Tail(@), !.out = t.out \o list]
<1>1. PICK list \in Seq(Printable) : NoEntries(list) /\ Set(p, u(list))
  BY CompareNextLists DEF ReadInv
<1>2. DOMAIN t = Field /\ t.pc = "compare" /\ UNCHANGED fs
  BY DEF ReadInv, TypeInv, TbtInv, Memories, IsMemory, CompareNext
<1> DEFINE v == u(list)
<1>3. /\ v.command = t.command /\ v.OUTPUT = t.OUTPUT
      /\ v.out = t.out \o list /\ v.flushed = t.flushed
      /\ v.content = t.content /\ v.pc = "compare" /\ v.nb_files = t.nb_files
  BY <1>2 DEF Field
<1>4. Set(p, v) /\ HashesUnder(list)
  BY <1>1, NoHashesUnder
<1> HIDE DEF u, v
<1> QED  BY <1>2, <1>3, <1>4, PrintReads

-----------------------------------------------------------------------------

(* The invariant holds before any process has done a step.                 *)
THEOREM ReadInvInit ==
  Init => ReadInv
<1> SUFFICES ASSUME Init  PROVE ReadInv
  OBVIOUS
<1>1. TypeInv
  BY TypeInvInit
<1>2. PICK run \in Runs : tbt = [p \in Process |-> Begin(run[p])]
  BY DEF Init
<1>3. ASSUME NEW p \in Process
      PROVE  /\ Fresh(tbt[p]) /\ HashesUnder(tbt[p].out)
             /\ WritesWell(tbt[p], tbt, fs) /\ ReadsWell(tbt[p], tbt, fs)
  <2> DEFINE t == tbt[p]
  <2>1. /\ t.pc = "access" /\ t.OUTPUT = Null /\ t.out = <<>>
        /\ t.flushed = 0 /\ t.at = 0 /\ t.file_count = 0 /\ t.content = <<>>
    BY <1>2 DEF Begin
  <2> HIDE DEF t
  <2>2. /\ Fresh(t) /\ HashesUnder(t.out)
        /\ WritesWell(t, tbt, fs) /\ ReadsWell(t, tbt, fs)
    BY <2>1
    DEF Fresh, HashesUnder, NamesFollowed, WritesWell, ReadsWell, Reader,
        Scraps, Matched
  <2> QED  BY <2>2 DEF t
<1>4. \A path \in Path : fs[path] # Null => Known(tbt, path)
  BY DEF Init, Known
<1> QED  BY <1>1, <1>3, <1>4 DEF ReadInv

LEMMA ReadInvStep ==
  ASSUME ReadInv, TypeInv', NEW p \in Process, Step(p)
  PROVE  ReadInv'
<1>1. CASE Access(p)        BY <1>1, AccessReads
<1>2. CASE Create(p)        BY <1>2, CreateReads
<1>3. CASE Stat(p)          BY <1>3, StatReads
<1>4. CASE treat_dir(p)     BY <1>4, TreatReads
<1>5. CASE Fopen(p)         BY <1>5, FopenReads
<1>6. CASE CountLine(p)     BY <1>6, CountLineReads
<1>7. CASE CountEnd(p)      BY <1>7, CountEndReads
<1>8. CASE WrongNumber(p)   BY <1>8, ExitReads DEF WrongNumber
<1>9. CASE ParseName(p)     BY <1>9, ParseNameReads
<1>10. CASE ParseHash(p)    BY <1>10, ParseHashReads
<1>11. CASE ParseNothing(p) BY <1>11, ParseNothingReads
<1>12. CASE Choose(p)       BY <1>12, ChooseReads
<1>13. CASE Heading(p)      BY <1>13, HeadingReads
<1>14. CASE CompareNext(p)  BY <1>14, CompareNextReads
<1>15. CASE Compared(p)     BY <1>15, GotoReads DEF Compared
<1>16. CASE close_output(p) BY <1>16, ExitReads DEF close_output
<1> QED
  BY <1>1, <1>2, <1>3, <1>4, <1>5, <1>6, <1>7, <1>8, <1>9, <1>10, <1>11,
     <1>12, <1>13, <1>14, <1>15, <1>16 DEF Step

(* No step of a writer or a reader breaks it, nor a process that is killed.*)
THEOREM ReadInvNext ==
  ReadInv /\ [Next]_vars => ReadInv'
<1> SUFFICES ASSUME ReadInv, [Next]_vars  PROVE ReadInv'
  OBVIOUS
<1>1. TypeInv'
  BY TypeInvNext DEF ReadInv
<1>2. ASSUME NEW p \in Process, Step(p)  PROVE ReadInv'
  BY <1>1, <1>2, ReadInvStep
<1>3. ASSUME NEW p \in Process, Flush(p)  PROVE ReadInv'
  BY <1>1, <1>3, FlushReads
<1>4. ASSUME NEW p \in Process, Killed(p)  PROVE ReadInv'
  BY <1>1, <1>4, GotoReads DEF Killed
<1>5. CASE UNCHANGED vars
  BY <1>1, <1>5
  DEF ReadInv, Fresh, HashesUnder, WritesWell, ReadsWell, Known, Path, vars
<1> QED  BY <1>2, <1>3, <1>4, <1>5 DEF Next, Done

(* For any number of writers and readers, and whenever a reader comes,     *)
(* before the one writer of its file has ended or after it was killed:     *)
(* although get_file_content may begin with a line left over from          *)
(* get_nb_files, or find more entries than were counted, no entry has a    *)
(* hash of another file than the one it has the name of (src/tbt.c:217),   *)
(* and a scrap found beyond a name that was cut off is never compared      *)
(* (src/tbt.c:265).                                                        *)
THEOREM HashesBelong ==
  Spec => []HashesMatchNames
<1>1. ASSUME ReadInv  PROVE HashesMatchNames
  <2>1. ASSUME NEW p \in Process, OneWriter(tbt[p].command.argument),
               NEW k \in DOMAIN tbt[p].content, NEW kind \in HashKinds
        PROVE  LET t == tbt[p]
                   name == t.content[k].name
                   hash == t.content[k][kind]
               IN /\ hash \in {Unset, Scrap} \cup
                             {Sample[n][kind] : n \in {name} \cap Names}
                  /\ hash = Scrap =>
                       /\ k = 1
                       /\ t.pc \in {"choose", "compare"} => k > t.nb_files
    <3> DEFINE t == tbt[p]
               content == t.content
    <3>1. Alone(tbt, t.command.argument)
      BY <2>1 DEF OneWriter, Writers, Alone, Sole
    <3>2. content \in Seq(Entries) /\ Reader(t, fs[t.command.argument])
      BY <1>1, <3>1 DEF ReadInv, TypeInv, Typed, ReadsWell
    <3>3. k \in 1 .. Len(content)
      BY <2>1, <3>2
    <3>4. \/ content[k][kind] = Unset
          \/ content[k][kind] = Scrap /\ k = 1
          \/ /\ content[k].name \in Names
             /\ content[k][kind] = Sample[content[k].name][kind]
      BY <2>1, <3>2, <3>3 DEF Reader, Matched
    <3>5. Scrap # Unset /\ \A n \in Names : Sample[n][kind] # Scrap
      BY <2>1, TbtAssumption DEF HashKinds, Names
    <3>6. content[k][kind] = Scrap => k = 1 /\ Scrapped(t)
      BY <2>1, <3>3, <3>4, <3>5 DEF Scrapped
    <3>7. t.pc \in {"choose", "compare"} /\ Scrapped(t) => t.nb_files = 0
      BY <3>2 DEF Reader, Scraps
    <3> QED  BY <3>3, <3>4, <3>6, <3>7
  <2> QED  BY <2>1 DEF HashesMatchNames, HashKinds
<1> QED  BY <1>1, ReadInvInit, ReadInvNext, PTL DEF Spec
(***************************************************************************)
(* Hash files that are whole.                                              *)
(***************************************************************************)

(* The lines of an entry.                                                  *)
Size(algorithm) == Len(Section[algorithm]) + 1

(* f holds the entries of names, one after the other.                      *)
Blocks(f, algorithm, names) ==
  /\ Len(f) = Size(algorithm) * Len(names)
  /\ \A j \in 1 .. Len(names) : \A i \in 1 .. Size(algorithm) :
       f[Size(algorithm) * (j - 1) + i] = Printed(algorithm, names[j])[i]

(* The kind of line i of an entry.                                         *)
KindOf(algorithm, i) ==
  IF i = 1 THEN "name" ELSE IF i = 2 /\ algorithm # "SIMHASH" THEN "ctph"
  ELSE "simhash"

(* The entry of name, when l lines of it, or more, have been parsed.       *)
Holding(entry, algorithm, name, l) ==
  /\ entry.name = IF l >= 1 THEN name ELSE Unset
  /\ entry.ctph =
       IF algorithm # "SIMHASH" /\ l >= 2 THEN Sample[name].ctph ELSE Unset
  /\ entry.simhash =
       IF algorithm # "CTPH" /\ l >= Size(algorithm) THEN Sample[name].simhash
       ELSE Unset

(* In n lines c entries begin.                                             *)
Counts(size, n, c) == size * (c - 1) < n /\ n <= size * c

LEMMA SizeOf ==
  ASSUME NEW algorithm \in DOMAIN Section
  PROVE  /\ algorithm \in {"ALL", "CTPH", "SIMHASH"}
         /\ Size(algorithm) = IF algorithm = "ALL" THEN 3 ELSE 2
<1>1. algorithm \in {"ALL", "CTPH", "SIMHASH"}
  BY DEF Section
<1>2. /\ Section["ALL"] = <<"ctph", "simhash">>
      /\ Section["CTPH"] = <<"ctph">> /\ Section["SIMHASH"] = <<"simhash">>
  BY DEF Section
<1>3. /\ Size("ALL") = 3 /\ Size("CTPH") = 2 /\ Size("SIMHASH") = 2
  BY <1>2 DEF Size
<1> QED  BY <1>1, <1>3

LEMMA PrintedLines ==
  ASSUME NEW algorithm \in DOMAIN Section, NEW name
  PROVE  /\ Len(Printed(algorithm, name)) = Size(algorithm)
         /\ \A i \in 1 .. Size(algorithm) :
              LET line == Printed(algorithm, name)[i]
                  kind == KindOf(algorithm, i)
              IN /\ line.end /\ line.kind = kind
                 /\ line.text = IF i = 1 THEN name ELSE Sample[name][kind]
                 /\ IsHash(line) <=> i # 1
<1>1. algorithm \in {"ALL", "CTPH", "SIMHASH"}
      /\ Size(algorithm) = IF algorithm = "ALL" THEN 3 ELSE 2
  BY SizeOf
<1>2. CASE algorithm = "ALL"
  <2>1. Printed(algorithm, name) =
          <<Line("name", name), Line("ctph", Sample[name].ctph),
            Line("simhash", Sample[name].simhash)>>
    BY <1>2 DEF Printed
  <2>2. \A i \in 1 .. 3 : i = 1 \/ i = 2 \/ i = 3
    OBVIOUS
  <2> QED  BY <1>1, <1>2, <2>1, <2>2 DEF Line, KindOf, IsHash
<1>3. CASE algorithm = "CTPH"
  <2>1. Printed(algorithm, name) =
          <<Line("name", name), Line("ctph", Sample[name].ctph)>>
    BY <1>3 DEF Printed
  <2>2. \A i \in 1 .. 2 : i = 1 \/ i = 2
    OBVIOUS
  <2> QED  BY <1>1, <1>3, <2>1, <2>2 DEF Line, KindOf, IsHash
<1>4. CASE algorithm = "SIMHASH"
  <2>1. Printed(algorithm, name) =
          <<Line("name", name), Line("simhash", Sample[name].simhash)>>
    BY <1>4 DEF Printed
  <2>2. \A i \in 1 .. 2 : i = 1 \/ i = 2
    OBVIOUS
  <2> QED  BY <1>1, <1>4, <2>1, <2>2 DEF Line, KindOf, IsHash
<1> QED  BY <1>1, <1>2, <1>3, <1>4

(* Each place of m entries of a size lies in one of them.                  *)
LEMMA PlaceInEntry ==
  ASSUME NEW size \in {2, 3}, NEW m \in Nat, NEW k \in 1 .. size * m
  PROVE  \E j \in 1 .. m, i \in 1 .. size : k = size * (j - 1) + i
<1> DEFINE l == k - 1
           i == (l % size) + 1
           j == (l \div size) + 1
<1>1. CASE size = 2
  <2>1. l \in Nat /\ l < 2 * m
    BY <1>1
  <2>2. i \in 1 .. 2 /\ j \in 1 .. m /\ k = 2 * (j - 1) + i
    BY <1>1, <2>1
  <2> QED  BY <1>1, <2>2
<1>2. CASE size = 3
  <2>1. l \in Nat /\ l < 3 * m
    BY <1>2
  <2>2. i \in 1 .. 3 /\ j \in 1 .. m /\ k = 3 * (j - 1) + i
    BY <1>2, <2>1
  <2> QED  BY <1>2, <2>2
<1> QED  BY <1>1, <1>2

(* Line i of the entry of name.                                            *)
LineOf(line, algorithm, name, i) ==
  /\ line.end /\ line.kind = KindOf(algorithm, i)
  /\ line.text = IF i = 1 THEN name ELSE Sample[name][KindOf(algorithm, i)]
  /\ IsHash(line) <=> i # 1

(* A line of such a file.                                                  *)
LEMMA BlockLine ==
  ASSUME NEW f, NEW algorithm \in DOMAIN Section, NEW names \in Seq(Names),
         Blocks(f, algorithm, names), NEW k \in 1 .. Len(f)
  PROVE  \E j \in 1 .. Len(names), i \in 1 .. Size(algorithm) :
           /\ k = Size(algorithm) * (j - 1) + i
           /\ LineOf(f[k], algorithm, names[j], i)
<1>1. PICK size \in {2, 3}, m \in Nat : size = Size(algorithm) /\ m = Len(names)
  BY SizeOf
<1>2. k \in 1 .. size * m
  BY <1>1 DEF Blocks
<1>3. PICK j \in 1 .. m, i \in 1 .. size : k = size * (j - 1) + i
  BY <1>2, PlaceInEntry
<1>4. f[k] = Printed(algorithm, names[j])[i]
  BY <1>1, <1>3 DEF Blocks
<1>5. LineOf(f[k], algorithm, names[j], i)
  BY <1>1, <1>4, PrintedLines DEF LineOf
<1> QED  BY <1>1, <1>3, <1>5

(* fgets returns the lines of a file, all of which end, one by one.        *)
LEMMA FgetsWhole ==
  ASSUME NEW f \in Seq(Lines), \A k \in 1 .. Len(f) : f[k].end,
         NEW at \in Nat
  PROVE  /\ Ends(f, at) = {} => at >= Len(f)
         /\ Ends(f, at) # {} =>
              /\ at + 1 \in 1 .. Len(f)
              /\ Min(Ends(f, at)) = at + 1
              /\ Fgets(f, at) = f[at + 1]
<1>1. PICK n \in Nat : n = Len(f)
  OBVIOUS
<1>2. Ends(f, at) = at + 1 .. n
  BY <1>1 DEF Ends
<1>3. ASSUME Ends(f, at) = {}  PROVE at >= n
  <2>1. at < n => at + 1 \in at + 1 .. n
    BY <1>1
  <2> QED  BY <1>1, <1>2, <1>3, <2>1
<1>4. ASSUME Ends(f, at) # {}
      PROVE  at + 1 \in 1 .. n /\ Min(Ends(f, at)) = at + 1
             /\ Fgets(f, at) = f[at + 1]
  <2>1. at + 1 \in 1 .. n /\ at + 1 \in at + 1 .. n
    BY <1>1, <1>2, <1>4
  <2> DEFINE least == Min(Ends(f, at))
  <2>2. least \in at + 1 .. n /\ (at + 1 \in at + 1 .. n => least <= at + 1)
    BY <1>1, <1>2, <2>1, EndsType
  <2> HIDE DEF least
  <2>3. least = at + 1
    BY <2>1, <2>2
  <2>4. Fgets(f, at) = f[at + 1]
    BY <1>4, <2>3 DEF Fgets, least
  <2> QED  BY <2>1, <2>3, <2>4 DEF least
<1> QED  BY <1>1, <1>3, <1>4

(* The entries of one more name.                                           *)
LEMMA BlocksMore ==
  ASSUME NEW out \in Seq(Printable), NEW algorithm \in DOMAIN Section,
         NEW names \in Seq(Names), Blocks(out, algorithm, names),
         NEW name \in Names
  PROVE  Blocks(out \o Printed(algorithm, name), algorithm, Append(names, name))
<1> DEFINE more == Printed(algorithm, name)
           new == Append(names, name)
           size == Size(algorithm)
<1>1. PICK n \in Nat, m \in Nat : n = Len(names) /\ m = Len(out)
  OBVIOUS
<1>2. size \in {2, 3} /\ m = size * n
  BY <1>1, SizeOf DEF Blocks
<1>3. more \in Seq(Printable) /\ Len(more) = size
  BY PrintedType, PrintedLines
<1>4. /\ Len(new) = n + 1 /\ new[n + 1] = name
      /\ \A j \in 1 .. n : new[j] = names[j]
  BY <1>1, AppendProperties
<1> HIDE DEF more, new, size
<1>5. /\ Len(out \o more) = m + size
      /\ \A k \in 1 .. m + size :
           (out \o more)[k] = IF k <= m THEN out[k] ELSE more[k - m]
  <2>1. size \in Nat
    BY <1>2
  <2> QED  BY <1>1, <1>3, <2>1, ConcatProperties
<1>6. ASSUME NEW j \in 1 .. n + 1, NEW i \in 1 .. size
      PROVE  (out \o more)[size * (j - 1) + i] = Printed(algorithm, new[j])[i]
  <2> DEFINE k == size * (j - 1) + i
  <2>1. CASE j = n + 1
    <3>1. k \in 1 .. m + size /\ ~(k <= m) /\ k - m = i
      <4>1. CASE size = 2  BY <1>2, <2>1, <4>1
      <4>2. CASE size = 3  BY <1>2, <2>1, <4>2
      <4> QED  BY <1>2, <4>1, <4>2
    <3> QED  BY <1>4, <1>5, <2>1, <3>1 DEF more
  <2>2. CASE j # n + 1
    <3>1. j \in 1 .. n /\ k \in 1 .. m + size /\ k <= m
      <4>1. CASE size = 2  BY <1>2, <2>2, <4>1
      <4>2. CASE size = 3  BY <1>2, <2>2, <4>2
      <4> QED  BY <1>2, <4>1, <4>2
    <3>2. out[k] = Printed(algorithm, names[j])[i]
      BY <1>1, <3>1 DEF Blocks, size
    <3> QED  BY <1>4, <1>5, <3>1, <3>2
  <2> QED  BY <2>1, <2>2
<1>7. Len(out \o more) = size * (n + 1)
  <2>1. CASE size = 2  BY <1>2, <1>5, <2>1
  <2>2. CASE size = 3  BY <1>2, <1>5, <2>2
  <2> QED  BY <1>2, <2>1, <2>2
<1> QED  BY <1>4, <1>6, <1>7 DEF Blocks, more, new, size

(* What is stored for names when n lines have been parsed.                 *)
Stored(content, count, algorithm, names, n) ==
  /\ Counts(Size(algorithm), n, count)
  /\ \A x \in 1 .. Len(names) :
       Holding(content[x], algorithm, names[x], n - Size(algorithm) * (x - 1))

(* The entry of name, whole.                                               *)
Entry(algorithm, name) ==
  [name    |-> name,
   ctph    |-> IF algorithm # "SIMHASH" THEN Sample[name].ctph ELSE Unset,
   simhash |-> IF algorithm # "CTPH" THEN Sample[name].simhash ELSE Unset]

LEMMA HoldingEnds ==
  ASSUME NEW algorithm \in DOMAIN Section, NEW entry, NEW name,
         NEW l \in Int, NEW m \in Int, Holding(entry, algorithm, name, l),
         \/ l >= Size(algorithm) /\ m >= Size(algorithm)
         \/ l <= 0 /\ m <= 0
  PROVE  Holding(entry, algorithm, name, m)
<1>1. PICK size \in {2, 3} : size = Size(algorithm)
  BY SizeOf
<1>2. CASE l >= size /\ m >= size
  <2>1. l >= 1 /\ m >= 1 /\ l >= 2 /\ m >= 2
    BY <1>2
  <2> QED  BY <1>1, <1>2, <2>1 DEF Holding
<1>3. CASE l <= 0 /\ m <= 0
  <2>1. ~(l >= 1) /\ ~(m >= 1) /\ ~(l >= 2) /\ ~(m >= 2) /\ ~(l >= size) /\ ~(m >= size)
    BY <1>3
  <2> QED  BY <1>1, <2>1 DEF Holding
<1> QED  BY <1>1, <1>2, <1>3

LEMMA WholeEntry ==
  ASSUME NEW algorithm \in DOMAIN Section, NEW entry \in Entries, NEW name,
         NEW l \in Int, Holding(entry, algorithm, name, l), l >= Size(algorithm)
  PROVE  entry = Entry(algorithm, name)
<1>1. l >= 1 /\ l >= 2
  BY SizeOf
<1>2. entry = [name |-> entry.name, ctph |-> entry.ctph, simhash |-> entry.simhash]
  BY DEF Entries
<1> QED  BY <1>1, <1>2 DEF Holding, Entry

(* Line i of entry j makes j entries.                                      *)
LEMMA CountNext ==
  ASSUME NEW size \in {2, 3}, NEW j \in Nat, NEW i \in 1 .. size, NEW c \in Nat,
         Counts(size, size * (j - 1) + i - 1, c)
  PROVE  /\ c = IF i = 1 THEN j - 1 ELSE j
         /\ Counts(size, size * (j - 1) + i, j)
<1>1. CASE size = 2  BY <1>1 DEF Counts
<1>2. CASE size = 3  BY <1>2 DEF Counts
<1> QED  BY <1>1, <1>2

LEMMA StoredNext ==
  ASSUME NEW algorithm \in DOMAIN Section, NEW names \in Seq(Names),
         NEW j \in 1 .. Len(names), NEW i \in 1 .. Size(algorithm),
         NEW at \in Nat, at = Size(algorithm) * (j - 1) + i,
         NEW content, NEW c \in Nat, Stored(content, c, algorithm, names, at - 1),
         NEW new, \A x \in 1 .. Len(names) : x # j => new[x] = content[x],
         Holding(new[j], algorithm, names[j], i)
  PROVE  Stored(new, j, algorithm, names, at)
<1>1. PICK size \in {2, 3}, m \in Nat : size = Size(algorithm) /\ m = Len(names)
  BY SizeOf
<1>2. j \in Nat /\ i \in 1 .. size /\ j \in 1 .. m /\ at = size * (j - 1) + i
  BY <1>1
<1>3. Counts(size, at, j)
  <2>1. Counts(size, at - 1, c)
    BY <1>1 DEF Stored
  <2>2. at - 1 = size * (j - 1) + i - 1
    <3>1. CASE size = 2  BY <1>2, <3>1
    <3>2. CASE size = 3  BY <1>2, <3>2
    <3> QED  BY <3>1, <3>2
  <2>3. Counts(size, size * (j - 1) + i - 1, c)
    BY <2>1, <2>2
  <2>4. Counts(size, size * (j - 1) + i, j)
    BY <1>2, <2>3, CountNext
  <2> QED  BY <1>2, <2>4
<1>4. ASSUME NEW x \in 1 .. m
      PROVE  Holding(new[x], algorithm, names[x], at - size * (x - 1))
  <2> DEFINE l == at - size * (x - 1)
             k == at - 1 - size * (x - 1)
  <2>1. CASE x = j
    <3>1. l = i
      <4>1. CASE size = 2  BY <1>2, <2>1, <4>1
      <4>2. CASE size = 3  BY <1>2, <2>1, <4>2
      <4> QED  BY <4>1, <4>2
    <3> QED  BY <2>1, <3>1
  <2>2. CASE x # j
    <3>1. /\ l \in Int /\ k \in Int
          /\ \/ k >= size /\ l >= size
             \/ k <= 0 /\ l <= 0
      <4>1. CASE size = 2  BY <1>2, <2>2, <4>1
      <4>2. CASE size = 3  BY <1>2, <2>2, <4>2
      <4> QED  BY <4>1, <4>2
    <3>2. new[x] = content[x]
      BY <1>1, <2>2
    <3>3. Holding(content[x], algorithm, names[x], k)
      BY <1>1 DEF Stored
    <3> HIDE DEF l, k
    <3>4. Holding(content[x], algorithm, names[x], l)
      BY <1>1, <3>1, <3>3, HoldingEnds
    <3> QED  BY <3>2, <3>4 DEF l
  <2> QED  BY <2>1, <2>2
<1> QED  BY <1>1, <1>3, <1>4 DEF Stored

(* What was stored before line i of entry j.                               *)
LEMMA StoredBefore ==
  ASSUME NEW algorithm \in DOMAIN Section, NEW names \in Seq(Names),
         NEW j \in 1 .. Len(names), NEW i \in 1 .. Size(algorithm),
         NEW at \in Nat, at = Size(algorithm) * (j - 1) + i,
         NEW content, NEW c \in Nat, Stored(content, c, algorithm, names, at - 1)
  PROVE  /\ c = IF i = 1 THEN j - 1 ELSE j
         /\ Holding(content[j], algorithm, names[j], i - 1)
<1>1. PICK size \in {2, 3}, m \in Nat : size = Size(algorithm) /\ m = Len(names)
  BY SizeOf
<1>2. j \in Nat /\ i \in 1 .. size /\ j \in 1 .. m /\ at = size * (j - 1) + i
  BY <1>1
<1>3. at - 1 = size * (j - 1) + i - 1 /\ at - 1 - size * (j - 1) = i - 1
  <2>1. CASE size = 2  BY <1>2, <2>1
  <2>2. CASE size = 3  BY <1>2, <2>2
  <2> QED  BY <2>1, <2>2
<1>4. Counts(size, at - 1, c) /\ Holding(content[j], algorithm, names[j], at - 1 - size * (j - 1))
  BY <1>1 DEF Stored
<1>5. Counts(size, size * (j - 1) + i - 1, c)
  BY <1>3, <1>4
<1>6. c = IF i = 1 THEN j - 1 ELSE j
  <2> DEFINE Place(l) == /\ c = IF l = 1 THEN j - 1 ELSE j
                         /\ Counts(size, size * (j - 1) + l, j)
  <2>1. \A l \in 1 .. size : Counts(size, size * (j - 1) + l - 1, c) => Place(l)
    BY <1>2, CountNext
  <2> HIDE DEF Place
  <2>2. Place(i)
    BY <1>2, <1>5, <2>1
  <2> QED  BY <2>2 DEF Place
<1> QED  BY <1>3, <1>4, <1>6

(* The name of entry j is its first line.                                  *)
LEMMA NameFollows ==
  ASSUME NEW algorithm \in DOMAIN Section, NEW names \in Seq(Names),
         NEW j \in 1 .. Len(names),
         NEW at \in Nat, at = Size(algorithm) * (j - 1) + 1,
         NEW content \in Seq(Entries), Len(content) = Len(names) + 1,
         NEW c \in Nat, Stored(content, c, algorithm, names, at - 1),
         NEW new, new[c + 1].name = names[j],
         /\ new[c + 1].ctph = content[c + 1].ctph
         /\ new[c + 1].simhash = content[c + 1].simhash
         /\ \A x \in 1 .. Len(content) : x # c + 1 => new[x] = content[x]
  PROVE  Stored(new, c + 1, algorithm, names, at)
<1>1. 1 \in 1 .. Size(algorithm) /\ ~(0 >= Size(algorithm)) /\ ~(1 >= Size(algorithm))
  BY SizeOf
<1>2. c = j - 1 /\ Holding(content[j], algorithm, names[j], 0)
  <2>1. /\ c = IF 1 = 1 THEN j - 1 ELSE j
        /\ Holding(content[j], algorithm, names[j], 1 - 1)
    BY <1>1, StoredBefore
  <2> QED  BY <2>1
<1>3. c + 1 = j /\ j \in 1 .. Len(content) /\ names[j] \in Names
  BY <1>2
<1>4. /\ new[j].name = names[j] /\ new[j].ctph = content[j].ctph
      /\ new[j].simhash = content[j].simhash
      /\ \A x \in 1 .. Len(content) : x # j => new[x] = content[x]
  BY <1>3
<1>5. Holding(new[j], algorithm, names[j], 1)
  BY <1>1, <1>2, <1>4 DEF Holding
<1>6. \A x \in 1 .. Len(names) : x # j => new[x] = content[x]
  BY <1>4
<1>7. Stored(new, j, algorithm, names, at)
  BY <1>1, <1>5, <1>6, StoredNext
<1> QED  BY <1>3, <1>7

(* A hash goes to the entry its line is of.                                *)
LEMMA HashFollows ==
  ASSUME NEW algorithm \in DOMAIN Section, NEW names \in Seq(Names),
         NEW j \in 1 .. Len(names), NEW i \in 1 .. Size(algorithm), i # 1,
         NEW at \in Nat, at = Size(algorithm) * (j - 1) + i,
         NEW content \in Seq(Entries), Len(content) = Len(names) + 1,
         NEW c \in Nat, Stored(content, c, algorithm, names, at - 1),
         NEW kind, kind = KindOf(algorithm, i),
         NEW text \in Texts(kind), text = Sample[names[j]][kind],
         NEW new, new = Store(content, c, kind, text)
  PROVE  c # 0 /\ Stored(new, c, algorithm, names, at)
<1>1. c = j /\ Holding(content[j], algorithm, names[j], i - 1)
  BY StoredBefore
<1>2. j \in 1 .. Len(content) /\ kind \in HashKinds
  BY DEF KindOf, HashKinds
<1>3. /\ new[j].name = content[j].name /\ new[j][kind] = text
      /\ \A other \in HashKinds : other # kind => new[j][other] = content[j][other]
      /\ \A x \in 1 .. Len(content) : x # j => new[x] = content[x]
  <2>1. new = Store(content, j, kind, text) /\ j \in 1 .. Len(content)
    BY <1>1, <1>2
  <2>2. ASSUME NEW d \in Seq(Entries), NEW l \in 1 .. Len(d), NEW e,
               e = Store(d, l, kind, text)
        PROVE  /\ e[l].name = d[l].name /\ e[l][kind] = text
               /\ \A other \in HashKinds : other # kind => e[l][other] = d[l][other]
               /\ \A x \in 1 .. Len(d) : x # l => e[x] = d[x]
    BY <1>2, <2>2, HashStored
  <2> QED  BY <2>1, <2>2
<1>4. Holding(new[j], algorithm, names[j], i)
  <2>1. /\ algorithm \in {"ALL", "CTPH", "SIMHASH"}
        /\ Size(algorithm) = IF algorithm = "ALL" THEN 3 ELSE 2
    BY SizeOf
  <2>2. CASE i = 2 /\ algorithm # "SIMHASH"
    <3>1. kind = "ctph"
      BY <2>2 DEF KindOf
    <3>2. new[j].ctph = Sample[names[j]].ctph /\ new[j].simhash = content[j].simhash
      BY <1>3, <3>1 DEF HashKinds
    <3>3. /\ i - 1 >= 1 /\ i >= 1 /\ i >= 2 /\ ~(i - 1 >= Size(algorithm))
          /\ algorithm = "ALL" => ~(i >= Size(algorithm))
      BY <2>1, <2>2
    <3> QED  BY <1>1, <1>3, <2>1, <2>2, <3>2, <3>3 DEF Holding
  <2>3. CASE ~(i = 2 /\ algorithm # "SIMHASH")
    <3>1. kind = "simhash" /\ i = Size(algorithm) /\ algorithm # "CTPH"
      <4>1. i = 2 \/ i = 3
        BY <2>1
      <4>2. CASE i = 2  BY <2>1, <2>3, <4>2 DEF KindOf
      <4>3. CASE i = 3  BY <2>1, <2>3, <4>3 DEF KindOf
      <4> QED  BY <4>1, <4>2, <4>3
    <3>2. new[j].simhash = Sample[names[j]].simhash /\ new[j].ctph = content[j].ctph
      BY <1>3, <3>1 DEF HashKinds
    <3>3. /\ i - 1 >= 1 /\ i >= 1 /\ i >= 2 /\ i >= Size(algorithm)
          /\ algorithm = "ALL" => i - 1 >= 2
      BY <2>1, <3>1
    <3> QED  BY <1>1, <1>3, <2>1, <3>1, <3>2, <3>3 DEF Holding
  <2> QED  BY <2>2, <2>3
<1>5. \A x \in 1 .. Len(names) : x # j => new[x] = content[x]
  BY <1>3
<1>6. Stored(new, j, algorithm, names, at)
  BY <1>4, <1>5, StoredNext, SMTT(30)
<1> QED  BY <1>1, <1>6

(***************************************************************************)
(* A reader of a file that is whole.                                       *)
(***************************************************************************)

(* What t has made of the entries of names in f: while it counts them,     *)
(* while it takes them, where the line left over from the counting belongs *)
(* to none of them, and then.                                              *)
Follows(t, f, algorithm, names) ==
  /\ t.pc = "count" =>
       /\ t.at <= Len(f)
       /\ t.at > 0 => t.line = f[t.at]
       /\ Counts(Size(algorithm), t.at, t.nb_files)
  /\ t.pc = "parse" =>
       /\ t.at <= Len(f)
       /\ t.nb_files = Len(names)
       /\ IF t.at > 0
            THEN /\ t.line = f[t.at]
                 /\ Stored(t.content, t.file_count, algorithm, names, t.at - 1)
            ELSE /\ names # <<>> => IsHash(t.line)
                 /\ t.file_count = 0
                 /\ Stored(t.content, 0, algorithm, names, 0)
  /\ t.pc \in {"choose", "compare", "close"} =>
       /\ t.nb_files = Len(names)
       /\ \A x \in 1 .. Len(names) : t.content[x] = Entry(algorithm, names[x])

(* The line in t's buffer has been parsed.                                 *)
Takes(t, f, algorithm, names) ==
  /\ t.at <= Len(f)
  /\ t.nb_files = Len(names)
  /\ names # <<>> =>
       Stored(t.content, t.file_count, algorithm, names, t.at)

LEMMA CountMore ==
  ASSUME NEW size \in {2, 3}, NEW j \in Nat, NEW i \in 1 .. size, NEW c \in Nat,
         NEW at, at = size * (j - 1) + i, Counts(size, at - 1, c)
  PROVE  Counts(size, at, IF i = 1 THEN c + 1 ELSE c)
<1>1. CASE size = 2  BY <1>1 DEF Counts
<1>2. CASE size = 3  BY <1>2 DEF Counts
<1> QED  BY <1>1, <1>2

LEMMA CountsWhole ==
  ASSUME NEW size \in {2, 3}, NEW m \in Nat, NEW c \in Nat,
         Counts(size, size * m, c)
  PROVE  c = m
<1>1. CASE size = 2  BY <1>1 DEF Counts
<1>2. CASE size = 3  BY <1>2 DEF Counts
<1> QED  BY <1>1, <1>2

LEMMA CountsPart ==
  ASSUME NEW size \in {2, 3}, NEW m \in Nat, NEW c \in Nat, NEW n \in Nat,
         n <= size * m, Counts(size, n, c)
  PROVE  c <= m
<1>1. CASE size = 2  BY <1>1 DEF Counts
<1>2. CASE size = 3  BY <1>2 DEF Counts
<1> QED  BY <1>1, <1>2

LEMMA BlocksEnd ==
  ASSUME NEW f, NEW algorithm \in DOMAIN Section, NEW names \in Seq(Names),
         Blocks(f, algorithm, names)
  PROVE  \A k \in 1 .. Len(f) : f[k].end
BY BlockLine DEF LineOf

LEMMA CountFollows ==
  ASSUME NEW t, NEW u, NEW f \in Seq(Lines), NEW algorithm \in DOMAIN Section,
         NEW names \in Seq(Names), Blocks(f, algorithm, names),
         t.at \in Nat, t.nb_files \in Nat, t.pc = "count",
         Follows(t, f, algorithm, names), Ends(f, t.at) # {},
         u.pc = "count", u.at = Min(Ends(f, t.at)), u.line = Fgets(f, t.at),
         u.nb_files = IF IsHash(u.line) THEN t.nb_files ELSE t.nb_files + 1
  PROVE  Follows(u, f, algorithm, names)
<1>1. PICK at \in Nat, c \in Nat : at = t.at /\ c = t.nb_files
  OBVIOUS
<1>2. at + 1 \in 1 .. Len(f) /\ u.at = at + 1 /\ u.line = f[at + 1]
  BY <1>1, BlocksEnd, FgetsWhole
<1>3. PICK size \in {2, 3}, next \in Nat :
        size = Size(algorithm) /\ next = at + 1
  BY SizeOf
<1>4. PICK j \in 1 .. Len(names), i \in 1 .. Size(algorithm) :
        /\ next = Size(algorithm) * (j - 1) + i
        /\ LineOf(f[next], algorithm, names[j], i)
  BY <1>2, <1>3, BlockLine
<1>5. Counts(size, next - 1, c)
  BY <1>1, <1>3 DEF Follows
<1>6. Counts(size, next, IF i = 1 THEN c + 1 ELSE c)
  <2>1. j \in Nat /\ i \in 1 .. size /\ next = size * (j - 1) + i
    BY <1>3, <1>4
  <2> QED  BY <1>5, <2>1, CountMore
<1>7. u.nb_files = IF i = 1 THEN c + 1 ELSE c
  BY <1>1, <1>2, <1>3, <1>4 DEF LineOf
<1>8. Counts(Size(algorithm), u.at, u.nb_files)
  BY <1>2, <1>3, <1>6, <1>7
<1>9. u.at <= Len(f)
  BY <1>2
<1> QED  BY <1>2, <1>8, <1>9 DEF Follows

(* At the end of the file every entry has been counted, and the line left  *)
(* in the buffer is a hash.                                                *)
LEMMA CountEndFollows ==
  ASSUME NEW t, NEW u, NEW f \in Seq(Lines), NEW algorithm \in DOMAIN Section,
         NEW names \in Seq(Names), Blocks(f, algorithm, names),
         t.at \in Nat, t.nb_files \in Nat, t.pc = "count",
         Follows(t, f, algorithm, names), Ends(f, t.at) = {},
         u.pc = "parse", u.at = 0, u.nb_files = t.nb_files, u.file_count = 0,
         \A k \in 1 .. t.nb_files + 1 : u.content[k] = NoEntry,
         t.at > 0 /\ t.at >= Len(f) => u.line = t.line
  PROVE  Follows(u, f, algorithm, names)
<1> PICK n \in Nat : n = Len(f)
  OBVIOUS
<1>1. PICK at \in Nat, c \in Nat : at = t.at /\ c = t.nb_files /\ n = Len(f)
  OBVIOUS
<1>2. at = n
  <2>1. at >= n
    BY <1>1, BlocksEnd, FgetsWhole
  <2>2. at <= n
    BY <1>1 DEF Follows
  <2> QED  BY <2>1, <2>2
<1>3. PICK size \in {2, 3}, m \in Nat : size = Size(algorithm) /\ m = Len(names)
  BY SizeOf
<1>4. n = size * m /\ Counts(size, n, c)
  BY <1>1, <1>2, <1>3 DEF Blocks, Follows
<1>5. c = m
  <2>1. Counts(size, size * m, c)
    BY <1>4
  <2> QED  BY <2>1, CountsWhole
<1>6. ASSUME names # <<>>  PROVE IsHash(u.line)
  <2>1. m > 0 /\ n > 0
    <3>1. m > 0
      BY <1>3, <1>6
    <3>2. CASE size = 2  BY <1>4, <3>1, <3>2
    <3>3. CASE size = 3  BY <1>4, <3>1, <3>3
    <3> QED  BY <3>1, <3>2, <3>3
  <2>2. u.line = f[n]
    BY <1>1, <1>2, <2>1 DEF Follows
  <2>3. n \in 1 .. Len(f)
    BY <1>1, <2>1
  <2>4. PICK j \in 1 .. Len(names), i \in 1 .. Size(algorithm) :
          /\ n = Size(algorithm) * (j - 1) + i
          /\ LineOf(f[n], algorithm, names[j], i)
    BY <2>3, BlockLine
  <2>5. j \in 1 .. m /\ i \in 1 .. size /\ size * m = size * (j - 1) + i
    BY <1>3, <1>4, <2>4
  <2>6. i # 1
    <3>1. CASE size = 2  BY <2>5, <3>1
    <3>2. CASE size = 3  BY <2>5, <3>2
    <3> QED  BY <3>1, <3>2
  <2> QED  BY <2>2, <2>4, <2>6 DEF LineOf
<1>7. Stored(u.content, 0, algorithm, names, 0)
  <2>1. Counts(size, 0, 0)
    <3>1. CASE size = 2  BY <3>1 DEF Counts
    <3>2. CASE size = 3  BY <3>2 DEF Counts
    <3> QED  BY <3>1, <3>2
  <2>2. ASSUME NEW x \in 1 .. m
        PROVE  Holding(u.content[x], algorithm, names[x], 0 - size * (x - 1))
    <3>1. u.content[x] = NoEntry
      BY <1>1, <1>5
    <3>2. PICK l \in Int : l = 0 - size * (x - 1) /\ l <= 0
      <4>1. CASE size = 2  BY <4>1
      <4>2. CASE size = 3  BY <4>2
      <4> QED  BY <4>1, <4>2
    <3>3. ~(l >= 1) /\ ~(l >= 2) /\ ~(l >= size)
      BY <3>2
    <3>4. Holding(NoEntry, algorithm, names[x], l)
      BY <1>3, <3>3 DEF Holding, NoEntry
    <3> QED  BY <3>1, <3>2, <3>4
  <2> QED  BY <1>3, <2>1, <2>2 DEF Stored
<1>8. u.nb_files = Len(names) /\ 0 <= Len(f)
  BY <1>1, <1>3, <1>5
<1> QED  BY <1>6, <1>7, <1>8 DEF Follows

(* The line has been parsed into v, and the next is read.                  *)
LEMMA NextFollows ==
  ASSUME NEW v, DOMAIN v = Field, NEW u, NEW f \in Seq(Lines),
         NEW algorithm \in DOMAIN Section,
         NEW names \in Seq(Names), Blocks(f, algorithm, names),
         v.at \in Nat, v.pc = "parse", v.file_count \in Nat,
         v.content \in Seq(Entries), Len(v.content) = v.nb_files + 1,
         Takes(v, f, algorithm, names),
         u = IF Ends(f, v.at) = {} THEN [v EXCEPT !.pc = "choose"] ELSE Read(v, f)
  PROVE  Follows(u, f, algorithm, names)
<1>1. PICK at \in Nat, n \in Nat : at = v.at /\ n = Len(f)
  OBVIOUS
<1>2. PICK size \in {2, 3}, m \in Nat : size = Size(algorithm) /\ m = Len(names)
  BY SizeOf
<1>3. n = size * m /\ at <= n /\ v.nb_files = m
  BY <1>1, <1>2 DEF Blocks, Takes
<1>4. CASE Ends(f, v.at) = {}
  <2>1. u.pc = "choose" /\ u.nb_files = v.nb_files /\ u.content = v.content
    BY <1>4 DEF Field
  <2>2. at = n
    <3>1. at >= n
      BY <1>1, <1>4, BlocksEnd, FgetsWhole
    <3> QED  BY <1>3, <3>1
  <2>3. ASSUME NEW x \in 1 .. m
        PROVE  v.content[x] = Entry(algorithm, names[x])
    <3>1. names # <<>>
      BY <1>2
    <3>2. PICK l \in Int : l = at - size * (x - 1) /\ l >= size
      <4>1. CASE size = 2  BY <1>3, <2>2, <4>1
      <4>2. CASE size = 3  BY <1>3, <2>2, <4>2
      <4> QED  BY <4>1, <4>2
    <3>3. Holding(v.content[x], algorithm, names[x], l)
      BY <1>1, <1>2, <3>1, <3>2 DEF Takes, Stored
    <3>4. v.content[x] \in Entries
      BY <1>3
    <3> QED  BY <1>2, <3>2, <3>3, <3>4, WholeEntry
  <2> QED  BY <1>2, <1>3, <2>1, <2>3 DEF Follows
<1>5. CASE Ends(f, v.at) # {}
  <2>1. /\ u.pc = "parse" /\ u.nb_files = v.nb_files /\ u.content = v.content
        /\ u.file_count = v.file_count
        /\ u.at = Min(Ends(f, v.at)) /\ u.line = Fgets(f, v.at)
    BY <1>5, ReadFields
  <2>2. at + 1 \in 1 .. n /\ u.at = at + 1 /\ u.line = f[at + 1]
    BY <1>1, <1>5, <2>1, BlocksEnd, FgetsWhole
  <2>3. u.at > 0 /\ u.at <= n /\ u.at - 1 = at
    BY <2>2
  <2>4. names # <<>>
    <3>1. m # 0
      BY <1>3, <2>2
    <3> QED  BY <1>2, <3>1
  <2>5. Stored(u.content, u.file_count, algorithm, names, u.at - 1)
    BY <1>1, <2>1, <2>3, <2>4 DEF Takes
  <2> QED  BY <1>1, <1>2, <1>3, <2>1, <2>2, <2>3, <2>5 DEF Follows
<1> QED  BY <1>4, <1>5

(* The line that is parsed, unless it is the one left over.                *)
LEMMA LineTaken ==
  ASSUME NEW t, NEW f \in Seq(Lines), NEW algorithm \in DOMAIN Section,
         NEW names \in Seq(Names), Blocks(f, algorithm, names),
         t.at \in Nat, t.pc = "parse", Follows(t, f, algorithm, names), t.at > 0
  PROVE  /\ Stored(t.content, t.file_count, algorithm, names, t.at - 1)
         /\ \E j \in 1 .. Len(names), i \in 1 .. Size(algorithm) :
              /\ t.at = Size(algorithm) * (j - 1) + i
              /\ LineOf(t.line, algorithm, names[j], i)
<1>1. /\ t.line = f[t.at] /\ t.at <= Len(f)
      /\ Stored(t.content, t.file_count, algorithm, names, t.at - 1)
  BY DEF Follows
<1>2. t.at \in 1 .. Len(f)
  <2>1. Len(f) \in Nat
    OBVIOUS
  <2> QED  BY <1>1, <2>1
<1>3. \E j \in 1 .. Len(names), i \in 1 .. Size(algorithm) :
        /\ t.at = Size(algorithm) * (j - 1) + i
        /\ LineOf(f[t.at], algorithm, names[j], i)
  BY <1>2, BlockLine
<1> QED  BY <1>1, <1>3

LEMMA ParseNameFollows ==
  ASSUME NEW t, NEW v, NEW f \in Seq(Lines), NEW algorithm \in DOMAIN Section,
         NEW names \in Seq(Names), Blocks(f, algorithm, names),
         t.at \in Nat, t.pc = "parse", t.file_count \in Nat,
         t.content \in Seq(Entries), Len(t.content) = t.nb_files + 1,
         t.file_count <= t.nb_files,
         Follows(t, f, algorithm, names), t.line.kind = "name",
         v.at = t.at, v.nb_files = t.nb_files, v.file_count = t.file_count + 1,
         ~Beyond(t) =>
           /\ v.content[t.file_count + 1].name = t.line.text
           /\ v.content[t.file_count + 1].ctph = t.content[t.file_count + 1].ctph
           /\ v.content[t.file_count + 1].simhash = t.content[t.file_count + 1].simhash,
         \A x \in 1 .. Len(t.content) :
           x # t.file_count + 1 => v.content[x] = t.content[x]
  PROVE  Takes(v, f, algorithm, names)
<1>1. t.nb_files = Len(names) /\ t.at <= Len(f)
  BY DEF Follows
<1>2. ASSUME names # <<>>
      PROVE  Stored(v.content, v.file_count, algorithm, names, v.at)
  <2>1. t.at > 0
    BY <1>2 DEF Follows, IsHash
  <2>2. PICK j \in 1 .. Len(names), i \in 1 .. Size(algorithm) :
          /\ t.at = Size(algorithm) * (j - 1) + i
          /\ LineOf(t.line, algorithm, names[j], i)
    BY <2>1, LineTaken
  <2>3. i = 1 /\ t.line.text = names[j] /\ names[j] \in Names /\ ~Beyond(t)
    <3>1. names[j] # Unset
      BY TbtAssumption DEF Names
    <3> QED  BY <2>2, <3>1 DEF LineOf, KindOf, Beyond
  <2>4. Stored(t.content, t.file_count, algorithm, names, t.at - 1)
    BY <2>1, LineTaken
  <2>5. PICK content \in Seq(Entries), c \in Nat, at \in Nat :
          content = t.content /\ c = t.file_count /\ at = t.at
    OBVIOUS
  <2>6. PICK new : new = v.content
    OBVIOUS
  <2>7. /\ new[c + 1].name = names[j] /\ new[c + 1].ctph = content[c + 1].ctph
        /\ new[c + 1].simhash = content[c + 1].simhash
        /\ \A x \in 1 .. Len(content) : x # c + 1 => new[x] = content[x]
    BY <2>3, <2>5, <2>6
  <2>8. /\ at = Size(algorithm) * (j - 1) + 1
        /\ Len(content) = Len(names) + 1
        /\ Stored(content, c, algorithm, names, at - 1)
    BY <1>1, <2>2, <2>3, <2>4, <2>5
  <2>9. Stored(new, c + 1, algorithm, names, at)
    BY <2>7, <2>8, NameFollows
  <2> QED  BY <2>5, <2>6, <2>9
<1> QED  BY <1>1, <1>2 DEF Takes

LEMMA ParseHashFollows ==
  ASSUME NEW t, NEW v, NEW f \in Seq(Lines), NEW algorithm \in DOMAIN Section,
         NEW names \in Seq(Names), Blocks(f, algorithm, names),
         t.at \in Nat, t.pc = "parse", t.file_count \in Nat,
         t.content \in Seq(Entries), Len(t.content) = t.nb_files + 1,
         Follows(t, f, algorithm, names), IsHash(t.line),
         t.line.text \in Texts(t.line.kind),
         v.at = t.at, v.nb_files = t.nb_files, v.file_count = t.file_count,
         v.content = IF t.file_count = 0 THEN t.content
                     ELSE Store(t.content, t.file_count, t.line.kind, t.line.text)
  PROVE  Takes(v, f, algorithm, names)
<1>1. t.nb_files = Len(names) /\ t.at <= Len(f)
  BY DEF Follows
<1>2. ASSUME names # <<>>
      PROVE  Stored(v.content, v.file_count, algorithm, names, v.at)
  <2>1. CASE ~(t.at > 0)
    <3>1. /\ t.at = 0 /\ t.file_count = 0
          /\ Stored(t.content, 0, algorithm, names, 0)
      BY <2>1 DEF Follows
    <3> QED  BY <3>1
  <2>2. CASE t.at > 0
    <3>1. PICK j \in 1 .. Len(names), i \in 1 .. Size(algorithm) :
            /\ t.at = Size(algorithm) * (j - 1) + i
            /\ LineOf(t.line, algorithm, names[j], i)
      BY <2>2, LineTaken
    <3>2. i # 1
      BY <3>1 DEF LineOf
    <3>3. Stored(t.content, t.file_count, algorithm, names, t.at - 1)
      BY <2>2, LineTaken
    <3>4. PICK content \in Seq(Entries), c \in Nat, at \in Nat :
            content = t.content /\ c = t.file_count /\ at = t.at
      OBVIOUS
    <3> PICK kind : kind = t.line.kind
      OBVIOUS
    <3>5. PICK text \in Texts(kind) :
            /\ kind = t.line.kind /\ text = t.line.text
            /\ kind = KindOf(algorithm, i) /\ text = Sample[names[j]][kind]
      BY <3>1, <3>2 DEF LineOf
    <3> DEFINE new == Store(content, c, kind, text)
    <3>6. /\ Len(content) = Len(names) + 1
          /\ at = Size(algorithm) * (j - 1) + i
          /\ Stored(content, c, algorithm, names, at - 1)
      BY <1>1, <3>1, <3>3, <3>4
    <3>7. c # 0 => v.content = new
      BY <3>4, <3>5
    <3> HIDE DEF new
    <3>8. c # 0 /\ Stored(new, c, algorithm, names, at)
      <4>1. new = Store(content, c, kind, text)
        BY DEF new
      <4> QED  BY <3>2, <3>5, <3>6, <4>1, HashFollows
    <3> QED  BY <3>4, <3>7, <3>8
  <2> QED  BY <2>1, <2>2
<1> QED  BY <1>1, <1>2 DEF Takes

LEMMA ParseNothingFollows ==
  ASSUME NEW t, NEW f \in Seq(Lines), NEW algorithm \in DOMAIN Section,
         NEW names \in Seq(Names), Blocks(f, algorithm, names),
         t.at \in Nat, t.pc = "parse",
         Follows(t, f, algorithm, names), t.line.kind = "hole"
  PROVE  Takes(t, f, algorithm, names)
<1>1. t.nb_files = Len(names) /\ t.at <= Len(f)
  BY DEF Follows
<1>2. ASSUME t.at > 0  PROVE FALSE
  <2>1. \E i : t.line.kind = KindOf(algorithm, i)
    BY <1>2, LineTaken DEF LineOf
  <2> QED  BY <2>1 DEF KindOf
<1>3. names = <<>>
  BY <1>2 DEF Follows, IsHash
<1> QED  BY <1>1, <1>3 DEF Takes

-----------------------------------------------------------------------------
(***************************************************************************)
(* The writers of hash files, and their readers.                           *)
(***************************************************************************)

(* The executables that have been, or will be, treated by t, which has     *)
(* printed the entries of names.                                           *)
Treated(t, names) ==
  /\ t.pc = "readdir" =>
       /\ Range(names) \cap t.files = {}
       /\ Range(names) \cup {n \in t.files : Sample[n].elf}
            = Executables(t.command.argument)
  /\ t.pc \in {"close", "done"} /\ t.code = 0 =>
       Range(names) = Executables(t.command.argument)

Treats(t, names) ==
  /\ IsInjective(names)
  /\ Blocks(t.out, t.command.algorithm, names)
  /\ Treated(t, names)

WritesWhole(t) ==
  t.command.mode = "hash" =>
    /\ ~t.settled
    /\ t.algorithm = t.command.algorithm
    /\ t.pc = "stat" => t.out = <<>>
    /\ \E names \in Seq(Names) : Treats(t, names)

FollowsAll(t, f) ==
  \A algorithm \in DOMAIN Section, names \in Seq(Names) :
    Blocks(f, algorithm, names) => Follows(t, f, algorithm, names)

ReadsBack(t, disk) ==
  t.settled =>
    /\ t.command.argument \in Path
    /\ disk[t.command.argument] # Null
    /\ t.pc \notin {"access", "create", "fopen"}
    /\ FollowsAll(t, disk[t.command.argument])

BackInv ==
  /\ ReadInv
  /\ \A p \in Process :
       /\ WritesWhole(tbt[p])
       /\ tbt[p].pc = "done" => tbt[p].flushed = Len(tbt[p].out)
       /\ ReadsBack(tbt[p], fs)
       /\ tbt[p].settled => Settled(tbt[p].command.argument)

(* A step of one process, which writes its own file at most and creates    *)
(* one only where there was none: a file that was settled stays so.        *)
LEMMA BackKept ==
  ASSUME BackInv, ReadInv', NEW p \in Process, NEW u, Set(p, u), ~Ended(p),
         u.command = tbt[p].command,
         \/ u.OUTPUT = tbt[p].OUTPUT
         \/ tbt[p].pc = "create" /\ u.OUTPUT = tbt[p].command.output,
         u.pc = "create" => fs[u.command.output] = Null,
         \A path \in Path : path # u.OUTPUT => fs'[path] = fs[path],
         WritesWhole(u), u.pc = "done" => u.flushed = Len(u.out),
         ReadsBack(u, fs), u.settled => Settled(u.command.argument)
  PROVE  BackInv'
<1>1. tbt'[p] = u /\ \A q \in Process : q # p => tbt'[q] = tbt[q]
  BY DEF BackInv, ReadInv, Set, TypeInv, TbtInv, Memories
<1>2. ASSUME NEW path \in Path, Settled(path), fs[path] # Null
      PROVE  Settled(path)' /\ fs'[path] = fs[path]
  <2>1. /\ tbt[p].OUTPUT # path
        /\ tbt[p].pc = "create" => tbt[p].command.output # path
    BY <1>2 DEF Settled
  <2>2. u.OUTPUT # path /\ (u.pc = "create" => u.command.output # path)
    BY <1>2, <2>1
  <2>3. ASSUME NEW q \in Process
        PROVE  \/ tbt'[q].pc \in {"done", "killed"}
               \/ /\ tbt'[q].OUTPUT # path
                  /\ tbt'[q].pc = "create" => tbt'[q].command.output # path
    BY <1>1, <1>2, <2>2 DEF Settled, Ended
  <2> QED  BY <2>2, <2>3 DEF Settled, Ended
<1>3. ASSUME NEW q \in Process
      PROVE  /\ WritesWhole(tbt'[q])
             /\ tbt'[q].pc = "done" => tbt'[q].flushed = Len(tbt'[q].out)
             /\ ReadsBack(tbt'[q], fs')
             /\ tbt'[q].settled => Settled(tbt[q].command.argument)'
  <2>1. PICK t : t = tbt'[q]
    OBVIOUS
  <2>2. /\ WritesWhole(t) /\ ReadsBack(t, fs)
        /\ t.pc = "done" => t.flushed = Len(t.out)
        /\ t.settled => Settled(t.command.argument)
    BY <1>1, <2>1 DEF BackInv
  <2>3. ASSUME t.settled
        PROVE  /\ fs'[t.command.argument] = fs[t.command.argument]
               /\ Settled(t.command.argument)'
    BY <1>2, <2>2, <2>3 DEF ReadsBack
  <2>4. ReadsBack(t, fs')
    BY <2>2, <2>3 DEF ReadsBack
  <2>5. t.settled => Settled(tbt[q].command.argument)'
    BY <2>1, <2>3 DEF Settled, Ended
  <2> QED  BY <2>1, <2>2, <2>4, <2>5
<1> QED  BY <1>3 DEF BackInv, WritesWhole, ReadsBack, Settled, Ended

(* u follows the entries of f as t did.                                    *)
GoesOn(t, u, f) ==
  \A algorithm \in DOMAIN Section, names \in Seq(Names) :
    f \in Seq(Lines) /\ Blocks(f, algorithm, names)
      /\ Follows(t, f, algorithm, names) => Follows(u, f, algorithm, names)

(* A reader of a settled file goes on.                                     *)
LEMMA ReaderBack ==
  ASSUME BackInv, ReadInv', NEW p \in Process, NEW u, Set(p, u), UNCHANGED fs,
         tbt[p].pc \in {"count", "parse", "choose", "compare"},
         u.command = tbt[p].command, u.OUTPUT = tbt[p].OUTPUT,
         u.settled = tbt[p].settled,
         u.pc \in {"count", "parse", "choose", "compare", "close"},
         GoesOn(tbt[p], u, In(p))
  PROVE  BackInv'
<1> DEFINE t == tbt[p]
<1>1. /\ Typed(t) /\ ReadsBack(t, fs) /\ TypedFiles
      /\ t.settled => Settled(t.command.argument)
  BY DEF BackInv, ReadInv, TypeInv
<1>2. t.command.mode = "compare"
  BY <1>1 DEF Typed, Places, IsCommand
<1>3. WritesWhole(u)
  BY <1>2 DEF WritesWhole
<1>4. ASSUME u.settled
      PROVE  /\ t.command.argument \in Path /\ In(p) # Null
             /\ In(p) \in Seq(Lines) /\ FollowsAll(t, In(p))
  BY <1>1, <1>4 DEF ReadsBack, TypedFiles, In
<1>5. ReadsBack(u, fs)
  <2> SUFFICES ASSUME u.settled
               PROVE  /\ u.command.argument \in Path /\ In(p) # Null
                      /\ u.pc \notin {"access", "create", "fopen"}
                      /\ FollowsAll(u, In(p))
    BY DEF ReadsBack, In
  <2>1. FollowsAll(u, In(p))
    <3>1. In(p) \in Seq(Lines) /\ FollowsAll(t, In(p))
      BY <1>4
    <3>2. PICK f : f = In(p)
      OBVIOUS
    <3>3. ASSUME NEW algorithm \in DOMAIN Section, NEW names \in Seq(Names),
                 Blocks(f, algorithm, names)
          PROVE  Follows(u, f, algorithm, names)
      BY <3>1, <3>2, <3>3 DEF FollowsAll, GoesOn
    <3> QED  BY <3>2, <3>3 DEF FollowsAll
  <2> QED  BY <1>4, <2>1
<1>6. ~Ended(p)
  BY DEF Ended
<1> QED  BY <1>1, <1>3, <1>5, <1>6, BackKept

-----------------------------------------------------------------------------

LEMMA ExitBack ==
  ASSUME BackInv, ReadInv', NEW p \in Process, NEW code, Exit(p, code), ~Ended(p),
         code = 1 \/ (tbt[p].pc = "close" /\ code = tbt[p].code)
  PROVE  BackInv'
<1> DEFINE t == tbt[p]
           u == [t EXCEPT !.pc = "done", !.code = code, !.flushed = Len(t.out)]
<1>1. DOMAIN t = Field /\ Typed(t) /\ DOMAIN fs = Path
  BY DEF BackInv, ReadInv, TypeInv, TbtInv, Memories, IsMemory, Disks
<1>2. /\ u.command = t.command /\ u.OUTPUT = t.OUTPUT /\ u.out = t.out
      /\ u.settled = t.settled /\ u.algorithm = t.algorithm
      /\ u.pc = "done" /\ u.code = code /\ u.flushed = Len(t.out)
  BY <1>1 DEF Field
<1>3. Set(p, u)
  BY DEF Exit
<1> HIDE DEF u
<1>4. WritesWhole(t) /\ ReadsBack(t, fs) /\ (t.settled => Settled(t.command.argument))
  BY DEF BackInv
<1>5. WritesWhole(u)
  <2>1. ASSUME NEW names \in Seq(Names), Treats(t, names)
        PROVE  Treats(u, names)
    <3>1. Treated(u, names)
      BY <1>2, <2>1 DEF Treats, Treated
    <3> QED  BY <1>2, <2>1, <3>1 DEF Treats
  <2> QED  BY <1>2, <1>4, <2>1 DEF WritesWhole
<1>6. ReadsBack(u, fs)
  <2>1. \A f : FollowsAll(u, f)
    BY <1>2 DEF FollowsAll, Follows
  <2> QED  BY <1>2, <1>4, <2>1 DEF ReadsBack
<1>7. \A path \in Path : path # u.OUTPUT => fs'[path] = fs[path]
  BY <1>1, <1>2 DEF Exit
<1> QED  BY <1>2, <1>3, <1>4, <1>5, <1>6, <1>7, BackKept

LEMMA KilledBack ==
  ASSUME BackInv, ReadInv', NEW p \in Process, Killed(p)
  PROVE  BackInv'
<1> DEFINE t == tbt[p]
           u == [t EXCEPT !.pc = "killed"]
<1>1. DOMAIN t = Field
  BY DEF BackInv, ReadInv, TypeInv, TbtInv, Memories, IsMemory
<1>2. /\ u.command = t.command /\ u.OUTPUT = t.OUTPUT /\ u.out = t.out
      /\ u.settled = t.settled /\ u.algorithm = t.algorithm
      /\ u.pc = "killed"
  BY <1>1 DEF Field
<1>3. Set(p, u) /\ UNCHANGED fs /\ ~Ended(p)
  BY DEF Killed, Goto
<1> HIDE DEF u
<1>4. WritesWhole(t) /\ ReadsBack(t, fs) /\ (t.settled => Settled(t.command.argument))
  BY DEF BackInv
<1>5. WritesWhole(u)
  <2>1. ASSUME NEW names \in Seq(Names), Treats(t, names)
        PROVE  Treats(u, names)
    BY <1>2, <2>1 DEF Treats, Treated
  <2> QED  BY <1>2, <1>4, <2>1 DEF WritesWhole
<1>6. ReadsBack(u, fs)
  <2>1. \A f : FollowsAll(u, f)
    BY <1>2 DEF FollowsAll, Follows
  <2> QED  BY <1>2, <1>4, <2>1 DEF ReadsBack
<1> QED  BY <1>2, <1>3, <1>4, <1>5, <1>6, BackKept

LEMMA FlushBack ==
  ASSUME BackInv, ReadInv', NEW p \in Process, Flush(p)
  PROVE  BackInv'
<1> DEFINE t == tbt[p]
           u(n) == [t EXCEPT !.flushed = @ + n]
<1>1. DOMAIN t = Field /\ Fresh(t) /\ t.OUTPUT # Null /\ ~Ended(p) /\ DOMAIN fs = Path
  BY DEF BackInv, ReadInv, TypeInv, TbtInv, Memories, IsMemory, Flush, Disks
<1>2. PICK n, file : /\ Set(p, u(n))
                     /\ fs' = [fs EXCEPT ![t.OUTPUT] = file]
  BY DEF Flush
<1> DEFINE v == u(n)
<1>3. /\ v.command = t.command /\ v.OUTPUT = t.OUTPUT /\ v.out = t.out
      /\ v.settled = t.settled /\ v.algorithm = t.algorithm /\ v.pc = t.pc
      /\ v.code = t.code /\ v.files = t.files /\ v.at = t.at /\ v.line = t.line
      /\ v.nb_files = t.nb_files /\ v.file_count = t.file_count
      /\ v.content = t.content
  BY <1>1 DEF Field
<1>4. Set(p, v)
  BY <1>2
<1> HIDE DEF u, v
<1>5. WritesWhole(t) /\ ReadsBack(t, fs) /\ (t.settled => Settled(t.command.argument))
  BY DEF BackInv
<1>6. WritesWhole(v)
  <2>1. ASSUME NEW names \in Seq(Names), Treats(t, names)
        PROVE  Treats(v, names)
    BY <1>3, <2>1 DEF Treats, Treated
  <2> QED  BY <1>3, <1>5, <2>1 DEF WritesWhole
<1>7. ReadsBack(v, fs)
  <2>1. \A f : FollowsAll(t, f) => FollowsAll(v, f)
    BY <1>3 DEF FollowsAll, Follows
  <2> QED  BY <1>3, <1>5, <2>1 DEF ReadsBack
<1>8. v.pc # "create" /\ v.pc # "done"
  BY <1>1, <1>3 DEF Fresh, Ended
<1>9. \A path \in Path : path # v.OUTPUT => fs'[path] = fs[path]
  BY <1>1, <1>2, <1>3
<1> QED  BY <1>1, <1>3, <1>4, <1>5, <1>6, <1>7, <1>8, <1>9, BackKept

(* Before a process has begun to treat or to read.                         *)
LEMMA OpeningBack ==
  ASSUME BackInv, NEW p \in Process, tbt[p].pc \in {"access", "create"},
         NEW u, u.command = tbt[p].command, u.algorithm = tbt[p].algorithm,
         u.settled = tbt[p].settled, u.out = tbt[p].out,
         u.pc \in {"create", "stat", "fopen"}
  PROVE  WritesWhole(u) /\ ReadsBack(u, fs) /\ ~u.settled
<1> DEFINE t == tbt[p]
<1>1. WritesWhole(t) /\ ReadsBack(t, fs) /\ Fresh(t)
  BY DEF BackInv, ReadInv
<1>2. ~u.settled
  BY <1>1 DEF ReadsBack
<1>3. u.out = <<>>
  BY <1>1 DEF Fresh
<1>4. ASSUME NEW names \in Seq(Names), Treats(t, names)
      PROVE  Treats(u, names)
  BY <1>4 DEF Treats, Treated
<1>5. WritesWhole(u)
  BY <1>1, <1>2, <1>3, <1>4 DEF WritesWhole
<1> QED  BY <1>2, <1>5 DEF ReadsBack

LEMMA AccessBack ==
  ASSUME BackInv, ReadInv', NEW p \in Process, Access(p)
  PROVE  BackInv'
<1> DEFINE t == tbt[p]
<1>1. DOMAIN t = Field /\ t.pc = "access" /\ ~Ended(p)
  BY DEF BackInv, ReadInv, TypeInv, TbtInv, Memories, IsMemory, Access, Ended
<1>2. ASSUME NEW pc, Goto(p, pc), UNCHANGED fs,
             pc \in {"create", "stat", "fopen"},
             pc = "create" => fs[t.command.output] = Null
      PROVE  BackInv'
  <2> DEFINE u == [t EXCEPT !.pc = pc]
  <2>1. /\ u.command = t.command /\ u.OUTPUT = t.OUTPUT /\ u.out = t.out
        /\ u.algorithm = t.algorithm /\ u.settled = t.settled /\ u.pc = pc
    BY <1>1 DEF Field
  <2>2. Set(p, u)
    BY <1>2 DEF Goto
  <2> HIDE DEF u
  <2>3. WritesWhole(u) /\ ReadsBack(u, fs) /\ ~u.settled
    BY <1>1, <1>2, <2>1, OpeningBack
  <2> QED  BY <1>1, <1>2, <2>1, <2>2, <2>3, BackKept
<1>3. Mode(p) \in {"stat", "fopen"}
  BY DEF Mode
<1>4. CASE Exit(p, 1)
  BY <1>1, <1>4, ExitBack
<1> QED  BY <1>2, <1>3, <1>4 DEF Access

LEMMA CreateBack ==
  ASSUME BackInv, ReadInv', NEW p \in Process, Create(p)
  PROVE  BackInv'
<1> DEFINE t == tbt[p]
           output == t.command.output
           u == [t EXCEPT !.pc = Mode(p), !.OUTPUT = output]
<1>1. DOMAIN t = Field /\ t.pc = "create" /\ ~Ended(p) /\ DOMAIN fs = Path
  BY DEF BackInv, ReadInv, TypeInv, TbtInv, Memories, IsMemory, Create, Ended,
         Disks
<1>2. CASE fs' = [fs EXCEPT ![output] = <<>>] /\ Set(p, u)
  <2>1. /\ u.command = t.command /\ u.OUTPUT = output /\ u.out = t.out
        /\ u.algorithm = t.algorithm /\ u.settled = t.settled /\ u.pc = Mode(p)
    BY <1>1 DEF Field
  <2>2. Mode(p) \in {"stat", "fopen"}
    BY DEF Mode
  <2> HIDE DEF u
  <2>3. WritesWhole(u) /\ ReadsBack(u, fs) /\ ~u.settled
    BY <1>1, <2>1, <2>2, OpeningBack
  <2>4. \A path \in Path : path # output => fs'[path] = fs[path]
    BY <1>1, <1>2
  <2> QED  BY <1>1, <1>2, <2>1, <2>2, <2>3, <2>4, BackKept
<1>3. CASE Exit(p, 1)
  BY <1>1, <1>3, ExitBack
<1> QED  BY <1>2, <1>3 DEF Create

(* A file that has nothing in it holds no entries.                         *)
LEMMA NoBlocks ==
  ASSUME NEW algorithm \in DOMAIN Section, NEW names \in Seq(Names)
  PROVE  Blocks(<<>>, algorithm, names) => names = <<>>
<1>1. PICK size \in {2, 3}, m \in Nat : size = Size(algorithm) /\ m = Len(names)
  BY SizeOf
<1>2. size * m = 0 => m = 0
  <2>1. CASE size = 2  BY <2>1
  <2>2. CASE size = 3  BY <2>2
  <2> QED  BY <2>1, <2>2
<1>3. Blocks(<<>>, algorithm, names) => size * m = 0
  BY <1>1 DEF Blocks
<1> QED  BY <1>1, <1>2, <1>3

(* The files of the argument are read, and none is treated yet.            *)
LEMMA StatBack ==
  ASSUME BackInv, ReadInv', NEW p \in Process, Stat(p)
  PROVE  BackInv'
<1> DEFINE t == tbt[p]
           argument == t.command.argument
           read(files) == [t EXCEPT !.pc = "readdir", !.files = files]
           fail == [t EXCEPT !.pc = "close", !.code = 1]
<1>1. /\ DOMAIN t = Field /\ t.pc = "stat" /\ ~Ended(p) /\ Typed(t)
      /\ WritesWhole(t)
  BY DEF BackInv, ReadInv, TypeInv, TbtInv, Memories, IsMemory, Stat, Ended
<1>2. t.command.mode = "hash" /\ t.command.algorithm \in DOMAIN Section
  BY <1>1 DEF Typed, IsCommand, Places
<1>3. PICK names \in Seq(Names) : Treats(t, names)
  BY <1>1, <1>2 DEF WritesWhole
<1>4. Range(names) = {}
  <2>1. names = <<>>
    BY <1>1, <1>2, <1>3, NoBlocks DEF WritesWhole, Treats
  <2> QED  BY <2>1 DEF Range
<1>5. ~t.settled /\ t.algorithm = t.command.algorithm
  BY <1>1, <1>2 DEF WritesWhole
<1>6. ASSUME NEW files, {n \in files : Sample[n].elf} = Executables(argument),
             Set(p, read(files)), UNCHANGED fs
      PROVE  BackInv'
  <2> DEFINE u == read(files)
  <2>1. /\ u.command = t.command /\ u.OUTPUT = t.OUTPUT /\ u.out = t.out
        /\ u.algorithm = t.algorithm /\ u.settled = t.settled
        /\ u.pc = "readdir" /\ u.files = files
    BY <1>1 DEF Field
  <2>2. Set(p, u)
    BY <1>6
  <2> HIDE DEF u
  <2>3. Treats(u, names)
    BY <1>3, <1>4, <1>6, <2>1 DEF Treats, Treated
  <2>4. WritesWhole(u)
    BY <1>2, <1>5, <2>1, <2>3 DEF WritesWhole
  <2>5. ReadsBack(u, fs)
    BY <1>5, <2>1 DEF ReadsBack
  <2> QED  BY <1>1, <1>5, <1>6, <2>1, <2>2, <2>4, <2>5, BackKept
<1>7. CASE Set(p, fail) /\ UNCHANGED fs
  <2>1. /\ fail.command = t.command /\ fail.OUTPUT = t.OUTPUT
        /\ fail.out = t.out /\ fail.algorithm = t.algorithm
        /\ fail.settled = t.settled /\ fail.pc = "close" /\ fail.code = 1
    BY <1>1 DEF Field
  <2> HIDE DEF fail
  <2>2. Treats(fail, names)
    BY <1>3, <2>1 DEF Treats, Treated
  <2>3. WritesWhole(fail)
    BY <1>2, <1>5, <2>1, <2>2 DEF WritesWhole
  <2>4. ReadsBack(fail, fs)
    BY <1>5, <2>1 DEF ReadsBack
  <2> QED  BY <1>1, <1>5, <1>7, <2>1, <2>3, <2>4, BackKept
<1>8. CASE Exit(p, 1)
  BY <1>1, <1>8, ExitBack
<1>9. CASE /\ argument \in DOMAIN Directory
           /\ Set(p, read(Directory[argument])) /\ UNCHANGED fs
  <2>1. {n \in Directory[argument] : Sample[n].elf} = Executables(argument)
    BY <1>9 DEF Executables
  <2> HIDE DEF read
  <2> QED  BY <1>6, <1>9, <2>1
<1>10. CASE /\ argument \notin DOMAIN Directory
            /\ Set(p, read({argument})) /\ UNCHANGED fs
  <2>1. {n \in {argument} : Sample[n].elf} = Executables(argument)
    BY <1>10 DEF Executables
  <2> HIDE DEF read
  <2> QED  BY <1>6, <1>10, <2>1
<1> HIDE DEF read, fail
<1> QED  BY <1>7, <1>8, <1>9, <1>10 DEF Stat, read, fail

(* The entry of one more executable is printed.                            *)
LEMMA TreatBack ==
  ASSUME BackInv, ReadInv', NEW p \in Process, treat_dir(p)
  PROVE  BackInv'
<1> DEFINE t == tbt[p]
<1>1. /\ DOMAIN t = Field /\ t.pc = "readdir" /\ ~Ended(p) /\ Typed(t)
      /\ WritesWhole(t) /\ UNCHANGED fs
  BY DEF BackInv, ReadInv, TypeInv, TbtInv, Memories, IsMemory, treat_dir, Ended
<1>2. /\ t.command.mode = "hash" /\ t.command.algorithm \in DOMAIN Section
      /\ t.files \subseteq DOMAIN Sample /\ t.out \in Seq(Printable)
  BY <1>1 DEF Typed, IsCommand, Places
<1>3. PICK names \in Seq(Names) : Treats(t, names)
  BY <1>1, <1>2 DEF WritesWhole
<1>4. ~t.settled /\ t.algorithm = t.command.algorithm
  BY <1>1, <1>2 DEF WritesWhole
<1>5. ASSUME NEW name \in t.files, treat_file(p, name)  PROVE BackInv'
  <2> DEFINE u == [t EXCEPT !.files = @ \ {name},
                            !.out = IF Sample[name].elf
                                      THEN @ \o Printed(t.algorithm, name)
                                      ELSE @]
  <2>1. /\ u.command = t.command /\ u.OUTPUT = t.OUTPUT
        /\ u.out = IF Sample[name].elf THEN t.out \o Printed(t.algorithm, name)
                   ELSE t.out
        /\ u.algorithm = t.algorithm /\ u.settled = t.settled
        /\ u.pc = "readdir" /\ u.files = t.files \ {name}
    BY <1>1 DEF Field
  <2>2. Set(p, u)
    BY <1>5 DEF treat_file
  <2> HIDE DEF u
  <2>3. \E more \in Seq(Names) : Treats(u, more)
    <3>1. /\ IsInjective(names) /\ Blocks(t.out, t.command.algorithm, names)
          /\ Range(names) \cap t.files = {}
          /\ Range(names) \cup {n \in t.files : Sample[n].elf}
               = Executables(t.command.argument)
      BY <1>1, <1>3 DEF Treats, Treated
    <3>2. CASE ~Sample[name].elf
      <4>1. Treated(u, names)
        BY <2>1, <3>1, <3>2 DEF Treated
      <4> QED  BY <2>1, <3>1, <3>2, <4>1 DEF Treats
    <3>3. CASE Sample[name].elf
      <4> DEFINE more == Append(names, name)
      <4>1. name \in Names /\ name \notin Range(names)
        BY <1>2, <3>1, <3>3 DEF Names
      <4>2. PICK n \in Nat : n = Len(names)
        OBVIOUS
      <4>3. /\ more \in Seq(Names) /\ Len(more) = n + 1
            /\ DOMAIN more = 1 .. n + 1 /\ DOMAIN names = 1 .. n
            /\ more[n + 1] = name /\ \A k \in 1 .. n : more[k] = names[k]
        BY <4>1, <4>2
      <4> HIDE DEF more
      <4>4. \A k \in 1 .. n + 1 : k = n + 1 \/ k \in 1 .. n
        OBVIOUS
      <4>5. IsInjective(more)
        <5>1. \A k \in 1 .. n : names[k] # name
          BY <4>1, <4>3 DEF Range
        <5>2. \A k, l \in 1 .. n : names[k] = names[l] => k = l
          BY <3>1, <4>3 DEF IsInjective
        <5>3. \A k, l \in 1 .. n + 1 : more[k] = more[l] => k = l
          BY <4>3, <4>4, <5>1, <5>2
        <5> QED  BY <4>3, <5>3 DEF IsInjective
      <4>6. Range(more) = Range(names) \cup {name}
        <5>1. n + 1 \in 1 .. n + 1 /\ \A k \in 1 .. n : k \in 1 .. n + 1
          OBVIOUS
        <5>2. ASSUME NEW x \in Range(more)  PROVE x \in Range(names) \cup {name}
          BY <4>3, <4>4, <5>2 DEF Range
        <5>3. ASSUME NEW x \in Range(names) \cup {name}  PROVE x \in Range(more)
          BY <4>3, <5>1, <5>3 DEF Range
        <5> QED  BY <5>2, <5>3
      <4>7. Blocks(u.out, u.command.algorithm, more)
        <5>1. u.out = t.out \o Printed(t.command.algorithm, name)
          BY <1>4, <2>1, <3>3
        <5>2. PICK out \in Seq(Printable), algorithm \in DOMAIN Section :
                out = t.out /\ algorithm = t.command.algorithm
          BY <1>2
        <5>3. Blocks(out, algorithm, names)
          BY <3>1, <5>2
        <5>4. Blocks(out \o Printed(algorithm, name), algorithm,
                     Append(names, name))
          BY <4>1, <5>3, BlocksMore
        <5>5. Append(names, name) = more
          BY DEF more
        <5> QED  BY <2>1, <5>1, <5>2, <5>4, <5>5
      <4>8. Treated(u, more)
        <5>1. Range(more) \cap u.files = {}
          BY <2>1, <3>1, <4>6
        <5>2. Range(more) \cup {m \in u.files : Sample[m].elf}
                = Executables(u.command.argument)
          BY <2>1, <3>1, <3>3, <4>6
        <5> QED  BY <2>1, <5>1, <5>2 DEF Treated
      <4> QED  BY <4>3, <4>5, <4>7, <4>8 DEF Treats
    <3> QED  BY <3>2, <3>3
  <2>4. WritesWhole(u)
    BY <1>4, <2>1, <2>3 DEF WritesWhole
  <2>5. ReadsBack(u, fs)
    BY <1>4, <2>1 DEF ReadsBack
  <2> QED  BY <1>1, <1>4, <2>1, <2>2, <2>4, <2>5, BackKept
<1>6. CASE t.files = {} /\ Goto(p, "close")
  <2> DEFINE u == [t EXCEPT !.pc = "close"]
  <2>1. /\ u.command = t.command /\ u.OUTPUT = t.OUTPUT /\ u.out = t.out
        /\ u.algorithm = t.algorithm /\ u.settled = t.settled /\ u.pc = "close"
    BY <1>1 DEF Field
  <2>2. Set(p, u)
    BY <1>6 DEF Goto
  <2> HIDE DEF u
  <2>3. Treats(u, names)
    <3>1. Range(names) = Executables(t.command.argument)
      BY <1>1, <1>3, <1>6 DEF Treats, Treated
    <3> QED  BY <1>3, <2>1, <3>1 DEF Treats, Treated
  <2>4. WritesWhole(u)
    BY <1>4, <2>1, <2>3 DEF WritesWhole
  <2>5. ReadsBack(u, fs)
    BY <1>4, <2>1 DEF ReadsBack
  <2> QED  BY <1>1, <1>4, <2>1, <2>2, <2>4, <2>5, BackKept
<1> QED  BY <1>5, <1>6 DEF treat_dir

(* The file is opened, and nothing of it read.                             *)
LEMMA FopenBack ==
  ASSUME BackInv, ReadInv', NEW p \in Process, Fopen(p)
  PROVE  BackInv'
<1> DEFINE t == tbt[p]
           u == [t EXCEPT !.pc = "count",
                          !.settled = Settled(t.command.argument)]
<1>1. /\ DOMAIN t = Field /\ IsMemory(t) /\ Typed(t) /\ Fresh(t)
      /\ t.pc = "fopen" /\ ~Ended(p) /\ TypedFiles
  BY DEF BackInv, ReadInv, TypeInv, TbtInv, Memories, IsMemory, Fopen, Ended
<1>2. t.command.mode = "compare" /\ t.command.argument \in Path
  BY <1>1 DEF Typed, IsCommand, Places
<1>3. CASE Exit(p, 1)
  BY <1>1, <1>3, ExitBack
<1>4. CASE In(p) # Null /\ Set(p, u) /\ UNCHANGED fs
  <2>1. /\ u.command = t.command /\ u.OUTPUT = t.OUTPUT /\ u.pc = "count"
        /\ u.at = t.at /\ u.nb_files = t.nb_files
        /\ u.settled = Settled(t.command.argument)
    BY <1>1 DEF Field
  <2> HIDE DEF u
  <2>2. WritesWhole(u)
    BY <1>2, <2>1 DEF WritesWhole
  <2>3. u.at = 0 /\ u.nb_files = 0
    BY <1>1, <2>1 DEF Fresh, Typed
  <2>4. In(p) \in Seq(Lines)
    BY <1>1, <1>2, <1>4 DEF In, TypedFiles
  <2>5. FollowsAll(u, In(p))
    <3>1. ASSUME NEW algorithm \in DOMAIN Section, NEW names \in Seq(Names)
          PROVE  Follows(u, In(p), algorithm, names)
      <4>1. PICK size \in {2, 3} : size = Size(algorithm)
        BY SizeOf
      <4>2. Counts(size, 0, 0)
        <5>1. CASE size = 2  BY <5>1 DEF Counts
        <5>2. CASE size = 3  BY <5>2 DEF Counts
        <5> QED  BY <5>1, <5>2
      <4>3. 0 <= Len(In(p)) /\ ~(0 > 0)
        BY <2>4
      <4> QED  BY <2>1, <2>3, <4>1, <4>2, <4>3 DEF Follows
    <3> QED  BY <3>1 DEF FollowsAll
  <2>6. ReadsBack(u, fs)
    BY <1>2, <1>4, <2>1, <2>5 DEF ReadsBack, In
  <2> QED  BY <1>1, <1>4, <2>1, <2>2, <2>6, BackKept
<1> QED  BY <1>3, <1>4 DEF Fopen

LEMMA CountLineBack ==
  ASSUME BackInv, ReadInv', NEW p \in Process, CountLine(p)
  PROVE  BackInv'
<1> DEFINE t == tbt[p]
           v == Read(t, In(p))
           u == [v EXCEPT !.nb_files = IF IsHash(v.line) THEN @ ELSE @ + 1]
<1>1. /\ DOMAIN t = Field /\ IsMemory(t) /\ Typed(t) /\ t.pc = "count"
      /\ Ends(In(p), t.at) # {} /\ Set(p, u) /\ UNCHANGED fs
  BY DEF BackInv, ReadInv, TypeInv, TbtInv, Memories, IsMemory, CountLine
<1>2. /\ DOMAIN v = Field /\ v.command = t.command /\ v.OUTPUT = t.OUTPUT
      /\ v.pc = t.pc /\ v.settled = t.settled /\ v.nb_files = t.nb_files
      /\ v.at = Min(Ends(In(p), t.at)) /\ v.line = Fgets(In(p), t.at)
  BY <1>1, ReadFields
<1> HIDE DEF v
<1>3. /\ u.command = t.command /\ u.OUTPUT = t.OUTPUT /\ u.pc = "count"
      /\ u.settled = t.settled /\ u.at = Min(Ends(In(p), t.at))
      /\ u.line = Fgets(In(p), t.at)
      /\ u.nb_files = IF IsHash(u.line) THEN t.nb_files ELSE t.nb_files + 1
  BY <1>1, <1>2 DEF Field
<1> HIDE DEF u
<1>4. t.at \in Nat /\ t.nb_files \in Nat
  BY <1>1 DEF Typed, IsMemory
<1>5. GoesOn(t, u, In(p))
  <2>1. PICK f : f = In(p)
    OBVIOUS
  <2>2. ASSUME NEW algorithm \in DOMAIN Section, NEW names \in Seq(Names),
               f \in Seq(Lines), Blocks(f, algorithm, names),
               Follows(t, f, algorithm, names)
        PROVE  Follows(u, f, algorithm, names)
    BY <1>1, <1>3, <1>4, <2>1, <2>2, CountFollows
  <2> QED  BY <2>1, <2>2 DEF GoesOn
<1> QED  BY <1>1, <1>3, <1>5, ReaderBack

LEMMA CountEndBack ==
  ASSUME BackInv, ReadInv', NEW p \in Process, CountEnd(p)
  PROVE  BackInv'
<1> DEFINE t == tbt[p]
           content == [k \in 1 .. t.nb_files + 1 |-> NoEntry]
           u(line) == [t EXCEPT !.pc = "parse", !.at = 0, !.line = line,
                                !.content = content]
<1>1. /\ DOMAIN t = Field /\ IsMemory(t) /\ Typed(t) /\ Fresh(t)
      /\ t.pc = "count" /\ Ends(In(p), t.at) = {} /\ UNCHANGED fs
  BY DEF BackInv, ReadInv, TypeInv, TbtInv, Memories, IsMemory, CountEnd
<1>2. PICK line : /\ Set(p, u(line))
                  /\ line \in IF Len(In(p)) > t.at THEN {Cut(Fgets(In(p), t.at))}
                              ELSE IF t.at > 0 THEN {t.line}
                              ELSE {Hole, Cut(Line("name", Unset))}
  BY DEF CountEnd
<1> DEFINE v == u(line)
<1>3. /\ v.command = t.command /\ v.OUTPUT = t.OUTPUT /\ v.pc = "parse"
      /\ v.at = 0 /\ v.settled = t.settled /\ v.nb_files = t.nb_files
      /\ v.file_count = t.file_count /\ v.content = content /\ v.line = line
  BY <1>1 DEF Field
<1>4. Set(p, v)
  BY <1>2
<1>5. t.at \in Nat /\ t.nb_files \in Nat /\ t.file_count = 0
  BY <1>1 DEF Typed, IsMemory, Fresh
<1>6. \A k \in 1 .. t.nb_files + 1 : v.content[k] = NoEntry
  BY <1>3
<1> HIDE DEF u, v, content
<1>7. GoesOn(t, v, In(p))
  <2>1. PICK f : f = In(p)
    OBVIOUS
  <2>2. ASSUME NEW algorithm \in DOMAIN Section, NEW names \in Seq(Names),
               f \in Seq(Lines), Blocks(f, algorithm, names),
               Follows(t, f, algorithm, names)
        PROVE  Follows(v, f, algorithm, names)
    <3>1. t.at > 0 /\ t.at >= Len(f) => v.line = t.line
      <4>1. t.at >= Len(f) => ~(Len(f) > t.at)
        BY <1>5, <2>1
      <4> QED  BY <1>2, <1>3, <2>1, <4>1
    <3>2. v.file_count = 0
      BY <1>3, <1>5
    <3> QED
      BY <1>1, <1>3, <1>5, <1>6, <2>1, <2>2, <3>1, <3>2, CountEndFollows
  <2> QED  BY <2>1, <2>2 DEF GoesOn
<1> QED  BY <1>1, <1>3, <1>4, <1>7, ReaderBack

(* v has taken the line that t, which follows the entries of f, had read.  *)
TakesOn(t, v, f) ==
  \A algorithm \in DOMAIN Section, names \in Seq(Names) :
    f \in Seq(Lines) /\ Blocks(f, algorithm, names)
      /\ Follows(t, f, algorithm, names) => Takes(v, f, algorithm, names)

(* The line has been parsed into v, and the next is read.                  *)
LEMMA ReadNextBack ==
  ASSUME BackInv, ReadInv', NEW p \in Process, tbt[p].pc = "parse",
         NEW v, DOMAIN v = Field, ReadNext(p, v),
         v.pc = "parse", v.command = tbt[p].command, v.OUTPUT = tbt[p].OUTPUT,
         v.settled = tbt[p].settled, v.at \in Nat, v.file_count \in Nat,
         v.content \in Seq(Entries), Len(v.content) = v.nb_files + 1,
         TakesOn(tbt[p], v, In(p))
  PROVE  BackInv'
<1> DEFINE t == tbt[p]
           u == IF Ends(In(p), v.at) = {} THEN [v EXCEPT !.pc = "choose"]
                ELSE Read(v, In(p))
<1>1. Set(p, u) /\ UNCHANGED fs
  BY DEF ReadNext
<1>2. /\ u.command = t.command /\ u.OUTPUT = t.OUTPUT
      /\ u.settled = t.settled /\ u.pc \in {"parse", "choose"}
  <2>1. CASE u = [v EXCEPT !.pc = "choose"]
    <3> HIDE DEF u
    <3> QED  BY <2>1 DEF Field
  <2>2. CASE u = Read(v, In(p))
    <3> HIDE DEF u
    <3> QED  BY <2>2, ReadFields
  <2> QED  BY <2>1, <2>2
<1>3. GoesOn(t, u, In(p))
  <2>1. PICK f : f = In(p)
    OBVIOUS
  <2>2. ASSUME NEW algorithm \in DOMAIN Section, NEW names \in Seq(Names),
               f \in Seq(Lines), Blocks(f, algorithm, names),
               Follows(t, f, algorithm, names)
        PROVE  Follows(u, f, algorithm, names)
    <3>2. Takes(v, f, algorithm, names)
      BY <2>1, <2>2 DEF TakesOn
    <3>3. u = IF Ends(f, v.at) = {} THEN [v EXCEPT !.pc = "choose"] ELSE Read(v, f)
      BY <2>1
    <3> HIDE DEF u
    <3>4. Follows(u, f, algorithm, names)
      BY <2>1, <2>2, <3>2, <3>3, NextFollows
    <3> QED  BY <2>1, <3>4
  <2> QED  BY <2>1, <2>2 DEF GoesOn
<1> HIDE DEF u
<1> QED  BY <1>1, <1>2, <1>3, ReaderBack

LEMMA ParseNameBack ==
  ASSUME BackInv, ReadInv', NEW p \in Process, ParseName(p)
  PROVE  BackInv'
<1> DEFINE t == tbt[p]
           k == t.file_count + 1
<1>1. PICK name \in {t.line.text, Unset}, kinds \in SUBSET HashKinds :
        /\ ReadNext(p, Named(t, name, kinds))
        /\ ~Beyond(t) => name = t.line.text /\ kinds = {}
  BY ParseNameStores DEF HashKinds
<1>2. /\ Typed(t) /\ IsMemory(t) /\ t.pc = "parse" /\ t.line.kind = "name"
      /\ t.file_count <= t.nb_files
  BY DEF BackInv, ReadInv, TypeInv, TbtInv, Memories, ParseName, Parsing
<1>3. name \in Names \cup {Unset}
  <2>1. t.line.text \in Texts("name") \cup {Unset}
    BY <1>2 DEF Typed, IsBuffer
  <2> QED  BY <1>1, <2>1, TextsOfKinds
<1>4. /\ k \in 1 .. Len(t.content) /\ t.content \in Seq(Entries)
      /\ t.at \in Nat /\ t.file_count \in Nat /\ k \in Nat
      /\ Len(t.content) = t.nb_files + 1
  BY <1>2 DEF Typed, IsMemory
<1> DEFINE v == Named(t, name, kinds)
<1>5. /\ DOMAIN v = Field
      /\ v.content = Enter(t.content, k, name, kinds)
      /\ v.file_count = k /\ v.command = t.command /\ v.OUTPUT = t.OUTPUT
      /\ v.pc = t.pc /\ v.settled = t.settled /\ v.nb_files = t.nb_files
      /\ v.at = t.at
  BY <1>2, NamedFields DEF IsMemory
<1>6. ReadNext(p, v)
  BY <1>1
<1> HIDE DEF v
<1>7. /\ v.content \in Seq(Entries) /\ Len(v.content) = Len(t.content)
      /\ v.content[k].name = name
      /\ \A kind \in HashKinds :
           v.content[k][kind] = IF kind \in kinds THEN Scrap ELSE t.content[k][kind]
      /\ \A l \in 1 .. Len(t.content) : l # k => v.content[l] = t.content[l]
  <2>0. PICK content \in Seq(Entries) : content = t.content
    BY <1>4
  <2>1. PICK c \in 1 .. Len(content), text \in Names \cup {Unset} :
          content = t.content /\ c = k /\ text = name
    BY <1>3, <1>4, <2>0
  <2> PICK new : new = v.content
    OBVIOUS
  <2>2. new = Enter(content, c, text, kinds) /\ new = v.content
    BY <1>5, <2>1
  <2> HIDE DEF k
  <2>3. /\ new \in Seq(Entries) /\ Len(new) = Len(content)
        /\ new[c].name = text
        /\ \A kind \in HashKinds :
             new[c][kind] = IF kind \in kinds THEN Scrap ELSE content[c][kind]
        /\ \A l \in 1 .. Len(content) : l # c => new[l] = content[l]
    <3>1. /\ new \in Seq(Entries) /\ Len(new) = Len(content)
          /\ new[c].name = text
          /\ new[c].ctph = IF "ctph" \in kinds THEN Scrap ELSE content[c].ctph
          /\ new[c].simhash =
               IF "simhash" \in kinds THEN Scrap ELSE content[c].simhash
          /\ \A l \in 1 .. Len(content) : l # c => new[l] = content[l]
      <4>1. new = Enter(content, c, text, kinds)
        BY <2>2
      <4> HIDE DEF t, v
      <4> QED  BY <4>1, NameStored
    <3> QED  BY <3>1 DEF HashKinds
  <2> QED  BY <2>1, <2>2, <2>3
<1>8. TakesOn(t, v, In(p))
  <2>1. PICK f : f = In(p)
    OBVIOUS
  <2>2. ASSUME NEW algorithm \in DOMAIN Section, NEW names \in Seq(Names),
               f \in Seq(Lines), Blocks(f, algorithm, names),
               Follows(t, f, algorithm, names)
        PROVE  Takes(v, f, algorithm, names)
    <3>1. ~Beyond(t) => /\ v.content[k].name = t.line.text
                        /\ v.content[k].ctph = t.content[k].ctph
                        /\ v.content[k].simhash = t.content[k].simhash
      BY <1>1, <1>7 DEF HashKinds
    <3> QED  BY <1>2, <1>4, <1>5, <1>7, <2>1, <2>2, <3>1, ParseNameFollows
  <2> QED  BY <2>1, <2>2 DEF TakesOn
<1>9. /\ v.pc = "parse" /\ v.at \in Nat /\ v.file_count \in Nat
      /\ Len(v.content) = v.nb_files + 1
  BY <1>2, <1>4, <1>5, <1>7
<1> HIDE DEF k
<1> QED  BY <1>2, <1>5, <1>6, <1>7, <1>8, <1>9, ReadNextBack

LEMMA ParseHashBack ==
  ASSUME BackInv, ReadInv', NEW p \in Process, ParseHash(p)
  PROVE  BackInv'
<1> DEFINE t == tbt[p]
           k == t.file_count
           kind == t.line.kind
           text == t.line.text
           v == IF t.file_count = 0 THEN t ELSE Hashed(t)
<1>1. ReadNext(p, v)
  BY DEF ParseHash, Hashed
<1>2. /\ Typed(t) /\ IsMemory(t) /\ t.pc = "parse" /\ DOMAIN t = Field
      /\ kind \in HashKinds /\ t.file_count <= t.nb_files /\ IsHash(t.line)
  BY DEF BackInv, ReadInv, TypeInv, TbtInv, Memories, ParseHash, Parsing, IsHash,
         HashKinds, IsMemory
<1>3. /\ t.at \in Nat /\ t.file_count \in Nat /\ t.content \in Seq(Entries)
      /\ Len(t.content) = t.nb_files + 1
  BY <1>2 DEF Typed, IsMemory
<1>4. text \in Texts(kind)
  <2>1. text \in Texts(kind) \cup {Unset}
    BY <1>2 DEF Typed, IsBuffer
  <2>2. Unset \in Texts(kind)
    BY <1>2, TextsOfKinds DEF HashKinds
  <2> QED  BY <2>1, <2>2
<1>5. /\ DOMAIN v = Field
      /\ v.content = IF k = 0 THEN t.content ELSE Store(t.content, k, kind, text)
      /\ v.file_count = k /\ v.command = t.command /\ v.OUTPUT = t.OUTPUT
      /\ v.pc = t.pc /\ v.settled = t.settled /\ v.nb_files = t.nb_files
      /\ v.at = t.at
  <2>1. CASE k = 0
    BY <1>2, <2>1
  <2>2. CASE k # 0
    BY <1>2, <2>2, HashedFields
  <2> QED  BY <2>1, <2>2
<1> HIDE DEF v
<1>6. v.content \in Seq(Entries) /\ Len(v.content) = Len(t.content)
  <2>1. CASE k = 0
    BY <1>3, <1>5, <2>1
  <2>2. CASE k # 0
    <3>1. k \in 1 .. Len(t.content)
      BY <1>2, <1>3, <2>2 DEF IsMemory
    <3>0. PICK content \in Seq(Entries) : content = t.content
      BY <1>3
    <3>2. PICK c \in 1 .. Len(content) : content = t.content /\ c = k
      BY <3>0, <3>1
    <3> DEFINE new == v.content
    <3>3. new = Store(content, c, kind, text)
      BY <1>5, <2>2, <3>2
    <3> HIDE DEF new, k, kind, text
    <3>4. new \in Seq(Entries) /\ Len(new) = Len(content)
      BY <1>2, <1>4, <3>3, HashStored
    <3> QED  BY <3>2, <3>4 DEF new
  <2> QED  BY <2>1, <2>2
<1>7. TakesOn(t, v, In(p))
  <2>1. PICK f : f = In(p)
    OBVIOUS
  <2>2. ASSUME NEW algorithm \in DOMAIN Section, NEW names \in Seq(Names),
               f \in Seq(Lines), Blocks(f, algorithm, names),
               Follows(t, f, algorithm, names)
        PROVE  Takes(v, f, algorithm, names)
    BY <1>2, <1>3, <1>4, <1>5, <2>1, <2>2, ParseHashFollows
  <2> QED  BY <2>1, <2>2 DEF TakesOn
<1>8. /\ v.pc = "parse" /\ v.at \in Nat /\ v.file_count \in Nat
      /\ Len(v.content) = v.nb_files + 1
  BY <1>2, <1>3, <1>5, <1>6
<1> HIDE DEF k, kind, text
<1> QED  BY <1>1, <1>2, <1>5, <1>6, <1>7, <1>8, ReadNextBack

LEMMA ParseNothingBack ==
  ASSUME BackInv, ReadInv', NEW p \in Process, ParseNothing(p)
  PROVE  BackInv'
<1> DEFINE t == tbt[p]
<1>1. /\ Typed(t) /\ IsMemory(t) /\ DOMAIN t = Field /\ t.pc = "parse"
      /\ t.line.kind = "hole" /\ ReadNext(p, t)
  BY DEF BackInv, ReadInv, TypeInv, TbtInv, Memories, IsMemory, ParseNothing,
         Parsing
<1>2. /\ t.at \in Nat /\ t.file_count \in Nat /\ t.content \in Seq(Entries)
      /\ Len(t.content) = t.nb_files + 1
  BY <1>1 DEF Typed, IsMemory
<1>3. TakesOn(t, t, In(p))
  <2>1. PICK f : f = In(p)
    OBVIOUS
  <2>2. ASSUME NEW algorithm \in DOMAIN Section, NEW names \in Seq(Names),
               f \in Seq(Lines), Blocks(f, algorithm, names),
               Follows(t, f, algorithm, names)
        PROVE  Takes(t, f, algorithm, names)
    BY <1>1, <1>2, <2>1, <2>2, ParseNothingFollows
  <2> QED  BY <2>1, <2>2 DEF TakesOn
<1> QED  BY <1>1, <1>2, <1>3, ReadNextBack

(* A reader whose entries are taken prints, and follows them still.        *)
LEMMA TakenBack ==
  ASSUME BackInv, ReadInv', NEW p \in Process, NEW u, Set(p, u), UNCHANGED fs,
         tbt[p].pc \in {"choose", "compare"}, u.pc \in {"compare", "close"},
         u.command = tbt[p].command, u.OUTPUT = tbt[p].OUTPUT,
         u.settled = tbt[p].settled, u.nb_files = tbt[p].nb_files,
         u.content = tbt[p].content
  PROVE  BackInv'
<1>1. GoesOn(tbt[p], u, In(p))
  BY DEF GoesOn, Follows
<1> QED  BY <1>1, ReaderBack

LEMMA ChooseBack ==
  ASSUME BackInv, ReadInv', NEW p \in Process, Choose(p)
  PROVE  BackInv'
<1> DEFINE t == tbt[p]
           u == [t EXCEPT !.pc = "compare", !.algorithm = Chosen(t),
                          !.work = Work(Section[Chosen(t)], t.nb_files)]
<1>1. DOMAIN t = Field /\ t.pc = "choose" /\ ~Ended(p)
  BY DEF BackInv, ReadInv, TypeInv, TbtInv, Memories, IsMemory, Choose, Ended
<1>2. CASE Exit(p, 1)
  BY <1>1, <1>2, ExitBack
<1>3. CASE Set(p, u) /\ UNCHANGED fs
  <2>1. /\ u.command = t.command /\ u.OUTPUT = t.OUTPUT /\ u.pc = "compare"
        /\ u.settled = t.settled /\ u.nb_files = t.nb_files
        /\ u.content = t.content
    BY <1>1 DEF Field
  <2> HIDE DEF u
  <2> QED  BY <1>1, <1>3, <2>1, TakenBack
<1> QED  BY <1>2, <1>3 DEF Choose

LEMMA HeadingBack ==
  ASSUME BackInv, ReadInv', NEW p \in Process, Heading(p)
  PROVE  BackInv'
<1> DEFINE t == tbt[p]
           u == [t EXCEPT !.work = Tail(@),
                          !.out = Append(@, Line("head", Head(t.work)[1]))]
<1>1. DOMAIN t = Field /\ t.pc = "compare" /\ Set(p, u) /\ UNCHANGED fs
  BY DEF BackInv, ReadInv, TypeInv, TbtInv, Memories, IsMemory, Heading
<1>2. /\ u.command = t.command /\ u.OUTPUT = t.OUTPUT /\ u.pc = "compare"
      /\ u.settled = t.settled /\ u.nb_files = t.nb_files
      /\ u.content = t.content
  BY <1>1 DEF Field
<1> HIDE DEF u
<1> QED  BY <1>1, <1>2, TakenBack

LEMMA CompareNextBack ==
  ASSUME BackInv, ReadInv', NEW p \in Process, CompareNext(p)
  PROVE  BackInv'
<1> DEFINE t == tbt[p]
           u(list) == [t EXCEPT !.work = Tail(@), !.out = t.out \o list]
<1>1. PICK list : Set(p, u(list))
  BY CompareNextLists DEF BackInv, ReadInv
<1>2. DOMAIN t = Field /\ t.pc = "compare" /\ UNCHANGED fs
  BY DEF BackInv, ReadInv, TypeInv, TbtInv, Memories, IsMemory, CompareNext
<1> DEFINE v == u(list)
<1>3. /\ v.command = t.command /\ v.OUTPUT = t.OUTPUT /\ v.pc = "compare"
      /\ v.settled = t.settled /\ v.nb_files = t.nb_files
      /\ v.content = t.content
  BY <1>2 DEF Field
<1>4. Set(p, v)
  BY <1>1
<1> HIDE DEF u, v
<1> QED  BY <1>2, <1>3, <1>4, TakenBack

LEMMA ComparedBack ==
  ASSUME BackInv, ReadInv', NEW p \in Process, Compared(p)
  PROVE  BackInv'
<1> DEFINE t == tbt[p]
           u == [t EXCEPT !.pc = "close"]
<1>1. DOMAIN t = Field /\ t.pc = "compare" /\ Set(p, u) /\ UNCHANGED fs
  BY DEF BackInv, ReadInv, TypeInv, TbtInv, Memories, IsMemory, Compared, Goto
<1>2. /\ u.command = t.command /\ u.OUTPUT = t.OUTPUT /\ u.pc = "close"
      /\ u.settled = t.settled /\ u.nb_files = t.nb_files
      /\ u.content = t.content
  BY <1>1 DEF Field
<1> HIDE DEF u
<1> QED  BY <1>1, <1>2, TakenBack

-----------------------------------------------------------------------------

(* Before any step nothing has been printed, and nobody reads.             *)
THEOREM BackInvInit ==
  Init => BackInv
<1> SUFFICES ASSUME Init  PROVE BackInv
  OBVIOUS
<1>1. ReadInv
  BY ReadInvInit
<1>2. PICK run \in Runs : tbt = [p \in Process |-> Begin(run[p])]
  BY DEF Init
<1>3. ASSUME NEW p \in Process
      PROVE  /\ WritesWhole(tbt[p])
             /\ tbt[p].pc # "done" /\ ~tbt[p].settled
  <2> DEFINE t == tbt[p]
  <2>1. /\ t.pc = "access" /\ t.out = <<>> /\ ~t.settled
        /\ t.algorithm = t.command.algorithm
    BY <1>2 DEF Begin
  <2>2. t.command.algorithm \in DOMAIN Section
    BY <1>1 DEF ReadInv, TypeInv, Typed, IsCommand
  <2> HIDE DEF t
  <2>3. PICK algorithm \in DOMAIN Section : algorithm = t.command.algorithm
    BY <2>2
  <2>4. <<>> \in Seq(Names) /\ IsInjective(<<>>)
    BY DEF IsInjective
  <2>5. Blocks(<<>>, algorithm, <<>>)
    <3>1. PICK size \in {2, 3} : size = Size(algorithm)
      BY SizeOf
    <3>2. Len(<<>>) = 0 /\ size * 0 = 0
      <4>1. CASE size = 2  BY <4>1
      <4>2. CASE size = 3  BY <4>2
      <4> QED  BY <4>1, <4>2
    <3> QED  BY <3>1, <3>2 DEF Blocks
  <2>6. Treats(t, <<>>)
    BY <2>1, <2>3, <2>4, <2>5 DEF Treats, Treated
  <2>7. WritesWhole(t)
    BY <2>1, <2>4, <2>6 DEF WritesWhole
  <2> QED  BY <2>1, <2>7 DEF t
<1> QED  BY <1>1, <1>3 DEF BackInv, ReadsBack

LEMMA BackInvStep ==
  ASSUME BackInv, ReadInv', NEW p \in Process, Step(p)
  PROVE  BackInv'
<1>1. CASE Access(p)        BY <1>1, AccessBack
<1>2. CASE Create(p)        BY <1>2, CreateBack
<1>3. CASE Stat(p)          BY <1>3, StatBack
<1>4. CASE treat_dir(p)     BY <1>4, TreatBack
<1>5. CASE Fopen(p)         BY <1>5, FopenBack
<1>6. CASE CountLine(p)     BY <1>6, CountLineBack
<1>7. CASE CountEnd(p)      BY <1>7, CountEndBack
<1>8. CASE WrongNumber(p)   BY <1>8, ExitBack DEF WrongNumber, Ended
<1>9. CASE ParseName(p)     BY <1>9, ParseNameBack
<1>10. CASE ParseHash(p)    BY <1>10, ParseHashBack
<1>11. CASE ParseNothing(p) BY <1>11, ParseNothingBack
<1>12. CASE Choose(p)       BY <1>12, ChooseBack
<1>13. CASE Heading(p)      BY <1>13, HeadingBack
<1>14. CASE CompareNext(p)  BY <1>14, CompareNextBack
<1>15. CASE Compared(p)     BY <1>15, ComparedBack
<1>16. CASE close_output(p) BY <1>16, ExitBack DEF close_output, Ended
<1> QED
  BY <1>1, <1>2, <1>3, <1>4, <1>5, <1>6, <1>7, <1>8, <1>9, <1>10, <1>11,
     <1>12, <1>13, <1>14, <1>15, <1>16 DEF Step

(* Every step of a writer goes on with the entries it has printed, and     *)
(* every step of a reader with those of its file.                          *)
THEOREM BackInvNext ==
  BackInv /\ [Next]_vars => BackInv'
<1> SUFFICES ASSUME BackInv, [Next]_vars  PROVE BackInv'
  OBVIOUS
<1>1. ReadInv'
  BY ReadInvNext DEF BackInv
<1>2. ASSUME NEW p \in Process, Step(p)  PROVE BackInv'
  BY <1>1, <1>2, BackInvStep
<1>3. ASSUME NEW p \in Process, Flush(p)  PROVE BackInv'
  BY <1>1, <1>3, FlushBack
<1>4. ASSUME NEW p \in Process, Killed(p)  PROVE BackInv'
  BY <1>1, <1>4, KilledBack
<1>5. CASE UNCHANGED vars
  BY <1>1, <1>5 DEF BackInv, Settled, Ended, vars
<1> QED  BY <1>2, <1>3, <1>4, <1>5 DEF Next, Done

(* Names are counted by a list of them in which none comes twice.          *)
LEMMA ListCounts ==
  ASSUME NEW names \in Seq(Names), IsInjective(names)
  PROVE  Cardinality(Range(names)) = Len(names)
<1>1. PICK n \in Nat : n = Len(names) /\ DOMAIN names = 1 .. n
  OBVIOUS
<1>2. IsFiniteSet(1 .. n) /\ Cardinality(1 .. n) = n
  BY FS_Interval
<1>3. names \in [1 .. n -> Range(names)]
  BY <1>1 DEF Range
<1>4. names \in Bijection(1 .. n, Range(names))
  BY <1>1, <1>3 DEF Bijection, Injection, Surjection, IsInjective, Range
<1> QED  BY <1>1, <1>2, <1>4, FS_Bijection DEF ExistsBijection

(* The hashes that are asked for.                                          *)
LEMMA SectionHas ==
  ASSUME NEW algorithm \in DOMAIN Section
  PROVE  /\ "ctph" \in Range(Section[algorithm]) <=> algorithm # "SIMHASH"
         /\ "simhash" \in Range(Section[algorithm]) <=> algorithm # "CTPH"
<1>1. algorithm \in {"ALL", "CTPH", "SIMHASH"}
  BY SizeOf
<1>2. /\ Section["ALL"] = <<"ctph", "simhash">>
      /\ Section["CTPH"] = <<"ctph">> /\ Section["SIMHASH"] = <<"simhash">>
  BY DEF Section
<1>3. /\ Range(<<"ctph", "simhash">>) = {"ctph", "simhash"}
      /\ Range(<<"ctph">>) = {"ctph"} /\ Range(<<"simhash">>) = {"simhash"}
  BY DEF Range
<1> QED  BY <1>1, <1>2, <1>3

(* What a writer has completed is the entries of its executables.          *)
LEMMA WrittenBlocks ==
  ASSUME BackInv, NEW p \in Process, NEW q \in Process, ReadsWhatWrote(p, q)
  PROVE  /\ In(p) \in Seq(Lines)
         /\ FollowsAll(tbt[p], In(p))
         /\ tbt[q].command.algorithm \in DOMAIN Section
         /\ \E names \in Seq(Names) :
              /\ IsInjective(names)
              /\ Range(names) = Executables(tbt[q].command.argument)
              /\ Blocks(In(p), tbt[q].command.algorithm, names)
<1> DEFINE path == tbt[p].command.argument
<1>1. /\ path \in Path /\ In(p) # Null /\ FollowsAll(tbt[p], In(p))
  BY DEF BackInv, ReadsWhatWrote, ReadsBack, In
<1>2. In(p) \in Seq(Lines)
  BY <1>1 DEF BackInv, ReadInv, TypeInv, TypedFiles, In
<1>3. tbt[q].OUTPUT = path /\ Sole(tbt, path)
  <2>1. Writers(path) = {q}
    BY DEF ReadsWhatWrote
  <2> QED  BY <2>1 DEF Writers, Sole
<1>4. path # Null
  BY <1>1, TbtAssumption DEF Path
<1>5. Written(tbt[q], In(p))
  BY <1>3, <1>4 DEF BackInv, ReadInv, WritesWell, In
<1>6. /\ tbt[q].pc = "done" /\ tbt[q].code = 0
      /\ tbt[q].flushed = Len(tbt[q].out) /\ tbt[q].out \in Seq(Printable)
      /\ tbt[q].command.algorithm \in DOMAIN Section
  BY DEF BackInv, ReadInv, TypeInv, Typed, IsCommand, ReadsWhatWrote
<1>7. PICK names \in Seq(Names) : Treats(tbt[q], names)
  BY DEF BackInv, WritesWhole, ReadsWhatWrote
<1>8. Range(names) = Executables(tbt[q].command.argument) /\ IsInjective(names)
  BY <1>6, <1>7 DEF Treats, Treated
<1>9. Blocks(In(p), tbt[q].command.algorithm, names)
  <2> PICK f : f = In(p)
    OBVIOUS
  <2> PICK out \in Seq(Printable) : out = tbt[q].out
    BY <1>6
  <2> PICK algorithm \in DOMAIN Section : algorithm = tbt[q].command.algorithm
    BY <1>6
  <2>1. /\ f = In(p) /\ out = tbt[q].out
        /\ algorithm = tbt[q].command.algorithm
    OBVIOUS
  <2>2. PICK n \in Nat : n = Len(out)
    OBVIOUS
  <2>3. Len(f) = n /\ \A k \in 1 .. n : f[k] = out[k]
    <3>1. ~(n < n) /\ (Len(f) = n + 1 => n < n)
      BY <1>5, <1>6, <2>1, <2>2 DEF Written
    <3> QED  BY <1>5, <1>6, <2>1, <2>2, <3>1 DEF Written
  <2>4. Blocks(out, algorithm, names)
    BY <1>7, <2>1 DEF Treats
  <2>5. PICK size \in {2, 3}, m \in Nat : size = Size(algorithm) /\ m = Len(names)
    BY SizeOf
  <2>6. n = size * m
    BY <2>2, <2>4, <2>5 DEF Blocks
  <2>7. ASSUME NEW j \in 1 .. m, NEW i \in 1 .. size
        PROVE  f[size * (j - 1) + i] = Printed(algorithm, names[j])[i]
    <3>1. size * (j - 1) + i \in 1 .. n
      <4>1. CASE size = 2  BY <2>6, <4>1
      <4>2. CASE size = 3  BY <2>6, <4>2
      <4> QED  BY <4>1, <4>2
    <3>2. out[size * (j - 1) + i] = Printed(algorithm, names[j])[i]
      BY <2>4, <2>5 DEF Blocks
    <3> QED  BY <2>3, <3>1, <3>2
  <2>8. Blocks(f, algorithm, names)
    BY <2>3, <2>5, <2>6, <2>7 DEF Blocks
  <2> QED  BY <2>1, <2>8
<1> QED  BY <1>1, <1>2, <1>6, <1>7, <1>8, <1>9

(* For any number of runs, calls, directories and executables: a reader    *)
(* that began when one run alone had completed its hash file never stores  *)
(* an entry behind those it counted, never finds a wrong number of them,   *)
(* and ends with exactly one entry for every executable, with the hashes   *)
(* asked for, although get_nb_files and get_file_content decide in         *)
(* different ways what an entry is, and a line left over from counting is  *)
(* parsed first (src/tbt.c:176, 217 and 226).                              *)
THEOREM WhatIsWrittenIsRead ==
  Spec => []HashThenCompare
<1>1. ASSUME BackInv  PROVE HashThenCompare
  <2> SUFFICES ASSUME NEW p \in Process, NEW q \in Process, ReadsWhatWrote(p, q)
               PROVE  LET t       == tbt[p]
                          written == Executables(tbt[q].command.argument)
                          stored(section, n) ==
                            IF section \in Range(Section[tbt[q].command.algorithm])
                              THEN Sample[n][section] ELSE Unset
                      IN /\ t.pc = "parse" => t.file_count <= t.nb_files
                         /\ t.pc \in {"choose", "compare", "close"} =>
                              /\ t.nb_files = Cardinality(written)
                              /\ {t.content[k] : k \in 1 .. t.nb_files} =
                                   {[name |-> n, ctph |-> stored("ctph", n),
                                     simhash |-> stored("simhash", n)] : n \in written}
    BY DEF HashThenCompare
  <2> DEFINE t == tbt[p]
             written == Executables(tbt[q].command.argument)
             stored(section, n) ==
               IF section \in Range(Section[tbt[q].command.algorithm])
                 THEN Sample[n][section] ELSE Unset
  <2>1. PICK algorithm \in DOMAIN Section, names \in Seq(Names) :
          /\ algorithm = tbt[q].command.algorithm
          /\ IsInjective(names) /\ Range(names) = written
          /\ Blocks(In(p), algorithm, names)
    BY <1>1, WrittenBlocks
  <2>2. PICK f \in Seq(Lines) : f = In(p)
    BY <1>1, WrittenBlocks
  <2>3. Blocks(f, algorithm, names) /\ Follows(t, f, algorithm, names)
    BY <1>1, <2>1, <2>2, WrittenBlocks DEF FollowsAll
  <2>4. IsMemory(t) /\ Typed(t)
    BY <1>1 DEF BackInv, ReadInv, TypeInv, TbtInv, Memories
  <2>5. PICK size \in {2, 3}, m \in Nat : size = Size(algorithm) /\ m = Len(names)
    BY SizeOf
  <2>6. ASSUME t.pc = "parse"  PROVE t.file_count <= t.nb_files
    <3>1. PICK c \in Nat, at \in Nat : c = t.file_count /\ at = t.at
      BY <2>4 DEF IsMemory, Typed
    <3>2. at <= size * m /\ t.nb_files = m
      BY <2>3, <2>5, <2>6, <3>1 DEF Follows, Blocks
    <3>3. CASE at > 0
      <4>1. Counts(size, at - 1, c)
        BY <2>3, <2>5, <2>6, <3>1, <3>3 DEF Follows, Stored
      <4>2. at - 1 \in Nat /\ at - 1 <= size * m
        <5>1. CASE size = 2  BY <3>2, <3>3, <5>1
        <5>2. CASE size = 3  BY <3>2, <3>3, <5>2
        <5> QED  BY <5>1, <5>2
      <4>3. c <= m
        BY <4>1, <4>2, CountsPart
      <4> QED  BY <3>1, <3>2, <4>3
    <3>4. CASE ~(at > 0)
      <4>1. c = 0
        BY <2>3, <2>6, <3>1, <3>4 DEF Follows
      <4> QED  BY <3>1, <3>2, <4>1
    <3> QED  BY <3>3, <3>4
  <2>7. ASSUME t.pc \in {"choose", "compare", "close"}
        PROVE  /\ t.nb_files = Cardinality(written)
               /\ {t.content[k] : k \in 1 .. t.nb_files} =
                    {[name |-> n, ctph |-> stored("ctph", n),
                      simhash |-> stored("simhash", n)] : n \in written}
    <3>1. /\ t.nb_files = m
          /\ \A k \in 1 .. m : t.content[k] = Entry(algorithm, names[k])
      BY <2>3, <2>5, <2>7 DEF Follows
    <3>2. Cardinality(written) = m
      BY <2>1, <2>5, ListCounts
    <3>3. ASSUME NEW n
          PROVE  [name |-> n, ctph |-> stored("ctph", n),
                  simhash |-> stored("simhash", n)] = Entry(algorithm, n)
      <4>1. /\ "ctph" \in Range(Section[algorithm]) <=> algorithm # "SIMHASH"
            /\ "simhash" \in Range(Section[algorithm]) <=> algorithm # "CTPH"
        BY SectionHas
      <4> QED  BY <2>1, <4>1 DEF Entry
    <3>4. {[name |-> n, ctph |-> stored("ctph", n),
            simhash |-> stored("simhash", n)] : n \in written}
            = {Entry(algorithm, n) : n \in written}
      BY <3>3
    <3>5. {t.content[k] : k \in 1 .. m} = {Entry(algorithm, n) : n \in written}
      <4>1. /\ \A k \in 1 .. m : names[k] \in written
            /\ \A n \in written : \E k \in 1 .. m : names[k] = n
        BY <2>1, <2>5 DEF Range
      <4>2. PICK content, executables : content = t.content /\ executables = written
        OBVIOUS
      <4> HIDE DEF t, written
      <4>3. \A k \in 1 .. m : content[k] = Entry(algorithm, names[k])
        BY <3>1, <4>2
      <4>4. ASSUME NEW e \in {content[k] : k \in 1 .. m}
            PROVE  e \in {Entry(algorithm, n) : n \in executables}
        BY <4>1, <4>2, <4>3
      <4>5. ASSUME NEW e \in {Entry(algorithm, n) : n \in executables}
            PROVE  e \in {content[k] : k \in 1 .. m}
        <5>1. PICK n \in executables : e = Entry(algorithm, n)
          OBVIOUS
        <5>2. PICK k \in 1 .. m : names[k] = n
          BY <4>1, <4>2, <5>1
        <5> QED  BY <4>3, <5>1, <5>2
      <4>6. {content[k] : k \in 1 .. m} = {Entry(algorithm, n) : n \in executables}
        BY <4>4, <4>5
      <4> QED  BY <4>2, <4>6
    <3> QED  BY <3>1, <3>2, <3>4, <3>5
  <2> QED  BY <2>6, <2>7
<1> QED  BY <1>1, BackInvInit, BackInvNext, PTL DEF Spec

-----------------------------------------------------------------------------
(***************************************************************************)
(* Every pair is listed.                                                   *)
(***************************************************************************)

Bare(entry) == entry.ctph = Unset /\ entry.simhash = Unset

(* The first n entries have different names.                               *)
Distinct(content, n) ==
  /\ \A x \in 1 .. n : content[x].name \in Names
  /\ \A x, y \in 1 .. n : content[x].name = content[y].name => x = y

(* The entries begun so far were begun by different lines of f before the  *)
(* one in line_buf.                                                        *)
FromLines(t, f) ==
  /\ \A x \in 1 .. t.file_count : \E k \in 1 .. t.at - 1 :
       f[k].kind = "name" /\ t.content[x].name = f[k].text
  /\ Distinct(t.content, t.file_count)

(* No hash but scraps.                                                     *)
Hashless(entry) == \A kind \in HashKinds : entry[kind] \in {Unset, Scrap}

(* The line left over from the counting began an entry: it is left without *)
(* a hash, as none comes before a name, and the name begins another.       *)
FromLeftOver(t, f) ==
  /\ t.at > 0 /\ t.file_count >= 1 /\ Hashless(t.content[1])
  /\ \A k \in 1 .. t.at - 1 : f[k].kind = "name" => t.file_count >= 2

(* No entry counted has a scrap.                                           *)
Clean(t) ==
  \A x \in 1 .. t.nb_files, kind \in HashKinds : t.content[x][kind] # Scrap

(* The entries counted differ, or one of them is without a hash.           *)
Apart(t) ==
  /\ Clean(t)
  /\ \/ \E x \in 1 .. t.nb_files : Bare(t.content[x])
     \/ Distinct(t.content, t.nb_files)

(* No hash that the comparison asks for is missing.                        *)
Full(t) ==
  \A x \in 1 .. t.nb_files : \A section \in Range(Section[t.algorithm]) :
    t.content[x][section] \notin {Unset, NullText}

(* How alike two texts of a section are.                                   *)
Worth(section, text_1, text_2) ==
  IF section = "simhash" THEN compare_hash(Bytes[text_1], Bytes[text_2])
  ELSE Percent * CtphScore[<<text_1, text_2>>]

(* The score of entry j in the list of entry i.                            *)
Rated(t, section, i, j) ==
  [section |-> section, of |-> t.content[i].name, name |-> t.content[j].name,
   percentage |-> Worth(section, t.content[i][section], t.content[j][section])]

Shown(r) == r.of # r.name /\ r.percentage # 0

(* The scores of the list of entry i, of which there is none for i = 0.    *)
Rates(t, section, i) ==
  IF i = 0 THEN {}
  ELSE {r \in {Rated(t, section, i, j) : j \in 1 .. t.nb_files} : Shown(r)}

Jobs(t) == Range(Section[t.algorithm]) \X (0 .. t.nb_files)

Wanted(t, jobs) == UNION {Rates(t, job[1], job[2]) : job \in jobs}

(* The scores among lines are texts, each once.                            *)
Scored(lines, texts) ==
  /\ \A k \in 1 .. Len(lines) : lines[k].kind = "score" => lines[k].text \in texts
  /\ \A r \in texts : \E k \in 1 .. Len(lines) :
       lines[k].kind = "score" /\ lines[k].text = r
  /\ \A k, l \in 1 .. Len(lines) :
       /\ lines[k].kind = "score" /\ lines[l].kind = "score"
       /\ lines[k].text = lines[l].text
       => k = l

(* What has been listed is what is not left to do.                         *)
Lists(t) ==
  /\ Len(t.content) = t.nb_files + 1
  /\ IsInjective(t.work) /\ Range(t.work) \subseteq Jobs(t)
  /\ t.pc = "close" => t.work = <<>>
  /\ Full(t) => Scored(t.out, Wanted(t, Jobs(t) \ Range(t.work)))

Tells(t, f) ==
  /\ t.pc = "parse" => FromLines(t, f) \/ FromLeftOver(t, f)
  /\ t.pc \in {"choose", "compare", "close"} => Apart(t)
  /\ t.pc \in {"compare", "close"} => Lists(t)

(* A comparison prints no names and no hashes, and nothing before it has   *)
(* read its file.                                                          *)
Nameless(t) ==
  t.command.mode = "compare" =>
    /\ NoEntries(t.out)
    /\ t.pc \in {"access", "create", "fopen", "count", "parse", "choose"} =>
         t.out = <<>>

PairInv ==
  /\ BackInv
  /\ \A p \in Process : LET t == tbt[p] IN
       /\ Nameless(t)
       /\ t.settled /\ Alone(tbt, t.command.argument) => Tells(t, In(p))

(* Lines without a score.                                                  *)
LEMMA NoneScored ==
  ASSUME NEW lines, \A k \in 1 .. Len(lines) : lines[k].kind # "score"
  PROVE  Scored(lines, {})
BY DEF Scored

LEMMA OneScored ==
  ASSUME NEW line, line.kind = "score"
  PROVE  Scored(<<line>>, {line.text})
<1>1. Len(<<line>>) = 1 /\ <<line>>[1] = line
  OBVIOUS
<1>2. \A k \in 1 .. Len(<<line>>) : k = 1
  BY <1>1
<1> QED  BY <1>1, <1>2 DEF Scored

(* Other scores behind those there are.                                    *)
LEMMA ScoredJoined ==
  ASSUME NEW a \in Seq(Printable), NEW b \in Seq(Printable), NEW V, NEW W,
         Scored(a, V), Scored(b, W), \A r \in V : r \notin W
  PROVE  Scored(a \o b, V \cup W)
<1>1. PICK m \in Nat, n \in Nat : m = Len(a) /\ n = Len(b)
  OBVIOUS
<1> DEFINE c == a \o b
<1>2. /\ Len(c) = m + n
      /\ \A k \in 1 .. m + n : c[k] = IF k <= m THEN a[k] ELSE b[k - m]
  BY <1>1, ConcatProperties
<1> HIDE DEF c
<1>3. \A k \in 1 .. m : k \in 1 .. m + n /\ c[k] = a[k]
  <2>1. \A k \in 1 .. m : k \in 1 .. m + n /\ k <= m
    BY <1>1
  <2> QED  BY <1>2, <2>1
<1>4. \A k \in 1 .. n : m + k \in 1 .. m + n /\ c[m + k] = b[k]
  <2>1. \A k \in 1 .. n : m + k \in 1 .. m + n /\ ~(m + k <= m) /\ m + k - m = k
    BY <1>1
  <2> QED  BY <1>2, <2>1
<1>5. \A k \in 1 .. m + n : k \in 1 .. m \/ \E l \in 1 .. n : k = m + l
  <2>1. ASSUME NEW k \in 1 .. m + n, k \notin 1 .. m
        PROVE  \E l \in 1 .. n : k = m + l
    <3>1. k - m \in 1 .. n /\ k = m + (k - m)
      BY <1>1, <2>1
    <3> QED  BY <3>1
  <2> QED  BY <2>1
<1>6. /\ \A k \in 1 .. m : a[k].kind = "score" => a[k].text \in V
      /\ \A r \in V : \E k \in 1 .. m : a[k].kind = "score" /\ a[k].text = r
      /\ \A k, l \in 1 .. m : a[k].kind = "score" /\ a[l].kind = "score"
                                /\ a[k].text = a[l].text => k = l
  BY <1>1 DEF Scored
<1>7. /\ \A k \in 1 .. n : b[k].kind = "score" => b[k].text \in W
      /\ \A r \in W : \E k \in 1 .. n : b[k].kind = "score" /\ b[k].text = r
      /\ \A k, l \in 1 .. n : b[k].kind = "score" /\ b[l].kind = "score"
                                /\ b[k].text = b[l].text => k = l
  BY <1>1 DEF Scored
<1>8. ASSUME NEW k \in 1 .. m + n, c[k].kind = "score"
      PROVE  c[k].text \in V \cup W
  <2>1. CASE k \in 1 .. m
    <3>1. c[k] = a[k]
      BY <1>3, <2>1
    <3> QED  BY <1>6, <1>8, <2>1, <3>1
  <2>2. CASE k \notin 1 .. m
    <3>1. PICK y \in 1 .. n : k = m + y
      BY <1>5, <2>2
    <3>2. c[k] = b[y]
      BY <1>4, <3>1
    <3> QED  BY <1>7, <1>8, <3>2
  <2> QED  BY <2>1, <2>2
<1>9. ASSUME NEW r \in V \cup W
      PROVE  \E k \in 1 .. m + n : c[k].kind = "score" /\ c[k].text = r
  <2>1. CASE r \in V
    <3>1. PICK k \in 1 .. m : a[k].kind = "score" /\ a[k].text = r
      BY <1>6, <2>1
    <3> QED  BY <1>3, <3>1
  <2>2. CASE r \in W
    <3>1. PICK k \in 1 .. n : b[k].kind = "score" /\ b[k].text = r
      BY <1>7, <2>2
    <3> QED  BY <1>4, <3>1
  <2> QED  BY <2>1, <2>2
<1>10. ASSUME NEW k \in 1 .. m + n, NEW l \in 1 .. m + n,
              c[k].kind = "score", c[l].kind = "score", c[k].text = c[l].text
       PROVE  k = l
  <2>1. CASE k \in 1 .. m /\ l \in 1 .. m
    BY <1>3, <1>6, <1>10, <2>1
  <2>2. CASE k \notin 1 .. m /\ l \notin 1 .. m
    <3>1. PICK x \in 1 .. n : k = m + x
      BY <1>5, <2>2
    <3>2. PICK y \in 1 .. n : l = m + y
      BY <1>5, <2>2
    <3>3. c[k] = b[x] /\ c[l] = b[y]
      BY <1>4, <3>1, <3>2
    <3>4. x = y
      BY <1>7, <1>10, <3>3
    <3> QED  BY <3>1, <3>2, <3>4
  <2>3. CASE k \in 1 .. m /\ l \notin 1 .. m
    <3>1. PICK y \in 1 .. n : l = m + y
      BY <1>5, <2>3
    <3>2. c[k] = a[k] /\ c[l] = b[y]
      BY <1>3, <1>4, <2>3, <3>1
    <3>3. c[k].text \in V /\ c[l].text \in W
      BY <1>6, <1>7, <1>10, <2>3, <3>2
    <3> QED  BY <1>10, <3>3
  <2>4. CASE k \notin 1 .. m /\ l \in 1 .. m
    <3>1. PICK y \in 1 .. n : k = m + y
      BY <1>5, <2>4
    <3>2. c[l] = a[l] /\ c[k] = b[y]
      BY <1>3, <1>4, <2>4, <3>1
    <3>3. c[l].text \in V /\ c[k].text \in W
      BY <1>6, <1>7, <1>10, <2>4, <3>2
    <3> QED  BY <1>10, <3>3
  <2> QED  BY <2>1, <2>2, <2>3, <2>4
<1>11. Scored(c, V \cup W)
  BY <1>2, <1>8, <1>9, <1>10 DEF Scored
<1> QED  BY <1>11 DEF c

(* An order of the first n numbers has them all.                           *)
LEMMA OrderHasAll ==
  ASSUME NEW n \in Nat, NEW order, \A k \in 1 .. n : order[k] \in 1 .. n,
         \A k, l \in 1 .. n : order[k] = order[l] => k = l
  PROVE  \A j \in 1 .. n : \E k \in 1 .. n : order[k] = j
<1> DEFINE f == [k \in 1 .. n |-> order[k]]
<1>1. f \in [1 .. n -> 1 .. n] /\ \A k, l \in 1 .. n : f[k] = f[l] => k = l
  OBVIOUS
<1>2. IsFiniteSet(1 .. n)
  BY FS_Interval
<1>3. f \in Injection(1 .. n, 1 .. n)
  BY <1>1 DEF Injection, IsInjective
<1> HIDE DEF f
<1>4. f \in Surjection(1 .. n, 1 .. n)
  BY <1>2, <1>3, FS_Injection
<1> QED  BY <1>4 DEF Surjection, f

(* Different entries have different scores in a list.                      *)
LEMMA RatedApart ==
  ASSUME NEW t, NEW n, Distinct(t.content, n), NEW section, NEW section_2,
         NEW i \in 1 .. n, NEW i_2 \in 1 .. n,
         NEW j \in 1 .. n, NEW j_2 \in 1 .. n,
         Rated(t, section, i, j) = Rated(t, section_2, i_2, j_2)
  PROVE  section = section_2 /\ i = i_2 /\ j = j_2
<1>1. /\ section = section_2
      /\ t.content[i].name = t.content[i_2].name
      /\ t.content[j].name = t.content[j_2].name
  BY DEF Rated
<1> QED  BY <1>1 DEF Distinct

(* The list of an entry has the scores of all that are shown.              *)
LEMMA ListScored ==
  ASSUME NEW t, NEW section, NEW i, NEW percentage, NEW order,
         Comparison(t, section, i, percentage, order),
         \A k, l \in 1 .. t.nb_files : order[k] = order[l] => k = l,
         Distinct(t.content, t.nb_files),
         \A j \in 1 .. t.nb_files :
           percentage[j] = Worth(section, t.content[i][section],
                                          t.content[j][section])
  PROVE  LET list == List(t, section, i, percentage, order)
         IN list \in Seq(Printable) /\ Scored(list, Rates(t, section, i))
<1>1. PICK nb \in Nat : nb = t.nb_files
  BY DEF Comparison
<1>2. PICK lines :
        /\ Listing(t, section, i, percentage, order, nb, lines)
        /\ List(t, section, i, percentage, order) = lines[nb]
  BY <1>1, ListIsLast
<1>3. /\ \A k \in 1 .. nb : order[k] \in 1 .. nb
      /\ i \in 1 .. nb /\ i # 0
  BY <1>1 DEF Comparison
<1> DEFINE rated(j) == Rated(t, section, i, j)
           upto(k) == {r \in {rated(order[l]) : l \in 1 .. k} : Shown(r)}
           S == {k \in Nat : k <= nb => Scored(lines[k], upto(k))}
<1>4. \A k \in 0 .. nb : lines[k] \in Seq(Printable)
  BY <1>2 DEF Listing
<1>5. 0 \in S
  <2>1. lines[0] = <<Line("of", t.content[i].name)>>
    BY <1>2 DEF Listing
  <2>2. Len(lines[0]) = 1 /\ lines[0][1].kind = "of"
    BY <2>1 DEF Line
  <2>3. Scored(lines[0], {})
    BY <2>2, NoneScored
  <2>4. upto(0) = {}
    OBVIOUS
  <2> HIDE DEF upto
  <2> QED  BY <2>3, <2>4
<1>6. ASSUME NEW k \in Nat, k \in S  PROVE k + 1 \in S
  <2>1. SUFFICES ASSUME k + 1 <= nb  PROVE Scored(lines[k + 1], upto(k + 1))
    <3> HIDE DEF upto
    <3> QED  OBVIOUS
  <2>2. /\ k + 1 \in 1 .. nb /\ (k + 1) - 1 = k /\ k \in 0 .. nb
        /\ \A l \in 1 .. k : l \in 1 .. nb /\ l # k + 1
        /\ \A l \in 1 .. k + 1 : l \in 1 .. k \/ l = k + 1
        /\ \A l \in 1 .. k : l \in 1 .. k + 1
        /\ k + 1 \in 1 .. k + 1
    BY <1>1, <2>1
  <2> DEFINE list == lines[k]
             j == order[k + 1]
             score == Score(t, section, i, j, percentage[j])
  <2>3. Scored(list, upto(k)) /\ list \in Seq(Printable)
    <3> HIDE DEF upto
    <3> QED  BY <1>4, <1>6, <2>2
  <2>4. lines[k + 1] = Extended(t, section, i, percentage, j, list)
    BY <1>2, <2>2 DEF Listing
  <2>5. j \in 1 .. nb /\ percentage[j] = Worth(section, t.content[i][section],
                                                t.content[j][section])
    BY <1>1, <1>3, <2>2
  <2>6. score = Line("score", rated(j))
    BY <2>5 DEF Score, Rated
  <2>7. Shown(rated(j)) <=> t.content[j].name # t.content[i].name /\ percentage[j] # 0
    BY <2>5 DEF Shown, Rated
  <2>8. CASE ~Shown(rated(j))
    <3>1. lines[k + 1] = list
      BY <2>4, <2>7, <2>8 DEF Extended
    <3>2. upto(k + 1) = upto(k)
      <4> HIDE DEF rated
      <4>1. ASSUME NEW r  PROVE r \in upto(k + 1) <=> r \in upto(k)
        BY <2>2, <2>8
      <4> QED  BY <4>1
    <3> HIDE DEF upto
    <3> QED  BY <2>3, <3>1, <3>2
  <2>9. CASE Shown(rated(j))
    <3>1. lines[k + 1] = Append(list, score)
      BY <2>4, <2>7, <2>9 DEF Extended
    <3>2. score \in Printable /\ score.kind = "score" /\ score.text = rated(j)
      <4>1. score \in Printable
        BY <1>1, <2>5, ScoreType
      <4> QED  BY <2>6, <4>1 DEF Line
    <3>3. upto(k + 1) = upto(k) \cup {rated(j)}
      <4> HIDE DEF rated
      <4>1. ASSUME NEW r  PROVE r \in upto(k + 1) <=> r \in upto(k) \/ r = rated(j)
        BY <2>2, <2>9
      <4> QED  BY <4>1
    <3>4. \A r \in upto(k) : r \notin {rated(j)}
      <4>1. SUFFICES ASSUME NEW l \in 1 .. k, rated(order[l]) = rated(j)
                     PROVE  FALSE
        OBVIOUS
      <4>2. l \in 1 .. nb /\ l # k + 1 /\ order[l] \in 1 .. nb
        BY <1>3, <2>2
      <4>3. order[l] = j
        BY <1>1, <1>3, <2>5, <4>1, <4>2, RatedApart
      <4> QED  BY <1>1, <2>2, <4>2, <4>3
    <3> HIDE DEF upto, score, list, rated
    <3>5. Append(list, score) = list \o <<score>> /\ <<score>> \in Seq(Printable)
      BY <2>3, <3>2
    <3>6. Scored(<<score>>, {rated(j)})
      BY <3>2, OneScored
    <3>7. Scored(list \o <<score>>, upto(k) \cup {rated(j)})
      BY <2>3, <3>4, <3>5, <3>6, ScoredJoined
    <3> QED  BY <3>1, <3>3, <3>5, <3>7
  <2> QED  BY <2>8, <2>9
<1>7. nb \in S
  <2>1. \A m \in Nat : m \in S
    <3> HIDE DEF S
    <3> QED  BY <1>5, <1>6, SetInduction
  <2> QED  BY <1>1, <2>1
<1>8. upto(nb) = Rates(t, section, i)
  <2>1. \A j \in 1 .. nb : \E k \in 1 .. nb : order[k] = j
    <3>1. \A k, l \in 1 .. nb : order[k] = order[l] => k = l
      BY <1>1
    <3>2. \A k \in 1 .. nb : order[k] \in 1 .. nb
      BY <1>3
    <3>3. \A n \in Nat :
            /\ \A k \in 1 .. n : order[k] \in 1 .. n
            /\ \A k, l \in 1 .. n : order[k] = order[l] => k = l
            => \A j \in 1 .. n : \E k \in 1 .. n : order[k] = j
      BY OrderHasAll
    <3> QED  BY <3>1, <3>2, <3>3, Zenon
  <2>2. Rates(t, section, i) = {r \in {rated(j) : j \in 1 .. nb} : Shown(r)}
    BY <1>1, <1>3 DEF Rates
  <2> HIDE DEF rated
  <2>3. ASSUME NEW r
        PROVE  r \in {rated(order[l]) : l \in 1 .. nb} <=> r \in {rated(j) : j \in 1 .. nb}
    BY <1>3, <2>1
  <2> QED  BY <2>2, <2>3
<1>9. Scored(lines[nb], upto(nb))
  <2> HIDE DEF upto
  <2> QED  BY <1>7
<1> HIDE DEF upto
<1> QED  BY <1>2, <1>4, <1>8, <1>9

(* Two texts that were stored are as alike as the comparison says.         *)
LEMMA LikenessIs ==
  ASSUME NEW section \in HashKinds,
         NEW text_1 \in Texts(section) \ {Unset, NullText},
         NEW text_2 \in Texts(section) \ {Unset, NullText}
  PROVE  Likeness(section, text_1, text_2) = {Worth(section, text_1, text_2)}
<1>0. {Unset, Scrap} \cap {text_1, text_2} = {}
  BY NoTextIsScrap
<1>1. CASE section = "ctph"
  BY <1>0, <1>1 DEF Likeness, Worth
<1>2. CASE section = "simhash"
  <2>1. Likeness(section, text_1, text_2) =
          {r[3] : r \in {s \in SimHashScores : s[1] = text_1 /\ s[2] = text_2}}
    BY <1>0, <1>2 DEF Likeness
  <2>2. text_1 \in DOMAIN Bytes \ {NullText} /\ text_2 \in DOMAIN Bytes \ {NullText}
    BY <1>2, TextsOfKinds
  <2>3. ASSUME NEW text \in DOMAIN Bytes \ {NullText}
        PROVE  simhash_string_to_uint(Bytes[text]) = {Bytes[text]}
    <3> DEFINE bytes == Bytes[text]
    <3>1. bytes \in [1 .. SIM_HASH_SIZE -> Byte] /\ SIM_HASH_SIZE \in Nat
      BY TbtAssumption, SimHashCompareAssumption DEF SimHashArray
    <3>2. Len(bytes) = SIM_HASH_SIZE
      BY <3>1
    <3> HIDE DEF bytes
    <3>3. ASSUME NEW junk
          PROVE  [k \in 1 .. SIM_HASH_SIZE |-> IF k <= Len(bytes) THEN bytes[k] ELSE junk[k]]
                   = bytes
      BY <3>1, <3>2
    <3>4. Junk # {}
      BY SimHashCompareAssumption
    <3>5. simhash_string_to_uint(bytes) = {bytes}
      BY <3>3, <3>4 DEF simhash_string_to_uint
    <3> QED  BY <3>5 DEF bytes
  <2>4. ASSUME NEW t_1 \in DOMAIN Bytes \ {NullText}, NEW t_2 \in DOMAIN Bytes \ {NullText}
        PROVE  simhash_compare(Bytes[t_1], Bytes[t_2]) = {compare_hash(Bytes[t_1], Bytes[t_2])}
    BY <2>3 DEF simhash_compare
  <2> DEFINE worth == Worth(section, text_1, text_2)
             those == {s \in SimHashScores : s[1] = text_1 /\ s[2] = text_2}
  <2>5. worth = compare_hash(Bytes[text_1], Bytes[text_2])
    BY <1>2 DEF Worth
  <2>6. <<text_1, text_2, worth>> \in SimHashScores
    <3> HIDE DEF worth
    <3>1. worth \in simhash_compare(Bytes[text_1], Bytes[text_2])
      BY <2>2, <2>4, <2>5
    <3> DEFINE scores(a, b) ==
                 {<<a, b, score>> : score \in simhash_compare(Bytes[a], Bytes[b])}
    <3>2. SimHashScores =
            UNION {scores(a, b) : a \in DOMAIN Bytes, b \in DOMAIN Bytes}
      BY DEF SimHashScores
    <3>3. <<text_1, text_2, worth>> \in scores(text_1, text_2)
      BY <3>1
    <3> HIDE DEF scores
    <3> QED  BY <2>2, <3>2, <3>3
  <2>7. ASSUME NEW r \in those  PROVE r[3] = worth
    <3>1. PICK t_1 \in DOMAIN Bytes, t_2 \in DOMAIN Bytes :
            \E score \in simhash_compare(Bytes[t_1], Bytes[t_2]) :
              r = <<t_1, t_2, score>>
      BY DEF SimHashScores
    <3>2. PICK score \in simhash_compare(Bytes[t_1], Bytes[t_2]) : r = <<t_1, t_2, score>>
      BY <3>1
    <3>3. t_1 = text_1 /\ t_2 = text_2 /\ r[3] = score
      BY <3>2
    <3> QED  BY <2>2, <2>4, <2>5, <3>2, <3>3
  <2>8. <<text_1, text_2, worth>> \in those
    BY <2>6
  <2>9. <<text_1, text_2, worth>>[3] = worth
    OBVIOUS
  <2> HIDE DEF those, worth
  <2>10. {r[3] : r \in those} = {worth}
    BY <2>7, <2>8, <2>9
  <2> QED  BY <2>1, <2>10 DEF those, worth
<1> QED  BY <1>1, <1>2 DEF HashKinds

(* The distance is the number of bits that differ.                         *)
LEMMA DifferIsHamming ==
  ASSUME NEW hash_1 \in SimHashArray, NEW hash_2 \in SimHashArray
  PROVE  Differ(hash_1, hash_2) = Hamming(hash_1, hash_2)
<1> DEFINE all == (1 .. SIM_HASH_SIZE) \X (0 .. 7)
           bit_1(p) == BitOf(hash_1[p[1]], p[2])
           bit_2(p) == BitOf(hash_2[p[1]], p[2])
<1>1. ASSUME NEW byte \in Byte, NEW n \in 0 .. 7  PROVE BitOf(byte, n) \in {0, 1}
  BY DEF BitOf, Byte
<1>2. \A p \in all : bit_1(p) \in {0, 1} /\ bit_2(p) \in {0, 1}
  <2>1. ASSUME NEW p \in all
        PROVE  hash_1[p[1]] \in Byte /\ hash_2[p[1]] \in Byte /\ p[2] \in 0 .. 7
    BY DEF SimHashArray
  <2> QED  BY <1>1, <2>1
<1>3. Bits(hash_1) = {p \in all : bit_1(p) = 1} /\ Bits(hash_2) = {p \in all : bit_2(p) = 1}
  BY DEF Bits
<1>4. (Bits(hash_1) \cup Bits(hash_2)) \ (Bits(hash_1) \cap Bits(hash_2))
        = {p \in all : bit_1(p) # bit_2(p)}
  <2> HIDE DEF all, bit_1, bit_2
  <2> QED  BY <1>2, <1>3
<1> QED  BY <1>4 DEF Differ, Hamming

(* What is left of a percentage above the half of it.                      *)
LEMMA RescaledIs ==
  ASSUME NEW distance \in 0 .. 8 * SIM_HASH_SIZE
  PROVE  Rescaled(distance) =
           IF 2 * distance >= 8 * SIM_HASH_SIZE THEN 0
           ELSE (100 * Percent * (8 * SIM_HASH_SIZE - 2 * distance)) \div (8 * SIM_HASH_SIZE)
<1>1. PICK n \in 1 .. 25 : n = SIM_HASH_SIZE
  BY SimHashCompareAssumption, InputAssumption
<1>2. 3200 % (8 * n) = 0
  BY <1>1, InputAssumption DEF Percent
<1>3. PICK equal \in Nat, res \in Nat :
        /\ equal = 8 * n - distance
        /\ res = (3200 * equal) \div (8 * n)
        /\ Rescaled(distance) = IF res >= 1600 THEN 2 * (res - 1600) ELSE 0
  BY <1>1, RescaledValue
<1> DEFINE Goal(m) ==
      3200 % (8 * m) = 0 /\ distance \in 0 .. 8 * m
        => LET r == (3200 * (8 * m - distance)) \div (8 * m)
           IN (IF r >= 1600 THEN 2 * (r - 1600) ELSE 0) =
              IF 2 * distance >= 8 * m THEN 0
              ELSE (3200 * (8 * m - 2 * distance)) \div (8 * m)
<1>4. n \in {1, 2, 4, 5, 8, 10, 16, 20, 25}
  BY <1>2
<1>5. Goal(1) /\ Goal(2) /\ Goal(4) /\ Goal(5) /\ Goal(8)
  <2>1. Goal(1)  OBVIOUS
  <2>2. Goal(2)  OBVIOUS
  <2>3. Goal(4)  OBVIOUS
  <2>4. Goal(5)  OBVIOUS
  <2>5. Goal(8)  OBVIOUS
  <2> HIDE DEF Goal
  <2> QED  BY <2>1, <2>2, <2>3, <2>4, <2>5
<1>6. Goal(10) /\ Goal(16) /\ Goal(20) /\ Goal(25)
  <2>1. Goal(10)  OBVIOUS
  <2>2. Goal(16)  OBVIOUS
  <2>3. Goal(20)  OBVIOUS
  <2>4. Goal(25)  OBVIOUS
  <2> HIDE DEF Goal
  <2> QED  BY <2>1, <2>2, <2>3, <2>4
<1>7. Goal(n)
  <2> HIDE DEF Goal
  <2> QED  BY <1>4, <1>5, <1>6
<1> QED  BY <1>1, <1>2, <1>3, <1>7 DEF Percent

-----------------------------------------------------------------------------
(***************************************************************************)
(* A settled file with one writer names each executable once.              *)
(***************************************************************************)

LEMMA BlocksDiffer ==
  ASSUME NEW f, NEW algorithm \in DOMAIN Section, NEW names \in Seq(Names),
         IsInjective(names), Blocks(f, algorithm, names)
  PROVE  NamesDiffer(f)
<1>1. ASSUME NEW k \in 1 .. Len(f), f[k].kind = "name"
      PROVE  \E j \in 1 .. Len(names) :
               f[k].text = names[j] /\ k = Size(algorithm) * (j - 1) + 1
  <2>1. PICK j \in 1 .. Len(names), i \in 1 .. Size(algorithm) :
          /\ k = Size(algorithm) * (j - 1) + i
          /\ LineOf(f[k], algorithm, names[j], i)
    BY BlockLine
  <2>2. i = 1
    BY <1>1, <2>1 DEF LineOf, IsHash
  <2> QED  BY <2>1, <2>2 DEF LineOf
<1>2. \A j \in 1 .. Len(names) : names[j] \in Names
  OBVIOUS
<1>3. \A j, k \in 1 .. Len(names) : names[j] = names[k] => j = k
  BY DEF IsInjective
<1>4. ASSUME NEW j \in 1 .. Len(f), NEW k \in 1 .. Len(f),
             f[j].kind = "name", f[k].kind = "name"
      PROVE  f[j].text \in Names /\ (f[j].text = f[k].text => j = k)
  <2>1. PICK x \in 1 .. Len(names) :
          f[j].text = names[x] /\ j = Size(algorithm) * (x - 1) + 1
    BY <1>1, <1>4
  <2>2. PICK y \in 1 .. Len(names) :
          f[k].text = names[y] /\ k = Size(algorithm) * (y - 1) + 1
    BY <1>1, <1>4
  <2> QED  BY <1>2, <1>3, <2>1, <2>2, Zenon
<1> QED  BY <1>4 DEF NamesDiffer

LEMMA WrittenDiffers ==
  ASSUME NEW t, t.out \in Seq(Printable), t.flushed \in 0 .. Len(t.out),
         NEW f \in Seq(Lines), Written(t, f), NamesDiffer(t.out)
  PROVE  NamesDiffer(f)
<1>1. PICK m \in Nat, o \in Nat, a \in Nat :
        m = t.flushed /\ o = Len(t.out) /\ a = Len(f) /\ m <= o
  OBVIOUS
<1>2. a \in {m, m + 1} /\ \A k \in 1 .. m : f[k] = t.out[k]
  BY <1>1 DEF Written
<1>3. a = m + 1 => m < o /\ f[m + 1] = Cut(t.out[m + 1])
  BY <1>1 DEF Written
<1>4. ASSUME NEW k \in 1 .. a
      PROVE  k \in 1 .. o /\ f[k].kind = t.out[k].kind /\ f[k].text = t.out[k].text
  <2>1. k \in 1 .. o
    BY <1>1, <1>2, <1>3
  <2>2. t.out[k] \in Lines
    BY <1>1, <2>1 DEF Printable
  <2>3. CASE k \in 1 .. m
    BY <1>2, <2>1, <2>3
  <2>4. CASE k = m + 1
    <3>1. a = m + 1
      BY <1>1, <1>2, <2>4
    <3> QED  BY <1>3, <2>1, <2>2, <2>4, <3>1, CutIsLine
  <2>5. k \in 1 .. m \/ k = m + 1
    BY <1>1, <1>2
  <2> QED  BY <2>3, <2>4, <2>5
<1>5. \A j, k \in 1 .. o : t.out[j].kind = "name" /\ t.out[k].kind = "name" =>
        t.out[j].text \in Names /\ (t.out[j].text = t.out[k].text => j = k)
  BY <1>1 DEF NamesDiffer
<1>6. ASSUME NEW j \in 1 .. a, NEW k \in 1 .. a,
             f[j].kind = "name", f[k].kind = "name"
      PROVE  f[j].text \in Names /\ (f[j].text = f[k].text => j = k)
  BY <1>4, <1>5, <1>6
<1> QED  BY <1>1, <1>6 DEF NamesDiffer

(* What the reader of a settled file with one writer knows of it.          *)
LEMMA AloneIsTidy ==
  ASSUME PairInv, NEW p \in Process, tbt[p].settled,
         Alone(tbt, tbt[p].command.argument)
  PROVE  /\ tbt[p].command.argument \in Path
         /\ In(p) \in Seq(Lines) /\ IsHashFile(In(p)) /\ NamesDiffer(In(p))
         /\ Reader(tbt[p], In(p))
<1> DEFINE path == tbt[p].command.argument
<1>1. /\ path \in Path /\ fs[path] # Null /\ ReadsWell(tbt[p], tbt, fs)
      /\ In(p) = fs[path]
  BY DEF PairInv, BackInv, ReadsBack, ReadInv, In
<1>2. Reader(tbt[p], In(p))
  BY <1>1 DEF ReadsWell
<1>3. Known(tbt, path) /\ Sole(tbt, path)
  BY <1>1 DEF PairInv, BackInv, ReadInv, Alone
<1>4. In(p) \in Seq(Lines) /\ IsHashFile(In(p))
  BY <1>1, <1>3, KnownIsFile DEF PairInv, BackInv
<1>5. NamesDiffer(In(p))
  <2>1. CASE Disk[path] # Null
    <3>1. fs[path] = Disk[path]
      BY <1>1, <2>1 DEF PairInv, BackInv, ReadInv, TypeInv, TbtInv, Disks, ExistingFilesStay
    <3> QED  BY <1>1, <2>1, <3>1, InputAssumption
  <2>2. CASE \E q \in Process : tbt[q].OUTPUT = path
    <3>1. PICK q \in Process : tbt[q].OUTPUT = path
      BY <2>2
    <3>2. path # Null
      BY <1>1, TbtAssumption DEF Path
    <3> DEFINE t == tbt[q]
               f == fs[path]
    <3>3. /\ t.out \in Seq(Printable) /\ t.flushed \in 0 .. Len(t.out)
          /\ f \in Seq(Lines) /\ IsCommand(t.command)
      BY <1>1, <1>4 DEF PairInv, BackInv, ReadInv, TypeInv, Typed
    <3>4. Written(t, f)
      BY <1>3, <3>1, <3>2 DEF PairInv, BackInv, ReadInv, WritesWell
    <3>5. NamesDiffer(t.out)
      <4>1. WritesWhole(t) /\ Nameless(t)
        BY DEF PairInv, BackInv
      <4>2. CASE t.command.mode = "hash"
        <5>1. PICK names \in Seq(Names) : Treats(t, names)
          BY <4>1, <4>2 DEF WritesWhole
        <5>2. t.command.algorithm \in DOMAIN Section
          BY <3>3 DEF IsCommand
        <5> HIDE DEF t
        <5> QED  BY <5>1, <5>2, BlocksDiffer DEF Treats
      <4>3. CASE t.command.mode = "compare"
        BY <4>1, <4>3 DEF Nameless, NoEntries, NamesDiffer
      <4> QED  BY <3>3, <4>2, <4>3 DEF IsCommand
    <3> HIDE DEF t, f
    <3>6. NamesDiffer(f)
      BY <3>3, <3>4, <3>5, WrittenDiffers
    <3> QED  BY <1>1, <3>6 DEF f
  <2> QED  BY <1>3, <2>1, <2>2 DEF Known
<1> QED  BY <1>1, <1>2, <1>4, <1>5

-----------------------------------------------------------------------------
(***************************************************************************)
(* The entries taken from a file that names each executable once.          *)
(***************************************************************************)

(* The line in line_buf has been parsed.                                   *)
TookLines(t, f) ==
  /\ \A x \in 1 .. t.file_count : \E k \in 1 .. t.at :
       f[k].kind = "name" /\ t.content[x].name = f[k].text
  /\ Distinct(t.content, t.file_count)

TookLeftOver(t, f) ==
  /\ t.file_count >= 1 /\ Hashless(t.content[1])
  /\ \A k \in 1 .. t.at : f[k].kind = "name" => t.file_count >= 2

Took(t, f) == TookLines(t, f) \/ TookLeftOver(t, f)

(* A name is another than those before.                                    *)
LEMMA NameTaken ==
  ASSUME NEW f \in Seq(Lines), IsHashFile(f), NamesDiffer(f), NEW t, NEW v,
         t.at \in Nat, t.file_count \in Nat, Len(t.content) \in Nat,
         Parses(t, f), FromLines(t, f) \/ FromLeftOver(t, f),
         t.line.kind = "name",
         NEW k, k = t.file_count + 1, k \in 1 .. Len(t.content),
         v.at = t.at, v.file_count = k,
         ~Beyond(t) => v.content[k].name = t.line.text,
         \A kind \in HashKinds :
           v.content[k][kind] \in {t.content[k][kind], Scrap},
         \A x \in 1 .. Len(t.content) : x # k => v.content[x] = t.content[x]
  PROVE  Took(v, f)
<1>1. PICK at \in Nat, n \in Nat, m \in Nat, l \in Nat :
        at = t.at /\ n = t.file_count /\ m = Len(t.content) /\ l = Len(f)
  OBVIOUS
<1>2. PICK old, new : old = t.content /\ new = v.content
  OBVIOUS
<1>3. /\ at <= l /\ \A q \in 1 .. at : f[q].end
      /\ at > 0 => t.line = f[at]
      /\ at = 0 => n = 0
      /\ \A x \in n + 1 .. m : old[x] = NoEntry
  BY <1>1, <1>2, Zenon DEF Parses, Reading, Unbegun
<1>4. /\ k = n + 1 /\ k \in 1 .. m /\ k \in n + 1 .. m /\ k >= 1
      /\ \A x \in 1 .. n : x \in 1 .. m /\ x # k
      /\ \A x \in 1 .. k : x \in 1 .. n \/ x = k
  BY <1>1
<1>5. \A x \in 1 .. m : x # k => new[x] = old[x]
  BY <1>1, <1>2
<1>6. CASE at = 0
  <2>1. old[k] = NoEntry /\ k = 1
    BY <1>3, <1>4, <1>6
  <2>2. Hashless(new[1])
    <3>1. \A kind \in HashKinds : old[k][kind] = Unset
      BY <2>1 DEF NoEntry, HashKinds
    <3> QED  BY <1>2, <2>1, <3>1 DEF Hashless
  <2>3. v.at = 0
    BY <1>1, <1>6
  <2> QED  BY <1>2, <1>4, <2>2, <2>3 DEF Took, TookLeftOver
<1>7. CASE at # 0
  <2>1. /\ at \in 1 .. at /\ at \in 1 .. l /\ f[at].kind = "name"
        /\ new[k].name = f[at].text
        /\ \A q \in 1 .. at - 1 : q \in 1 .. at /\ q \in 1 .. l /\ q # at
    <3>1. at > 0 /\ at \in 1 .. at /\ at \in 1 .. l
      BY <1>3, <1>7
    <3>2. t.line = f[at] /\ f[at].end
      BY <1>3, <3>1
    <3>3. \A q \in 1 .. at - 1 : q \in 1 .. at /\ q \in 1 .. l /\ q # at
      BY <1>3
    <3>4. ~Beyond(t)
      BY <1>1, <3>1, WholeLines DEF Parses
    <3> QED  BY <1>2, <3>1, <3>2, <3>3, <3>4
  <2>2. \A i, j \in 1 .. l : f[i].kind = "name" /\ f[j].kind = "name" =>
          f[i].text \in Names /\ (f[i].text = f[j].text => i = j)
    BY <1>1 DEF NamesDiffer
  <2>3. CASE FromLines(t, f)
    <3>1. /\ \A x \in 1 .. n : \E q \in 1 .. at - 1 :
               f[q].kind = "name" /\ old[x].name = f[q].text
          /\ \A x \in 1 .. n : old[x].name \in Names
          /\ \A x, y \in 1 .. n : old[x].name = old[y].name => x = y
      BY <1>1, <1>2, <2>3 DEF FromLines, Distinct
    <3>2. ASSUME NEW x \in 1 .. n
          PROVE  /\ new[x] = old[x] /\ new[x].name # new[k].name
                 /\ \E q \in 1 .. at : f[q].kind = "name" /\ new[x].name = f[q].text
      <4>1. PICK q \in 1 .. at - 1 : f[q].kind = "name" /\ old[x].name = f[q].text
        BY <3>1
      <4>2. new[x] = old[x]
        BY <1>4, <1>5
      <4>3. q \in 1 .. at /\ q \in 1 .. l /\ q # at
        BY <2>1
      <4>4. f[q].text # f[at].text
        BY <2>1, <2>2, <4>1, <4>3
      <4> QED  BY <2>1, <4>1, <4>2, <4>3, <4>4
    <3>3. \A x \in 1 .. k : new[x].name \in Names
      <4>1. new[k].name \in Names
        BY <2>1, <2>2
      <4> QED  BY <1>4, <3>1, <3>2, <4>1
    <3>4. ASSUME NEW x \in 1 .. k, NEW y \in 1 .. k, new[x].name = new[y].name
          PROVE  x = y
      <4>1. CASE x \in 1 .. n /\ y \in 1 .. n
        BY <3>1, <3>2, <3>4, <4>1
      <4>2. CASE x = k \/ y = k
        BY <1>4, <3>2, <3>4, <4>2
      <4> QED  BY <1>4, <4>1, <4>2
    <3>5. \A x \in 1 .. k : \E q \in 1 .. at :
            f[q].kind = "name" /\ new[x].name = f[q].text
      BY <1>4, <2>1, <3>2
    <3>6. Distinct(new, k)
      BY <3>3, <3>4 DEF Distinct
    <3> QED  BY <1>1, <1>2, <3>5, <3>6 DEF Took, TookLines
  <2>4. CASE FromLeftOver(t, f)
    <3>1. n >= 1 /\ Hashless(old[1])
      BY <1>1, <1>2, <2>4 DEF FromLeftOver
    <3>2. 1 \in 1 .. m /\ 1 # k /\ k >= 2
      BY <1>4, <3>1
    <3>3. new[1] = old[1]
      BY <1>5, <3>2
    <3> QED  BY <1>2, <1>4, <3>1, <3>2, <3>3 DEF Took, TookLeftOver
  <2> QED  BY <2>3, <2>4
<1> QED  BY <1>6, <1>7

(* A hash stays with the entry of the name above it.                       *)
LEMMA HashTaken ==
  ASSUME NEW f \in Seq(Lines), IsHashFile(f), NEW t, NEW v,
         t.at \in Nat, t.file_count \in Nat, Len(t.content) \in Nat,
         Parses(t, f), FromLines(t, f) \/ FromLeftOver(t, f),
         IsHash(t.line),
         NEW k, k = t.file_count, k \in 1 .. Len(t.content),
         v.at = t.at, v.file_count = k,
         v.content[k].name = t.content[k].name,
         \A x \in 1 .. Len(t.content) : x # k => v.content[x] = t.content[x]
  PROVE  Took(v, f)
<1>1. PICK at \in Nat, m \in Nat, l \in Nat :
        at = t.at /\ m = Len(t.content) /\ l = Len(f)
  OBVIOUS
<1>2. PICK old, new : old = t.content /\ new = v.content
  OBVIOUS
<1>3. /\ at <= l /\ (at > 0 => t.line = f[at]) /\ (at = 0 => k = 0)
  BY <1>1, Zenon DEF Parses, Reading
<1>4. /\ at > 0
      /\ at \in 1 .. l
      /\ f[at] = t.line
      /\ \A q \in 1 .. at : q \in 1 .. at - 1 \/ q = at
      /\ \A q \in 1 .. at - 1 : q \in 1 .. at
  <2>1. at # 0
    BY <1>1, <1>3
  <2>2. at > 0 /\ at \in 1 .. l
    BY <1>3, <2>1
  <2>3. \A q \in 1 .. at : q \in 1 .. at - 1 \/ q = at
    OBVIOUS
  <2>4. \A q \in 1 .. at - 1 : q \in 1 .. at
    OBVIOUS
  <2> QED  BY <1>3, <2>2, <2>3, <2>4
<1>5. /\ \A x \in 1 .. m : new[x].name = old[x].name
      /\ \A x \in 1 .. k : x \in 1 .. m
  <2>1. \A x \in 1 .. k : x \in 1 .. m
    BY <1>1
  <2> QED  BY <1>1, <1>2, <2>1
<1>6. CASE FromLines(t, f)
  <2>1. /\ \A x \in 1 .. k : \E q \in 1 .. at - 1 :
             f[q].kind = "name" /\ old[x].name = f[q].text
        /\ \A x \in 1 .. k : old[x].name \in Names
        /\ \A x, y \in 1 .. k : old[x].name = old[y].name => x = y
    BY <1>1, <1>2, <1>6 DEF FromLines, Distinct
  <2>2. ASSUME NEW x \in 1 .. k
        PROVE  \E q \in 1 .. at : f[q].kind = "name" /\ new[x].name = f[q].text
    <3>1. PICK q \in 1 .. at - 1 : f[q].kind = "name" /\ old[x].name = f[q].text
      BY <2>1
    <3>2. q \in 1 .. at /\ new[x].name = old[x].name
      BY <1>4, <1>5
    <3> QED  BY <3>1, <3>2
  <2>3. Distinct(new, k)
    BY <1>5, <2>1 DEF Distinct
  <2> QED  BY <1>1, <1>2, <2>2, <2>3 DEF Took, TookLines
<1>7. CASE FromLeftOver(t, f)
  <2>1. /\ k >= 1 /\ Hashless(old[1])
        /\ \A q \in 1 .. at - 1 : f[q].kind = "name" => k >= 2
    BY <1>1, <1>2, <1>7 DEF FromLeftOver
  <2>2. PICK q \in 1 .. at - 1 : f[q].kind = "name"
    BY <1>1, <1>4 DEF IsHashFile, Under
  <2>3. k >= 2 /\ 1 \in 1 .. m /\ 1 # k
    BY <1>1, <2>1, <2>2
  <2>4. new[1] = old[1]
    BY <1>1, <1>2, <2>3
  <2> QED  BY <1>2, <2>1, <2>3, <2>4 DEF Took, TookLeftOver
<1> QED  BY <1>6, <1>7

(* A line that is not stored.                                              *)
LEMMA NothingTaken ==
  ASSUME NEW f, NEW t, t.at \in Nat, t.file_count \in Nat, Parses(t, f),
         FromLines(t, f) \/ FromLeftOver(t, f),
         t.line.kind # "name"
  PROVE  Took(t, f)
<1>1. PICK at \in Nat, n \in Nat : at = t.at /\ n = t.file_count
  OBVIOUS
<1>2. (at > 0 => t.line = f[at])
  BY <1>1, Zenon DEF Parses, Reading
<1>3. /\ \A q \in 1 .. at : q \in 1 .. at - 1 \/ (q = at /\ at > 0)
      /\ \A q \in 1 .. at - 1 : q \in 1 .. at
  OBVIOUS
<1>4. CASE FromLines(t, f)
  BY <1>1, <1>3, <1>4 DEF Took, TookLines, FromLines
<1>5. CASE FromLeftOver(t, f)
  BY <1>1, <1>2, <1>3, <1>5 DEF Took, TookLeftOver, FromLeftOver
<1> QED  BY <1>4, <1>5

(* Either there is another line, or all entries counted have been taken.   *)
LEMMA TookNext ==
  ASSUME NEW f \in Seq(Lines), IsHashFile(f), NEW v, DOMAIN v = Field,
         v.at \in Nat, v.file_count \in Nat, v.nb_files \in Nat,
         Len(v.content) = v.nb_files + 1, v.pc = "parse",
         Unbegun(v.content, v.file_count), Took(v, f),
         NEW u, u = IF Ends(f, v.at) = {} THEN [v EXCEPT !.pc = "choose"]
                    ELSE Read(v, f),
         u.pc = "choose" => Clean(u)
  PROVE  Tells(u, f)
<1>1. PICK at \in Nat, n \in Nat, nb \in Nat :
        at = v.at /\ n = v.file_count /\ nb = v.nb_files
  OBVIOUS
<1>2. CASE Ends(f, v.at) = {}
  <2>1. u.pc = "choose" /\ u.content = v.content /\ u.nb_files = nb
    BY <1>1, <1>2 DEF Field
  <2>2. Apart(u)
    <3>1. CASE nb = 0
      <4>1. \A x \in 1 .. nb : FALSE
        BY <3>1
      <4> QED  BY <2>1, <4>1 DEF Apart, Distinct
    <3>2. CASE nb # 0 /\ TookLeftOver(v, f)
      <4>1. 1 \in 1 .. nb
        BY <3>2
      <4>2. Bare(u.content[1])
        BY <2>1, <3>2, <4>1 DEF TookLeftOver, Hashless, Bare, Clean, HashKinds
      <4> QED  BY <2>1, <4>1, <4>2 DEF Apart
    <3>3. CASE TookLines(v, f) /\ n < nb
      <4>1. /\ n + 1 \in 1 .. nb
            /\ \A x \in n + 1 .. nb + 1 : v.content[x] = NoEntry
            /\ n + 1 \in n + 1 .. nb + 1
        BY <1>1, <3>3 DEF Unbegun
      <4>2. Bare(v.content[n + 1])
        BY <4>1 DEF NoEntry, Bare
      <4> QED  BY <2>1, <4>1, <4>2 DEF Apart
    <3>4. CASE TookLines(v, f) /\ ~(n < nb)
      <4>1. \A x \in 1 .. nb : x \in 1 .. n
        BY <3>4
      <4>2. Distinct(v.content, nb)
        BY <1>1, <3>4, <4>1 DEF TookLines, Distinct
      <4> QED  BY <2>1, <4>2 DEF Apart
    <3> QED  BY <3>1, <3>2, <3>3, <3>4 DEF Took
  <2> QED  BY <2>1, <2>2 DEF Tells
<1>3. CASE Ends(f, v.at) # {}
  <2>1. u = Read(v, f)
    BY <1>3
  <2>2. /\ Min(Ends(f, at)) = at + 1
    BY <1>1, <1>3, FgetsNext
  <2>3. /\ u.pc = "parse" /\ u.content = v.content /\ u.file_count = n
        /\ u.at - 1 = at /\ u.at > 0
    <3>1. /\ u.pc = v.pc /\ u.content = v.content
          /\ u.file_count = v.file_count /\ u.at = Min(Ends(f, v.at))
      <4>1. /\ Read(v, f).pc = v.pc /\ Read(v, f).content = v.content
            /\ Read(v, f).file_count = v.file_count
            /\ Read(v, f).at = Min(Ends(f, v.at))
        BY ReadFields, Zenon
      <4> QED  BY <2>1, <4>1, Zenon
    <3>2. u.at = at + 1
      BY <1>1, <2>2, <3>1
    <3>3. u.at - 1 = at /\ u.at > 0
      BY <3>2
    <3> QED  BY <1>1, <3>1, <3>3, Zenon
  <2>4. ASSUME TookLines(v, f)  PROVE FromLines(u, f)
    <3>1. /\ \A x \in 1 .. n : \E k \in 1 .. at :
               f[k].kind = "name" /\ u.content[x].name = f[k].text
          /\ Distinct(u.content, n)
      BY <1>1, <2>3, <2>4, Zenon DEF TookLines
    <3> QED  BY <2>3, <3>1, Zenon DEF FromLines
  <2>5. TookLeftOver(v, f) => FromLeftOver(u, f)
    BY <1>1, <2>3, Zenon DEF TookLeftOver, FromLeftOver
  <2> QED  BY <2>3, <2>4, <2>5 DEF Took, Tells
<1> QED  BY <1>2, <1>3

-----------------------------------------------------------------------------
(***************************************************************************)
(* Steps that have nothing to do with the lists.                           *)
(***************************************************************************)

LEMMA ExitStays ==
  ASSUME BackInv, NEW p \in Process, NEW code, Exit(p, code), ~Ended(p),
         NEW path \in Path, Settled(path)
  PROVE  fs'[path] = fs[path]
<1>1. tbt[p].OUTPUT # path /\ DOMAIN fs = Path
  BY DEF Settled, BackInv, ReadInv, TypeInv, TbtInv, Disks
<1> QED  BY <1>1 DEF Exit

(* A settled file is written by no step.                                   *)
LEMMA SettledStays ==
  ASSUME BackInv, NEW p \in Process, Step(p) \/ Flush(p) \/ Killed(p),
         NEW path \in Path, Settled(path)
  PROVE  fs'[path] = fs[path]
<1>1. DOMAIN fs = Path
  BY DEF BackInv, ReadInv, TypeInv, TbtInv, Disks
<1>2. ASSUME ~Ended(p)
      PROVE  /\ tbt[p].OUTPUT # path
             /\ tbt[p].pc = "create" => tbt[p].command.output # path
  BY <1>2 DEF Settled
<1>3. CASE Flush(p)
  BY <1>1, <1>2, <1>3 DEF Flush
<1>4. CASE Create(p)
  BY <1>1, <1>2, <1>4, ExitStays DEF Create, Ended
<1>5. CASE Access(p)
  BY <1>5, ExitStays DEF Access, Ended
<1>6. CASE Stat(p)
  BY <1>6, ExitStays DEF Stat, Ended
<1>7. CASE Fopen(p)
  BY <1>7, ExitStays DEF Fopen, Ended
<1>8. CASE WrongNumber(p)
  BY <1>8, ExitStays DEF WrongNumber, Ended
<1>9. CASE Choose(p)
  BY <1>9, ExitStays DEF Choose, Ended
<1>10. CASE close_output(p)
  BY <1>10, ExitStays DEF close_output, Ended
<1>11. CASE \/ treat_dir(p) \/ CountLine(p) \/ CountEnd(p)
            \/ Heading(p) \/ CompareNext(p) \/ Compared(p) \/ Killed(p)
  <2>1. UNCHANGED fs
    BY <1>11 DEF treat_dir, CountLine, CountEnd, Heading, CompareNext, Compared, Killed
  <2> QED  BY <2>1
<1>12. CASE ParseName(p) \/ ParseHash(p) \/ ParseNothing(p)
  <2>1. \E t : ReadNext(p, t)
    BY <1>12 DEF ParseName, ParseHash, ParseNothing
  <2> QED  BY <2>1 DEF ReadNext
<1> QED  BY <1>3, <1>4, <1>5, <1>6, <1>7, <1>8, <1>9, <1>10, <1>11, <1>12 DEF Step

(* One process does a step, after which it can tell what it has to.        *)
LEMMA PairKept ==
  ASSUME PairInv, BackInv', NEW p \in Process, NEW u, Set(p, u),
         Step(p) \/ Flush(p) \/ Killed(p),
         u.command = tbt[p].command,
         u.OUTPUT = tbt[p].OUTPUT \/ tbt[p].OUTPUT = Null,
         Nameless(u),
         u.settled /\ Alone(tbt, u.command.argument) =>
           Tells(u, fs'[u.command.argument])
  PROVE  PairInv'
<1>1. tbt'[p] = u /\ \A q \in Process : q # p => tbt'[q] = tbt[q]
  BY DEF PairInv, BackInv, ReadInv, Set, TypeInv, TbtInv, Memories
<1>2. ASSUME NEW path, Alone(tbt', path)  PROVE Alone(tbt, path)
  <2>1. SUFFICES ASSUME path \in Path, NEW q \in Process, NEW r \in Process,
                        tbt[q].OUTPUT = path, tbt[r].OUTPUT = path
                 PROVE  q = r
    BY DEF Alone, Sole
  <2>2. path # Null
    BY <2>1, TbtAssumption DEF Path
  <2>3. tbt'[q].OUTPUT = path /\ tbt'[r].OUTPUT = path
    BY <1>1, <2>1, <2>2
  <2> QED  BY <1>2, <2>1, <2>3 DEF Alone, Sole
<1>3. ASSUME NEW q \in Process
      PROVE  /\ Nameless(tbt'[q])
             /\ tbt'[q].settled /\ Alone(tbt', tbt'[q].command.argument) =>
                  Tells(tbt'[q], fs'[tbt'[q].command.argument])
  <2>1. CASE q = p
    BY <1>1, <1>2, <2>1
  <2>2. CASE q # p
    <3>1. PICK t : t = tbt[q]
      OBVIOUS
    <3>2. tbt'[q] = t
      BY <1>1, <2>2, <3>1
    <3>3. ASSUME t.settled, Alone(tbt', t.command.argument)
          PROVE  Tells(t, fs'[t.command.argument])
      <4>1. Alone(tbt, t.command.argument)
        BY <1>2, <3>3
      <4>2. Tells(t, fs[t.command.argument])
        BY <3>1, <3>3, <4>1 DEF PairInv, In
      <4>3. t.command.argument \in Path /\ Settled(t.command.argument)
        BY <3>1, <3>3 DEF PairInv, BackInv, ReadsBack
      <4>4. fs'[t.command.argument] = fs[t.command.argument]
        BY <4>3, SettledStays DEF PairInv
      <4> QED  BY <4>2, <4>4
    <3>4. Nameless(t)
      BY <3>1 DEF PairInv
    <3> QED  BY <3>2, <3>3, <3>4
  <2> QED  BY <2>1, <2>2
<1> QED  BY <1>3 DEF PairInv, Nameless, Tells, Alone, Sole, In

(* A step that prints nothing, to a place where nothing has been taken.    *)
LEMMA QuietPair ==
  ASSUME PairInv, BackInv', NEW p \in Process, NEW u, Set(p, u),
         Step(p) \/ Flush(p) \/ Killed(p),
         u.command = tbt[p].command,
         u.OUTPUT = tbt[p].OUTPUT \/ tbt[p].OUTPUT = Null,
         u.out = tbt[p].out,
         u.pc \notin {"parse", "choose", "compare", "close"},
         u.pc \in {"access", "create", "fopen", "count"} =>
           tbt[p].pc \in {"access", "create", "fopen", "count"}
  PROVE  PairInv'
<1>1. Nameless(tbt[p])
  BY DEF PairInv
<1>2. Nameless(u)
  BY <1>1 DEF Nameless
<1>3. \A f : Tells(u, f)
  BY DEF Tells
<1> QED  BY <1>2, <1>3, PairKept

(* A process that writes hashes reads no file and makes no lists.          *)
LEMMA HashPair ==
  ASSUME PairInv, BackInv', NEW p \in Process, NEW u, Set(p, u),
         Step(p) \/ Flush(p) \/ Killed(p),
         u.command = tbt[p].command,
         u.OUTPUT = tbt[p].OUTPUT \/ tbt[p].OUTPUT = Null,
         u.command.mode = "hash"
  PROVE  PairInv'
<1>1. tbt'[p] = u
  BY DEF PairInv, BackInv, ReadInv, Set, TypeInv, TbtInv, Memories
<1>2. Nameless(u)
  BY DEF Nameless
<1>3. WritesWhole(u)
  <2>1. \A q \in Process : WritesWhole(tbt'[q])
    BY DEF BackInv, WritesWhole, Treats, Treated, Executables
  <2> QED  BY <1>1, <2>1
<1>4. ~u.settled
  BY <1>3 DEF WritesWhole
<1> QED  BY <1>2, <1>4, PairKept

LEMMA ExitPair ==
  ASSUME PairInv, BackInv', NEW p \in Process, NEW code, Exit(p, code), Step(p)
  PROVE  PairInv'
<1> DEFINE t == tbt[p]
           u == [t EXCEPT !.pc = "done", !.code = code, !.flushed = Len(t.out)]
<1>1. DOMAIN t = Field /\ Set(p, u)
  BY DEF PairInv, BackInv, ReadInv, TypeInv, TbtInv, Memories, IsMemory, Exit
<1>2. /\ u.command = t.command /\ u.OUTPUT = t.OUTPUT /\ u.out = t.out
      /\ u.pc = "done"
  BY <1>1 DEF Field
<1> HIDE DEF u
<1> QED  BY <1>1, <1>2, QuietPair

LEMMA GotoPair ==
  ASSUME PairInv, BackInv', NEW p \in Process, NEW pc, Goto(p, pc),
         Step(p) \/ Flush(p) \/ Killed(p),
         pc \notin {"parse", "choose", "compare", "close"},
         pc \in {"access", "create", "fopen", "count"} =>
           tbt[p].pc \in {"access", "create", "fopen", "count"}
  PROVE  PairInv'
<1> DEFINE t == tbt[p]
           u == [t EXCEPT !.pc = pc]
<1>1. DOMAIN t = Field /\ Set(p, u)
  BY DEF PairInv, BackInv, ReadInv, TypeInv, TbtInv, Memories, IsMemory, Goto
<1>2. /\ u.command = t.command /\ u.OUTPUT = t.OUTPUT /\ u.out = t.out
      /\ u.pc = pc
  BY <1>1 DEF Field
<1> HIDE DEF u
<1> QED  BY <1>1, <1>2, QuietPair

LEMMA FlushPair ==
  ASSUME PairInv, BackInv', NEW p \in Process, Flush(p)
  PROVE  PairInv'
<1> DEFINE t == tbt[p]
           u(n) == [t EXCEPT !.flushed = @ + n]
<1>1. PICK n : Set(p, u(n))
  BY DEF Flush
<1>2. DOMAIN t = Field
  BY DEF PairInv, BackInv, ReadInv, TypeInv, TbtInv, Memories, IsMemory
<1> DEFINE v == u(n)
<1>3. /\ v.command = t.command /\ v.OUTPUT = t.OUTPUT /\ v.out = t.out
      /\ v.pc = t.pc /\ v.settled = t.settled /\ v.file_count = t.file_count
      /\ v.nb_files = t.nb_files /\ v.content = t.content /\ v.at = t.at
      /\ v.algorithm = t.algorithm /\ v.work = t.work
  BY <1>2 DEF Field
<1>4. Set(p, v)
  BY <1>1
<1> HIDE DEF u, v
<1>5. Nameless(v)
  BY <1>3 DEF PairInv, Nameless
<1>6. ASSUME t.settled, Alone(tbt, t.command.argument)
      PROVE  Tells(v, fs'[t.command.argument])
  <2>1. t.command.argument \in Path /\ Settled(t.command.argument)
    BY <1>6 DEF PairInv, BackInv, ReadsBack
  <2>2. fs'[t.command.argument] = In(p)
    BY <2>1, SettledStays DEF PairInv, In
  <2>3. Tells(t, In(p))
    BY <1>6 DEF PairInv
  <2>4. Tells(v, In(p)) <=> Tells(t, In(p))
    <3>1. PICK f : f = In(p)
      OBVIOUS
    <3>2. /\ FromLines(v, f) <=> FromLines(t, f)
          /\ FromLeftOver(v, f) <=> FromLeftOver(t, f)
          /\ Apart(v) <=> Apart(t)
      BY <1>3 DEF FromLines, FromLeftOver, Apart, Clean
    <3>3. Lists(v) <=> Lists(t)
      <4>1. Full(v) <=> Full(t)
        BY <1>3 DEF Full
      <4>2. Jobs(v) = Jobs(t)
        BY <1>3 DEF Jobs
      <4>3. \A jobs : Wanted(v, jobs) = Wanted(t, jobs)
        BY <1>3 DEF Wanted, Rates, Rated
      <4> QED  BY <1>3, <4>1, <4>2, <4>3 DEF Lists
    <3> QED  BY <1>3, <3>1, <3>2, <3>3 DEF Tells
  <2> QED  BY <2>2, <2>3, <2>4
<1> QED  BY <1>3, <1>4, <1>5, <1>6, PairKept

LEMMA AccessPair ==
  ASSUME PairInv, BackInv', NEW p \in Process, Access(p)
  PROVE  PairInv'
<1>1. Step(p) /\ tbt[p].pc = "access"
  BY DEF Step, Access
<1>2. Mode(p) \in {"fopen", "stat"}
  BY DEF Mode
<1>3. \/ \E pc \in {"create", "fopen", "stat"} : Goto(p, pc)
      \/ Exit(p, 1)
  BY <1>2 DEF Access
<1> QED  BY <1>1, <1>3, GotoPair, ExitPair

LEMMA CreatePair ==
  ASSUME PairInv, BackInv', NEW p \in Process, Create(p)
  PROVE  PairInv'
<1> DEFINE t == tbt[p]
           u == [t EXCEPT !.pc = Mode(p), !.OUTPUT = t.command.output]
<1>1. /\ Step(p) /\ t.pc = "create" /\ Mode(p) \in {"fopen", "stat"}
      /\ DOMAIN t = Field /\ t.OUTPUT = Null
  BY DEF Step, Create, Mode, PairInv, BackInv, ReadInv, TypeInv, TbtInv,
         Memories, IsMemory, Fresh
<1>2. CASE Exit(p, 1)
  BY <1>1, <1>2, ExitPair
<1>3. CASE Set(p, u)
  <2>1. u.command = t.command /\ u.out = t.out /\ u.pc = Mode(p)
    BY <1>1 DEF Field
  <2> HIDE DEF u
  <2> QED  BY <1>1, <1>3, <2>1, QuietPair
<1> QED  BY <1>2, <1>3 DEF Create

LEMMA StatPair ==
  ASSUME PairInv, BackInv', NEW p \in Process, Stat(p)
  PROVE  PairInv'
<1> DEFINE t == tbt[p]
           reads(names) == [t EXCEPT !.pc = "readdir", !.files = names]
           fails == [t EXCEPT !.pc = "close", !.code = 1]
<1>1. /\ Step(p) /\ t.pc = "stat" /\ DOMAIN t = Field /\ Typed(t)
  BY DEF Step, Stat, PairInv, BackInv, ReadInv, TypeInv, TbtInv, Memories, IsMemory
<1>2. t.command.mode = "hash"
  BY <1>1 DEF Typed, IsCommand, Places
<1>3. CASE Exit(p, 1)
  BY <1>1, <1>3, ExitPair
<1>4. ASSUME NEW u, Set(p, u), u = fails \/ \E names : u = reads(names)
      PROVE  PairInv'
  <2>1. u.command = t.command /\ u.OUTPUT = t.OUTPUT
    BY <1>1, <1>4 DEF Field
  <2> QED  BY <1>1, <1>2, <1>4, <2>1, HashPair
<1>5. \/ Exit(p, 1) \/ Set(p, fails) \/ \E names : Set(p, reads(names))
  BY DEF Stat
<1> HIDE DEF fails, reads
<1> QED  BY <1>3, <1>4, <1>5

LEMMA TreatPair ==
  ASSUME PairInv, BackInv', NEW p \in Process, treat_dir(p)
  PROVE  PairInv'
<1> DEFINE t == tbt[p]
<1>1. /\ Step(p) /\ t.pc = "readdir" /\ DOMAIN t = Field /\ Typed(t)
  BY DEF Step, treat_dir, PairInv, BackInv, ReadInv, TypeInv, TbtInv, Memories, IsMemory
<1>2. t.command.mode = "hash"
  BY <1>1 DEF Typed, IsCommand, Places
<1>3. CASE Goto(p, "close")
  <2> DEFINE u == [t EXCEPT !.pc = "close"]
  <2>1. u.command = t.command /\ u.OUTPUT = t.OUTPUT /\ Set(p, u)
    BY <1>1, <1>3 DEF Field, Goto
  <2> HIDE DEF u
  <2> QED  BY <1>1, <1>2, <2>1, HashPair
<1>4. ASSUME NEW name, treat_file(p, name)  PROVE PairInv'
  <2> DEFINE u == [t EXCEPT !.files = @ \ {name},
                            !.out = IF Sample[name].elf
                                      THEN @ \o Printed(t.algorithm, name)
                                      ELSE @]
  <2>1. u.command = t.command /\ u.OUTPUT = t.OUTPUT /\ Set(p, u)
    BY <1>1, <1>4 DEF Field, treat_file
  <2> HIDE DEF u
  <2> QED  BY <1>1, <1>2, <2>1, HashPair
<1> QED  BY <1>3, <1>4 DEF treat_dir

LEMMA FopenPair ==
  ASSUME PairInv, BackInv', NEW p \in Process, Fopen(p)
  PROVE  PairInv'
<1> DEFINE t == tbt[p]
           u == [t EXCEPT !.pc = "count", !.settled = Settled(t.command.argument)]
<1>1. /\ Step(p) /\ t.pc = "fopen" /\ DOMAIN t = Field
  BY DEF Step, Fopen, PairInv, BackInv, ReadInv, TypeInv, TbtInv, Memories, IsMemory
<1>2. CASE Exit(p, 1)
  BY <1>1, <1>2, ExitPair
<1>3. CASE Set(p, u)
  <2>1. /\ u.command = t.command /\ u.out = t.out /\ u.pc = "count"
        /\ u.OUTPUT = t.OUTPUT
    BY <1>1 DEF Field
  <2> HIDE DEF u
  <2> QED  BY <1>1, <1>3, <2>1, QuietPair
<1> QED  BY <1>2, <1>3 DEF Fopen

LEMMA CountLinePair ==
  ASSUME PairInv, BackInv', NEW p \in Process, CountLine(p)
  PROVE  PairInv'
<1> DEFINE t == tbt[p]
           v == Read(t, In(p))
           u == [v EXCEPT !.nb_files = IF IsHash(v.line) THEN @ ELSE @ + 1]
<1>1. /\ Step(p) /\ t.pc = "count" /\ DOMAIN t = Field /\ Set(p, u)
  BY DEF Step, CountLine, PairInv, BackInv, ReadInv, TypeInv, TbtInv, Memories, IsMemory
<1>2. /\ DOMAIN v = Field /\ v.command = t.command /\ v.OUTPUT = t.OUTPUT
      /\ v.pc = t.pc /\ v.out = t.out
  BY <1>1, ReadFields
<1> HIDE DEF v
<1>3. /\ u.command = t.command /\ u.OUTPUT = t.OUTPUT
      /\ u.pc = t.pc /\ u.out = t.out
  BY <1>2 DEF Field
<1> HIDE DEF u
<1> QED  BY <1>1, <1>3, QuietPair

-----------------------------------------------------------------------------
(***************************************************************************)
(* The entries are taken.                                                  *)
(***************************************************************************)

LEMMA CountEndPair ==
  ASSUME PairInv, BackInv', NEW p \in Process, CountEnd(p)
  PROVE  PairInv'
<1> DEFINE t == tbt[p]
           u(line, content) ==
             [t EXCEPT !.pc = "parse", !.at = 0, !.line = line, !.content = content]
<1>1. PICK line, content : Set(p, u(line, content))
  BY DEF CountEnd
<1>2. /\ Step(p) /\ t.pc = "count" /\ DOMAIN t = Field /\ Fresh(t) /\ UNCHANGED fs
      /\ Nameless(t)
  BY DEF Step, CountEnd, PairInv, BackInv, ReadInv, TypeInv, TbtInv, Memories, IsMemory
<1> DEFINE v == u(line, content)
<1>3. /\ v.command = t.command /\ v.OUTPUT = t.OUTPUT /\ v.pc = "parse"
      /\ v.at = 0 /\ v.file_count = t.file_count /\ v.out = t.out
  BY <1>2 DEF Field
<1>4. Set(p, v)
  BY <1>1
<1> HIDE DEF u, v
<1>5. v.file_count = 0
  BY <1>2, <1>3 DEF Fresh
<1>6. \A x \in 1 .. v.file_count : FALSE
  BY <1>5
<1>7. \A f : Tells(v, f)
  BY <1>3, <1>6 DEF Tells, FromLines, Distinct
<1>8. Nameless(v)
  BY <1>2, <1>3 DEF Nameless
<1> QED  BY <1>2, <1>3, <1>4, <1>7, <1>8, PairKept

(* Who has come to the end has taken no scrap, or has no entries.          *)
LEMMA ReaderIsClean ==
  ASSUME NEW t, NEW f, Reader(t, f), t.nb_files \in Nat,
         Len(t.content) = t.nb_files + 1, t.pc = "choose"
  PROVE  Clean(t)
<1>1. PICK nb \in Nat : nb = t.nb_files /\ Len(t.content) = nb + 1
  OBVIOUS
<1>2. ASSUME NEW x \in 1 .. nb, NEW kind \in HashKinds,
             t.content[x][kind] = Scrap
      PROVE  FALSE
  <2>1. x \in 1 .. Len(t.content) /\ nb # 0 /\ Len(t.content) >= 1
    BY <1>1
  <2>2. ~Scrapped(t)
    BY <1>1, <2>1 DEF Reader, Scraps
  <2>3. x # 1
    BY <1>2, <2>1, <2>2 DEF Scrapped
  <2>4. /\ t.content[x].name \in Names
        /\ Scrap = Sample[t.content[x].name][kind]
    BY <1>2, <2>1, <2>3, TbtAssumption DEF Reader, Matched
  <2> QED  BY <2>4, TbtAssumption DEF HashKinds, Names
<1> QED  BY <1>1, <1>2 DEF Clean

(* A step that opens no file leaves a file with its one writer.            *)
LEMMA StillAlone ==
  ASSUME PairInv, NEW p \in Process, NEW u, Set(p, u),
         u.OUTPUT = tbt[p].OUTPUT, NEW path, Alone(tbt, path)
  PROVE  Alone(tbt', path)
<1>1. \A q \in Process : tbt'[q].OUTPUT = tbt[q].OUTPUT
  BY DEF PairInv, BackInv, ReadInv, Set, TypeInv, TbtInv, Memories
<1> QED  BY <1>1 DEF Alone, Sole

(* The line has been parsed into v, and the next is read.                  *)
LEMMA ReadNextPair ==
  ASSUME PairInv, BackInv', NEW p \in Process, Step(p), tbt[p].pc = "parse",
         NEW v, DOMAIN v = Field, ReadNext(p, v),
         v.pc = "parse", v.command = tbt[p].command, v.OUTPUT = tbt[p].OUTPUT,
         v.settled = tbt[p].settled, v.out = tbt[p].out,
         v.at \in Nat, v.file_count \in Nat, v.nb_files \in Nat,
         Len(v.content) = v.nb_files + 1,
         tbt[p].settled /\ Alone(tbt, tbt[p].command.argument) =>
           Unbegun(v.content, v.file_count) /\ Took(v, In(p))
  PROVE  PairInv'
<1> DEFINE t == tbt[p]
           u == IF Ends(In(p), v.at) = {} THEN [v EXCEPT !.pc = "choose"]
                ELSE Read(v, In(p))
<1>1. Set(p, u) /\ UNCHANGED fs
  BY DEF ReadNext
<1>2. /\ u.command = t.command /\ u.OUTPUT = t.OUTPUT /\ u.out = t.out
      /\ u.settled = t.settled /\ u.pc \in {"parse", "choose"}
      /\ u.nb_files = v.nb_files /\ u.content = v.content
  <2>1. CASE u = [v EXCEPT !.pc = "choose"]
    <3> HIDE DEF u
    <3> QED  BY <2>1 DEF Field
  <2>2. CASE u = Read(v, In(p))
    <3> HIDE DEF u
    <3> QED  BY <2>2, ReadFields
  <2> QED  BY <2>1, <2>2
<1>3. ASSUME t.settled, Alone(tbt, t.command.argument)  PROVE Tells(u, In(p))
  <2>1. In(p) \in Seq(Lines) /\ IsHashFile(In(p))
    BY <1>3, AloneIsTidy
  <2>2. Unbegun(v.content, v.file_count) /\ Took(v, In(p))
    BY <1>3
  <2>3. PICK f : f = In(p)
    OBVIOUS
  <2>4. u = IF Ends(f, v.at) = {} THEN [v EXCEPT !.pc = "choose"] ELSE Read(v, f)
    BY <2>3
  <2> HIDE DEF u
  <2>5. u.pc = "choose" => Clean(u)
    <3>1. tbt'[p] = u
      BY <1>1 DEF PairInv, BackInv, ReadInv, Set, TypeInv, TbtInv, Memories
    <3>2. Reader(u, fs[u.command.argument])
      BY <1>1, <1>2, <1>3, <3>1, StillAlone DEF BackInv, ReadInv, ReadsWell
    <3> QED  BY <1>2, <3>2, ReaderIsClean
  <2>6. Tells(u, f)
    BY <2>1, <2>2, <2>3, <2>4, <2>5, TookNext
  <2> QED  BY <2>3, <2>6
<1> HIDE DEF u
<1>4. Nameless(u)
  BY <1>2 DEF PairInv, Nameless
<1> QED  BY <1>1, <1>2, <1>3, <1>4, PairKept DEF In

(* What is known of a reader before it parses a line.                      *)
LEMMA ParsingIs ==
  ASSUME PairInv, NEW p \in Process, tbt[p].pc = "parse",
         tbt[p].settled, Alone(tbt, tbt[p].command.argument)
  PROVE  /\ In(p) \in Seq(Lines) /\ IsHashFile(In(p)) /\ NamesDiffer(In(p))
         /\ Parses(tbt[p], In(p))
         /\ FromLines(tbt[p], In(p)) \/ FromLeftOver(tbt[p], In(p))
<1>1. /\ In(p) \in Seq(Lines) /\ IsHashFile(In(p)) /\ NamesDiffer(In(p))
      /\ Reader(tbt[p], In(p))
  BY AloneIsTidy
<1>2. Tells(tbt[p], In(p))
  BY DEF PairInv
<1> QED  BY <1>1, <1>2 DEF Reader, Tells

LEMMA ParseNamePair ==
  ASSUME PairInv, BackInv', NEW p \in Process, ParseName(p)
  PROVE  PairInv'
<1> DEFINE t == tbt[p]
           k == t.file_count + 1
<1>1. PICK name \in {t.line.text, Unset}, kinds \in SUBSET HashKinds :
        /\ ReadNext(p, Named(t, name, kinds))
        /\ ~Beyond(t) => name = t.line.text /\ kinds = {}
  BY ParseNameStores DEF HashKinds
<1>2. /\ Typed(t) /\ IsMemory(t) /\ t.pc = "parse" /\ t.line.kind = "name"
      /\ t.file_count <= t.nb_files /\ Step(p)
  BY DEF PairInv, BackInv, ReadInv, TypeInv, TbtInv, Memories, ParseName, Parsing, Step
<1>3. name \in Names \cup {Unset}
  <2>1. t.line.text \in Texts("name") \cup {Unset}
    BY <1>2 DEF Typed, IsBuffer
  <2> QED  BY <1>1, <2>1, TextsOfKinds
<1>4. /\ k \in 1 .. Len(t.content) /\ t.content \in Seq(Entries)
      /\ t.at \in Nat /\ t.file_count \in Nat /\ k \in Nat
      /\ Len(t.content) = t.nb_files + 1 /\ t.nb_files \in Nat
      /\ Len(t.content) \in Nat
  BY <1>2 DEF Typed, IsMemory
<1> DEFINE v == Named(t, name, kinds)
<1>5. /\ DOMAIN v = Field
      /\ v.content = Enter(t.content, k, name, kinds)
      /\ v.file_count = k /\ v.command = t.command /\ v.OUTPUT = t.OUTPUT
      /\ v.pc = t.pc /\ v.settled = t.settled /\ v.nb_files = t.nb_files
      /\ v.at = t.at /\ v.out = t.out
  BY <1>2, NamedFields DEF IsMemory
<1>6. ReadNext(p, v)
  BY <1>1
<1> HIDE DEF v
<1>7. /\ v.content \in Seq(Entries) /\ Len(v.content) = Len(t.content)
      /\ v.content[k].name = name
      /\ \A kind \in HashKinds :
           v.content[k][kind] = IF kind \in kinds THEN Scrap ELSE t.content[k][kind]
      /\ \A l \in 1 .. Len(t.content) : l # k => v.content[l] = t.content[l]
  <2>0. PICK content \in Seq(Entries) : content = t.content
    BY <1>4
  <2>1. PICK c \in 1 .. Len(content), text \in Names \cup {Unset} :
          content = t.content /\ c = k /\ text = name
    BY <1>3, <1>4, <2>0
  <2> PICK new : new = v.content
    OBVIOUS
  <2>2. new = Enter(content, c, text, kinds) /\ new = v.content
    BY <1>5, <2>1
  <2> HIDE DEF k
  <2>3. /\ new \in Seq(Entries) /\ Len(new) = Len(content)
        /\ new[c].name = text
        /\ \A kind \in HashKinds :
             new[c][kind] = IF kind \in kinds THEN Scrap ELSE content[c][kind]
        /\ \A l \in 1 .. Len(content) : l # c => new[l] = content[l]
    <3>1. /\ new \in Seq(Entries) /\ Len(new) = Len(content)
          /\ new[c].name = text
          /\ new[c].ctph = IF "ctph" \in kinds THEN Scrap ELSE content[c].ctph
          /\ new[c].simhash =
               IF "simhash" \in kinds THEN Scrap ELSE content[c].simhash
          /\ \A l \in 1 .. Len(content) : l # c => new[l] = content[l]
      <4>1. new = Enter(content, c, text, kinds)
        BY <2>2
      <4> HIDE DEF t, v
      <4> QED  BY <4>1, NameStored
    <3> QED  BY <3>1 DEF HashKinds
  <2> QED  BY <2>1, <2>2, <2>3
<1>8. ASSUME t.settled, Alone(tbt, t.command.argument)
      PROVE  Unbegun(v.content, v.file_count) /\ Took(v, In(p))
  <2>1. PICK f : f = In(p)
    OBVIOUS
  <2>2. /\ f \in Seq(Lines) /\ IsHashFile(f) /\ NamesDiffer(f) /\ Parses(t, f)
        /\ FromLines(t, f) \/ FromLeftOver(t, f)
    BY <1>2, <1>8, <2>1, ParsingIs
  <2>3. /\ ~Beyond(t) => v.content[k].name = t.line.text
        /\ \A kind \in HashKinds :
             v.content[k][kind] \in {t.content[k][kind], Scrap}
    BY <1>1, <1>7
  <2>4. v.at = t.at /\ v.file_count = k
    BY <1>5
  <2>5. k = t.file_count + 1
    OBVIOUS
  <2>6. Unbegun(v.content, k)
    <3>1. PICK n \in Nat, m \in Nat : n = t.file_count /\ m = Len(t.content)
      BY <1>4
    <3>2. \A l \in n + 1 .. m : t.content[l] = NoEntry
      BY <2>2, <3>1 DEF Parses, Unbegun
    <3>3. \A l \in k + 1 .. m : l \in n + 1 .. m /\ l \in 1 .. m /\ l # k
      BY <3>1
    <3>4. \A l \in 1 .. m : l # k => v.content[l] = t.content[l]
      BY <1>7, <3>1
    <3>5. Len(v.content) = m
      BY <1>7, <3>1
    <3> HIDE DEF k
    <3> QED  BY <3>2, <3>3, <3>4, <3>5, Zenon DEF Unbegun
  <2> HIDE DEF k
  <2>7. Took(v, f)
    BY <1>2, <1>4, <1>7, <2>2, <2>3, <2>4, <2>5, NameTaken
  <2> QED  BY <2>1, <2>4, <2>6, <2>7
<1>9. /\ v.pc = "parse" /\ v.at \in Nat /\ v.file_count \in Nat
      /\ Len(v.content) = v.nb_files + 1 /\ v.nb_files \in Nat
  BY <1>2, <1>4, <1>5, <1>7
<1> HIDE DEF k
<1> QED  BY <1>2, <1>5, <1>6, <1>8, <1>9, ReadNextPair

LEMMA ParseHashPair ==
  ASSUME PairInv, BackInv', NEW p \in Process, ParseHash(p)
  PROVE  PairInv'
<1> DEFINE t == tbt[p]
           k == t.file_count
           kind == t.line.kind
           text == t.line.text
           v == IF t.file_count = 0 THEN t ELSE Hashed(t)
<1>1. ReadNext(p, v)
  BY DEF ParseHash, Hashed
<1>2. /\ Typed(t) /\ IsMemory(t) /\ t.pc = "parse" /\ DOMAIN t = Field
      /\ kind \in HashKinds /\ t.file_count <= t.nb_files /\ IsHash(t.line)
      /\ Step(p)
  BY DEF PairInv, BackInv, ReadInv, TypeInv, TbtInv, Memories, ParseHash, Parsing,
         IsHash, HashKinds, IsMemory, Step
<1>3. /\ t.at \in Nat /\ t.file_count \in Nat /\ t.content \in Seq(Entries)
      /\ Len(t.content) = t.nb_files + 1 /\ t.nb_files \in Nat
      /\ Len(t.content) \in Nat
  BY <1>2 DEF Typed, IsMemory
<1>4. text \in Texts(kind)
  <2>1. text \in Texts(kind) \cup {Unset}
    BY <1>2 DEF Typed, IsBuffer
  <2>2. Unset \in Texts(kind)
    BY <1>2, TextsOfKinds DEF HashKinds
  <2> QED  BY <2>1, <2>2
<1>5. /\ DOMAIN v = Field
      /\ v.content = IF k = 0 THEN t.content ELSE Store(t.content, k, kind, text)
      /\ v.file_count = k /\ v.command = t.command /\ v.OUTPUT = t.OUTPUT
      /\ v.pc = t.pc /\ v.settled = t.settled /\ v.nb_files = t.nb_files
      /\ v.at = t.at /\ v.out = t.out
  <2>1. CASE k = 0
    BY <1>2, <2>1
  <2>2. CASE k # 0
    BY <1>2, <2>2, HashedFields
  <2> QED  BY <2>1, <2>2
<1>6. CASE k = 0
  <2>1. v = t
    BY <1>6
  <2> HIDE DEF v
  <2>2. ASSUME t.settled, Alone(tbt, t.command.argument)
        PROVE  Unbegun(t.content, t.file_count) /\ Took(t, In(p))
    <3>1. /\ Parses(t, In(p))
          /\ FromLines(t, In(p)) \/ FromLeftOver(t, In(p))
      BY <1>2, <2>2, ParsingIs
    <3>2. t.line.kind # "name"
      BY <1>2 DEF IsHash
    <3> HIDE DEF t
    <3> QED  BY <1>3, <3>1, <3>2, NothingTaken DEF Parses
  <2> QED  BY <1>1, <1>2, <1>3, <2>1, <2>2, ReadNextPair
<1> HIDE DEF v
<1>7. CASE k # 0
  <2>1. k \in 1 .. Len(t.content)
    BY <1>2, <1>3, <1>7 DEF IsMemory
  <2>2. /\ v.content \in Seq(Entries) /\ Len(v.content) = Len(t.content)
        /\ v.content[k].name = t.content[k].name
        /\ \A l \in 1 .. Len(t.content) : l # k => v.content[l] = t.content[l]
    <3>0. PICK content \in Seq(Entries) : content = t.content
      BY <1>3
    <3>2. PICK c \in 1 .. Len(content) : content = t.content /\ c = k
      BY <2>1, <3>0
    <3> DEFINE new == v.content
    <3>3. new = Store(content, c, kind, text)
      BY <1>5, <1>7, <3>2
    <3> HIDE DEF new, k, kind, text
    <3>4. /\ new \in Seq(Entries) /\ Len(new) = Len(content)
          /\ new[c].name = content[c].name
          /\ \A l \in 1 .. Len(content) : l # c => new[l] = content[l]
      BY <1>2, <1>4, <3>3, HashStored
    <3> QED  BY <3>2, <3>4 DEF new
  <2>3. ASSUME t.settled, Alone(tbt, t.command.argument)
        PROVE  Unbegun(v.content, v.file_count) /\ Took(v, In(p))
    <3>1. PICK f : f = In(p)
      OBVIOUS
    <3>2. /\ f \in Seq(Lines) /\ IsHashFile(f) /\ Parses(t, f)
          /\ FromLines(t, f) \/ FromLeftOver(t, f)
      BY <1>2, <2>3, <3>1, ParsingIs
    <3>3. v.at = t.at /\ v.file_count = k /\ k = t.file_count
      BY <1>5
    <3>4. Unbegun(v.content, k)
      <4>1. PICK n \in Nat, m \in Nat : n = t.file_count /\ m = Len(t.content)
        BY <1>3
      <4>2. \A l \in n + 1 .. m : t.content[l] = NoEntry
        BY <3>2, <4>1 DEF Parses, Unbegun
      <4>3. \A l \in n + 1 .. m : l \in 1 .. m /\ l # k
        BY <4>1
      <4>4. \A l \in 1 .. m : l # k => v.content[l] = t.content[l]
        BY <2>2, <4>1
      <4>5. Len(v.content) = m /\ k = n
        BY <2>2, <4>1
      <4> HIDE DEF k
      <4> QED  BY <4>2, <4>3, <4>4, <4>5, Zenon DEF Unbegun
    <3> HIDE DEF k, kind, text
    <3>5. Took(v, f)
      BY <1>2, <1>3, <2>1, <2>2, <3>2, <3>3, HashTaken
    <3> QED  BY <3>1, <3>3, <3>4, <3>5
  <2>4. /\ v.pc = "parse" /\ v.at \in Nat /\ v.file_count \in Nat
        /\ Len(v.content) = v.nb_files + 1 /\ v.nb_files \in Nat
    BY <1>2, <1>3, <1>5, <2>2
  <2> HIDE DEF k, kind, text
  <2> QED  BY <1>1, <1>2, <1>5, <2>3, <2>4, ReadNextPair
<1> QED  BY <1>6, <1>7

LEMMA ParseNothingPair ==
  ASSUME PairInv, BackInv', NEW p \in Process, ParseNothing(p)
  PROVE  PairInv'
<1> DEFINE t == tbt[p]
<1>1. /\ Typed(t) /\ IsMemory(t) /\ DOMAIN t = Field /\ t.pc = "parse"
      /\ t.line.kind # "name" /\ ReadNext(p, t) /\ Step(p)
  BY DEF PairInv, BackInv, ReadInv, TypeInv, TbtInv, Memories, IsMemory,
         ParseNothing, Parsing, Step
<1>2. /\ t.at \in Nat /\ t.file_count \in Nat /\ t.nb_files \in Nat
      /\ Len(t.content) = t.nb_files + 1
  BY <1>1 DEF Typed, IsMemory
<1>3. ASSUME t.settled, Alone(tbt, t.command.argument)
      PROVE  Unbegun(t.content, t.file_count) /\ Took(t, In(p))
  <2>1. /\ Parses(t, In(p))
        /\ FromLines(t, In(p)) \/ FromLeftOver(t, In(p))
    BY <1>1, <1>3, ParsingIs
  <2> HIDE DEF t
  <2> QED  BY <1>1, <1>2, <2>1, NothingTaken DEF Parses
<1> QED  BY <1>1, <1>2, <1>3, ReadNextPair

-----------------------------------------------------------------------------
(***************************************************************************)
(* The lists are made.                                                     *)
(***************************************************************************)

(* All lists are to be made, each once.                                    *)
LEMMA WorkIsAll ==
  ASSUME NEW algorithm \in DOMAIN Section, NEW nb \in Nat,
         NEW work, work = Work(Section[algorithm], nb)
  PROVE  IsInjective(work) /\ Range(work) = Range(Section[algorithm]) \X (0 .. nb)
<1> DEFINE lists(section) == [k \in 1 .. nb + 1 |-> <<section, k - 1>>]
<1>0. PICK m \in Nat : m = nb + 1
  OBVIOUS
<1>1. ASSUME NEW section
      PROVE  /\ lists(section) \in Seq({section} \X (0 .. nb))
             /\ Len(lists(section)) = m
             /\ \A k \in 1 .. m : lists(section)[k] = <<section, k - 1>>
  <2>1. \A k \in 1 .. m : k - 1 \in 0 .. nb
    BY <1>0
  <2> QED  BY <1>0, <2>1
<1>2. ASSUME NEW section, work = lists(section), Range(Section[algorithm]) = {section}
      PROVE  IsInjective(work) /\ Range(work) = Range(Section[algorithm]) \X (0 .. nb)
  <2>1. /\ DOMAIN work = 1 .. m
        /\ \A k \in 1 .. m : work[k] = <<section, k - 1>>
    BY <1>0, <1>2
  <2> HIDE DEF lists
  <2>2. IsInjective(work)
    <3>1. ASSUME NEW k \in 1 .. m, NEW l \in 1 .. m, work[k] = work[l]
          PROVE  k = l
      <4>1. k - 1 = l - 1
        BY <2>1, <3>1
      <4> QED  BY <4>1
    <3> QED  BY <2>1, <3>1 DEF IsInjective
  <2>3. Range(work) = {section} \X (0 .. nb)
    <3>1. ASSUME NEW k \in 1 .. m  PROVE work[k] \in {section} \X (0 .. nb)
      <4>1. k - 1 \in 0 .. nb
        BY <1>0
      <4>2. work[k] = <<section, k - 1>>
        BY <2>1
      <4> QED  BY <4>1, <4>2
    <3>2. ASSUME NEW i \in 0 .. nb  PROVE <<section, i>> \in Range(work)
      <4>1. i + 1 \in 1 .. m /\ i + 1 - 1 = i
        BY <1>0
      <4>2. work[i + 1] = <<section, i>>
        BY <2>1, <4>1
      <4> QED  BY <2>1, <4>1, <4>2 DEF Range
    <3>3. Range(work) \subseteq {section} \X (0 .. nb)
      BY <2>1, <3>1 DEF Range
    <3>4. {section} \X (0 .. nb) \subseteq Range(work)
      BY <3>2
    <3> QED  BY <3>3, <3>4
  <2> QED  BY <1>2, <2>2, <2>3
<1>3. CASE algorithm = "CTPH"
  <2>1. work = lists("ctph") /\ Range(Section[algorithm]) = {"ctph"}
    BY <1>3 DEF Work, Section, Range
  <2> HIDE DEF lists
  <2> QED  BY <1>2, <2>1
<1>4. CASE algorithm = "SIMHASH"
  <2>1. work = lists("simhash") /\ Range(Section[algorithm]) = {"simhash"}
    BY <1>4 DEF Work, Section, Range
  <2> HIDE DEF lists
  <2> QED  BY <1>2, <2>1
<1>5. CASE algorithm = "ALL"
  <2> DEFINE a == lists("ctph")
             b == lists("simhash")
             S == {"ctph", "simhash"} \X (0 .. nb)
  <2>1. work = a \o b /\ Range(Section[algorithm]) = {"ctph", "simhash"}
    <3>1. Section[algorithm] = <<"ctph", "simhash">>
      BY <1>5 DEF Section
    <3>2. Work(<<"ctph", "simhash">>, nb) = a \o b
      BY DEF Work
    <3>3. Range(<<"ctph", "simhash">>) = {"ctph", "simhash"}
      BY DEF Range
    <3> QED  BY <3>1, <3>2, <3>3
  <2>2. /\ a \in Seq(S) /\ b \in Seq(S) /\ Len(a) = m /\ Len(b) = m
    <3>1. /\ Seq({"ctph"} \X (0 .. nb)) \subseteq Seq(S)
          /\ Seq({"simhash"} \X (0 .. nb)) \subseteq Seq(S)
      OBVIOUS
    <3> HIDE DEF lists, S
    <3> QED  BY <1>1, <3>1
  <2>3. \A k \in 1 .. m : a[k] = <<"ctph", k - 1>> /\ b[k] = <<"simhash", k - 1>>
    <3> HIDE DEF lists
    <3> QED  BY <1>1
  <2> HIDE DEF a, b, S, lists
  <2>4. /\ DOMAIN work = 1 .. m + m
        /\ \A k \in 1 .. m + m : work[k] = IF k <= m THEN a[k] ELSE b[k - m]
    <3>1. a \o b \in Seq(S) /\ Len(a \o b) = m + m
          /\ \A k \in 1 .. m + m : (a \o b)[k] = IF k <= m THEN a[k] ELSE b[k - m]
      <4>1. /\ a \o b \in Seq(S) /\ Len(a \o b) = Len(a) + Len(b)
            /\ \A k \in 1 .. Len(a) + Len(b) :
                 (a \o b)[k] = IF k <= Len(a) THEN a[k] ELSE b[k - Len(a)]
        BY <2>2, ConcatProperties
      <4> QED  BY <2>2, <4>1, Zenon
    <3> QED  BY <2>1, <3>1
  <2>5. ASSUME NEW k \in 1 .. m + m
        PROVE  \/ k <= m /\ work[k] = <<"ctph", k - 1>> /\ k - 1 \in 0 .. nb
               \/ ~(k <= m) /\ work[k] = <<"simhash", k - m - 1>> /\ k - m - 1 \in 0 .. nb
    <3>1. CASE k <= m
      <4>1. k \in 1 .. m /\ k - 1 \in 0 .. nb
        BY <1>0, <3>1
      <4> QED  BY <2>3, <2>4, <3>1, <4>1
    <3>2. CASE ~(k <= m)
      <4>1. k - m \in 1 .. m /\ k - m - 1 \in 0 .. nb
        BY <1>0, <3>2
      <4> QED  BY <2>3, <2>4, <3>2, <4>1
    <3> QED  BY <3>1, <3>2
  <2>6. IsInjective(work)
    <3>1. ASSUME NEW k \in 1 .. m + m, NEW l \in 1 .. m + m, work[k] = work[l]
          PROVE  k = l
      <4>1. CASE k <= m /\ l <= m
        <5>1. <<"ctph", k - 1>> = <<"ctph", l - 1>>
          BY <2>5, <3>1, <4>1
        <5>2. k - 1 = l - 1
          BY <5>1
        <5> QED  BY <5>2
      <4>2. CASE ~(k <= m) /\ ~(l <= m)
        <5>1. <<"simhash", k - m - 1>> = <<"simhash", l - m - 1>>
          BY <2>5, <3>1, <4>2
        <5>2. k - m - 1 = l - m - 1
          BY <5>1
        <5> QED  BY <5>2
      <4>3. CASE (k <= m) # (l <= m)
        BY <2>5, <3>1, <4>3
      <4> QED  BY <4>1, <4>2, <4>3
    <3> QED  BY <2>4, <3>1 DEF IsInjective
  <2>7. Range(work) = {"ctph", "simhash"} \X (0 .. nb)
    <3>1. ASSUME NEW k \in 1 .. m + m  PROVE work[k] \in {"ctph", "simhash"} \X (0 .. nb)
      <4>1. CASE k <= m
        <5>1. work[k] = <<"ctph", k - 1>> /\ k - 1 \in 0 .. nb
          BY <2>5, <4>1
        <5> QED  BY <5>1
      <4>2. CASE ~(k <= m)
        <5>1. work[k] = <<"simhash", k - m - 1>> /\ k - m - 1 \in 0 .. nb
          BY <2>5, <4>2
        <5> QED  BY <5>1
      <4> QED  BY <4>1, <4>2
    <3>2. ASSUME NEW i \in 0 .. nb
          PROVE  <<"ctph", i>> \in Range(work) /\ <<"simhash", i>> \in Range(work)
      <4>1. /\ i + 1 \in 1 .. m + m /\ i + 1 <= m /\ i + 1 - 1 = i
            /\ m + (i + 1) \in 1 .. m + m /\ ~(m + (i + 1) <= m)
            /\ m + (i + 1) - m - 1 = i
        BY <1>0
      <4>2. work[i + 1] = <<"ctph", i>>
        <5>1. work[i + 1] = <<"ctph", i + 1 - 1>>
          BY <2>5, <4>1
        <5> QED  BY <4>1, <5>1
      <4>3. work[m + (i + 1)] = <<"simhash", i>>
        <5>1. work[m + (i + 1)] = <<"simhash", m + (i + 1) - m - 1>>
          BY <2>5, <4>1
        <5> QED  BY <4>1, <5>1
      <4> QED  BY <2>4, <4>1, <4>2, <4>3 DEF Range
    <3>3. Range(work) \subseteq {"ctph", "simhash"} \X (0 .. nb)
      BY <2>4, <3>1 DEF Range
    <3>4. ASSUME NEW job \in {"ctph", "simhash"} \X (0 .. nb)  PROVE job \in Range(work)
      <4>1. PICK section \in {"ctph", "simhash"}, i \in 0 .. nb : job = <<section, i>>
        OBVIOUS
      <4> QED  BY <3>2, <4>1
    <3> QED  BY <3>3, <3>4
  <2> QED  BY <2>1, <2>6, <2>7
<1> QED  BY <1>3, <1>4, <1>5 DEF Section

(* What is done is no longer left to do.                                   *)
LEMMA HeadDone ==
  ASSUME NEW S, NEW work \in Seq(S), work # <<>>, IsInjective(work)
  PROVE  /\ IsInjective(Tail(work)) /\ Head(work) \in Range(work)
         /\ Range(Tail(work)) = Range(work) \ {Head(work)}
<1>1. PICK n \in Nat : Len(work) = n + 1
  <2>1. Len(work) \in Nat /\ Len(work) # 0
    BY EmptySeq
  <2>2. Len(work) - 1 \in Nat /\ Len(work) = Len(work) - 1 + 1
    BY <2>1
  <2> QED  BY <2>2
<1> DEFINE tail == Tail(work)
<1>2. /\ DOMAIN work = 1 .. n + 1 /\ DOMAIN tail = 1 .. n
      /\ \A k \in 1 .. n : tail[k] = work[k + 1]
      /\ Head(work) = work[1]
  BY <1>1
<1> HIDE DEF tail
<1>3. \A k, l \in 1 .. n + 1 : work[k] = work[l] => k = l
  BY <1>2 DEF IsInjective
<1>4. ASSUME NEW k \in 1 .. n, NEW l \in 1 .. n, tail[k] = tail[l]  PROVE k = l
  <2>1. k + 1 \in 1 .. n + 1 /\ l + 1 \in 1 .. n + 1
    OBVIOUS
  <2>2. k + 1 = l + 1
    BY <1>2, <1>3, <1>4, <2>1
  <2> QED  BY <2>2
<1>5. ASSUME NEW k \in 1 .. n  PROVE tail[k] \in Range(work) \ {work[1]}
  <2>1. k + 1 \in 1 .. n + 1 /\ 1 \in 1 .. n + 1 /\ k + 1 # 1
    OBVIOUS
  <2>2. work[k + 1] # work[1]
    BY <1>3, <2>1
  <2>3. work[k + 1] \in Range(work)
    BY <1>2, <2>1 DEF Range
  <2> QED  BY <1>2, <2>2, <2>3
<1>6. ASSUME NEW k \in 1 .. n + 1, work[k] # work[1]
      PROVE  \E l \in 1 .. n : tail[l] = work[k]
  <2>1. k - 1 \in 1 .. n /\ k - 1 + 1 = k
    BY <1>6
  <2> QED  BY <1>2, <2>1
<1>7. IsInjective(tail)
  BY <1>2, <1>4 DEF IsInjective
<1>8. Range(tail) = Range(work) \ {work[1]}
  <2>1. Range(tail) \subseteq Range(work) \ {work[1]}
    <3>1. ASSUME NEW x \in Range(tail)  PROVE \E k \in 1 .. n : x = tail[k]
      BY <1>2 DEF Range
    <3> QED  BY <1>5, <3>1
  <2>2. ASSUME NEW x \in Range(work) \ {work[1]}  PROVE x \in Range(tail)
    <3>1. PICK k \in 1 .. n + 1 : x = work[k]
      BY <1>2 DEF Range
    <3>2. PICK l \in 1 .. n : tail[l] = x
      BY <1>6, <2>2, <3>1
    <3> QED  BY <1>2, <3>2 DEF Range
  <2> QED  BY <2>1, <2>2
<1>9. work[1] \in Range(work)
  BY <1>2 DEF Range
<1> QED  BY <1>2, <1>7, <1>8, <1>9 DEF tail

(* Entries with all their hashes have different names.                     *)
LEMMA FullDistinct ==
  ASSUME NEW t, t.algorithm \in DOMAIN Section, Apart(t), Full(t)
  PROVE  Distinct(t.content, t.nb_files)
<1>1. PICK section \in HashKinds : section \in Range(Section[t.algorithm])
  BY DEF Section, HashKinds, Range
<1>2. ASSUME NEW x \in 1 .. t.nb_files  PROVE ~Bare(t.content[x])
  BY <1>1 DEF Full, Bare, HashKinds
<1> QED  BY <1>2 DEF Apart

(* The scores of different lists differ.                                   *)
LEMMA RatesApart ==
  ASSUME NEW t, t.nb_files \in Nat, Distinct(t.content, t.nb_files),
         NEW section, NEW section_2,
         NEW i \in 0 .. t.nb_files, NEW i_2 \in 0 .. t.nb_files,
         NEW r, r \in Rates(t, section, i), r \in Rates(t, section_2, i_2)
  PROVE  section = section_2 /\ i = i_2
<1>1. PICK nb \in Nat : nb = t.nb_files
  OBVIOUS
<1>2. i # 0 /\ i_2 # 0
  BY DEF Rates
<1>3. i \in 1 .. nb /\ i_2 \in 1 .. nb
  BY <1>1, <1>2
<1>4. PICK j \in 1 .. nb : r = Rated(t, section, i, j)
  BY <1>1, <1>2 DEF Rates
<1>5. PICK j_2 \in 1 .. nb : r = Rated(t, section_2, i_2, j_2)
  BY <1>1, <1>2 DEF Rates
<1>6. section = section_2 /\ t.content[i].name = t.content[i_2].name
  BY <1>4, <1>5 DEF Rated
<1>7. \A x, y \in 1 .. nb : t.content[x].name = t.content[y].name => x = y
  BY <1>1 DEF Distinct
<1> QED  BY <1>3, <1>6, <1>7

(* Another list has been made.                                             *)
LEMMA ListDone ==
  ASSUME NEW t, NEW u, t.nb_files \in Nat, t.algorithm \in DOMAIN Section,
         t.work \in WorkOf(t.nb_files), t.work # <<>>,
         Apart(t), Lists(t),
         NEW list \in Seq(Printable), t.out \in Seq(Printable),
         Full(t) =>
           Scored(list, Rates(t, Head(t.work)[1], Head(t.work)[2])),
         u.content = t.content, u.nb_files = t.nb_files,
         u.algorithm = t.algorithm, u.work = Tail(t.work),
         u.out = t.out \o list, u.pc = "compare"
  PROVE  Lists(u)
<1> DEFINE job == Head(t.work)
           before == Jobs(t) \ Range(t.work)
           after == Jobs(t) \ Range(Tail(t.work))
<1>1. /\ IsInjective(Tail(t.work)) /\ job \in Range(t.work)
      /\ Range(Tail(t.work)) = Range(t.work) \ {job}
  BY HeadDone DEF WorkOf, Lists
<1>2. Jobs(u) = Jobs(t) /\ (Full(u) <=> Full(t))
      /\ \A jobs : Wanted(u, jobs) = Wanted(t, jobs)
  BY DEF Jobs, Full, Wanted, Rates, Rated
<1>3. job \in Jobs(t) /\ after = before \cup {job} /\ job \notin before
  BY <1>1 DEF Lists
<1>4. ASSUME Full(t)  PROVE Scored(t.out \o list, Wanted(t, after))
  <2> DEFINE rates(j) == Rates(t, j[1], j[2])
  <2>1. Scored(t.out, Wanted(t, before)) /\ Scored(list, rates(job))
    BY <1>4 DEF Lists
  <2>2. Wanted(t, before) = UNION {rates(j) : j \in before}
        /\ Wanted(t, after) = UNION {rates(j) : j \in after}
    BY DEF Wanted
  <2>3. ASSUME NEW r \in Wanted(t, before)  PROVE r \notin rates(job)
    <3>1. SUFFICES ASSUME r \in rates(job)  PROVE FALSE
      OBVIOUS
    <3>2. PICK j \in before : r \in rates(j)
      BY <2>2
    <3>3. PICK s \in Range(Section[t.algorithm]), i \in 0 .. t.nb_files : job = <<s, i>>
      BY <1>3 DEF Jobs
    <3>4. PICK s_2 \in Range(Section[t.algorithm]), i_2 \in 0 .. t.nb_files : j = <<s_2, i_2>>
      BY DEF Jobs
    <3>5. r \in Rates(t, s, i) /\ r \in Rates(t, s_2, i_2)
      BY <3>1, <3>2, <3>3, <3>4
    <3>6. Distinct(t.content, t.nb_files)
      BY <1>4, FullDistinct
    <3>7. s = s_2 /\ i = i_2
      BY <3>5, <3>6, RatesApart
    <3> QED  BY <1>3, <3>3, <3>4, <3>7
  <2> HIDE DEF before, after, job, rates
  <2>4. Wanted(t, after) = Wanted(t, before) \cup rates(job)
    BY <1>3, <2>2
  <2>5. Scored(t.out \o list, Wanted(t, before) \cup rates(job))
    BY <2>1, <2>3, ScoredJoined
  <2> QED  BY <2>4, <2>5
<1>5. Range(Tail(t.work)) \subseteq Jobs(t) /\ Len(t.content) = t.nb_files + 1
  BY <1>1 DEF Lists
<1> QED  BY <1>1, <1>2, <1>4, <1>5 DEF Lists

LEMMA NoEntriesJoined ==
  ASSUME NEW a \in Seq(Printable), NEW b \in Seq(Printable),
         NoEntries(a), NoEntries(b)
  PROVE  NoEntries(a \o b)
<1>1. PICK m \in Nat, n \in Nat : m = Len(a) /\ n = Len(b)
  OBVIOUS
<1> DEFINE c == a \o b
<1>2. /\ Len(c) = m + n
      /\ \A k \in 1 .. m + n : c[k] = IF k <= m THEN a[k] ELSE b[k - m]
  BY <1>1, ConcatProperties
<1> HIDE DEF c
<1>3. ASSUME NEW k \in 1 .. m + n
      PROVE  \/ k \in 1 .. m /\ c[k] = a[k]
             \/ k - m \in 1 .. n /\ c[k] = b[k - m]
  <2>1. (k <= m /\ k \in 1 .. m) \/ (~(k <= m) /\ k - m \in 1 .. n)
    OBVIOUS
  <2> QED  BY <1>2, <2>1
<1>4. /\ \A k \in 1 .. m : ~IsHash(a[k]) /\ a[k].kind \notin {"name", "hole"}
      /\ \A k \in 1 .. n : ~IsHash(b[k]) /\ b[k].kind \notin {"name", "hole"}
  BY <1>1 DEF NoEntries
<1>5. NoEntries(c)
  BY <1>2, <1>3, <1>4 DEF NoEntries
<1> QED  BY <1>5 DEF c

LEMMA ChoosePair ==
  ASSUME PairInv, BackInv', NEW p \in Process, Choose(p)
  PROVE  PairInv'
<1> DEFINE t == tbt[p]
           work == Work(Section[Chosen(t)], t.nb_files)
           u == [t EXCEPT !.pc = "compare", !.algorithm = Chosen(t), !.work = work]
<1>1. /\ Step(p) /\ t.pc = "choose" /\ DOMAIN t = Field /\ Typed(t)
      /\ t.nb_files \in Nat /\ Nameless(t)
  BY DEF Step, Choose, PairInv, BackInv, ReadInv, TypeInv, TbtInv, Memories, IsMemory
<1>2. CASE Exit(p, 1)
  BY <1>1, <1>2, ExitPair
<1>3. CASE Set(p, u) /\ UNCHANGED fs
  <2>1. /\ u.command = t.command /\ u.OUTPUT = t.OUTPUT /\ u.pc = "compare"
        /\ u.settled = t.settled /\ u.nb_files = t.nb_files
        /\ u.content = t.content /\ u.algorithm = Chosen(t) /\ u.work = work
        /\ u.out = t.out
    BY <1>1 DEF Field
  <2>2. Chosen(t) \in DOMAIN Section
    BY <1>1, ChosenType DEF Typed
  <2>3. IsInjective(work) /\ Range(work) = Range(Section[Chosen(t)]) \X (0 .. t.nb_files)
    BY <1>1, <2>2, WorkIsAll
  <2> HIDE DEF u, work
  <2>4. Nameless(u)
    BY <1>1, <2>1 DEF Nameless
  <2>5. t.command.mode = "compare" /\ t.out = <<>> /\ Len(t.content) = t.nb_files + 1
    BY <1>1 DEF Typed, IsCommand, Places, Nameless
  <2>6. ASSUME t.settled, Alone(tbt, t.command.argument)  PROVE Tells(u, In(p))
    <3>1. Tells(t, In(p))
      BY <2>6 DEF PairInv
    <3>2. Apart(u)
      BY <1>1, <2>1, <3>1 DEF Tells, Apart, Clean
    <3>3. Jobs(u) = Range(u.work) /\ IsInjective(u.work)
      BY <2>1, <2>3 DEF Jobs
    <3>4. Wanted(u, Jobs(u) \ Range(u.work)) = {}
      BY <3>3 DEF Wanted
    <3>5. Scored(u.out, {})
      <4>1. \A k \in 1 .. Len(<<>>) : FALSE
        OBVIOUS
      <4>2. Scored(<<>>, {})
        BY <4>1, NoneScored
      <4> QED  BY <2>1, <2>5, <4>2
    <3>6. Lists(u)
      BY <2>1, <2>5, <3>3, <3>4, <3>5 DEF Lists
    <3> QED  BY <2>1, <3>2, <3>6 DEF Tells
  <2> QED  BY <1>1, <1>3, <2>1, <2>4, <2>6, PairKept DEF In
<1> QED  BY <1>2, <1>3 DEF Choose

(* What a process that compares prints.                                    *)
LEMMA ListPair ==
  ASSUME PairInv, BackInv', NEW p \in Process, Step(p), UNCHANGED fs,
         tbt[p].pc = "compare", tbt[p].work # <<>>,
         NEW list \in Seq(Printable), NoEntries(list),
         tbt[p].settled /\ Alone(tbt, tbt[p].command.argument) /\ Full(tbt[p]) =>
           Scored(list, Rates(tbt[p], Head(tbt[p].work)[1], Head(tbt[p].work)[2])),
         NEW u, Set(p, u),
         u = [tbt[p] EXCEPT !.work = Tail(tbt[p].work), !.out = tbt[p].out \o list]
  PROVE  PairInv'
<1> DEFINE t == tbt[p]
<1>1. /\ DOMAIN t = Field /\ Typed(t) /\ t.nb_files \in Nat /\ Nameless(t)
  BY DEF PairInv, BackInv, ReadInv, TypeInv, TbtInv, Memories, IsMemory
<1>2. /\ u.command = t.command /\ u.OUTPUT = t.OUTPUT /\ u.pc = "compare"
      /\ u.settled = t.settled /\ u.nb_files = t.nb_files
      /\ u.content = t.content /\ u.algorithm = t.algorithm
      /\ u.work = Tail(t.work) /\ u.out = t.out \o list
  BY <1>1 DEF Field
<1>3. /\ t.out \in Seq(Printable) /\ t.algorithm \in DOMAIN Section
      /\ t.work \in WorkOf(t.nb_files)
  BY <1>1 DEF Typed
<1>4. Nameless(u)
  <2>1. t.command.mode = "compare" => NoEntries(u.out)
    BY <1>1, <1>2, <1>3, NoEntriesJoined DEF Nameless
  <2> QED  BY <1>2, <2>1 DEF Nameless
<1>5. ASSUME t.settled, Alone(tbt, t.command.argument)  PROVE Tells(u, In(p))
  <2>1. Apart(t) /\ Lists(t)
    BY <1>5 DEF PairInv, Tells
  <2>2. Apart(u)
    BY <1>2, <2>1 DEF Apart, Clean
  <2>3. Full(t) => Scored(list, Rates(t, Head(t.work)[1], Head(t.work)[2]))
    BY <1>5
  <2>4. t.work # <<>>
    OBVIOUS
  <2> HIDE DEF t
  <2>5. Lists(u)
    BY <1>1, <1>2, <1>3, <2>1, <2>3, <2>4, ListDone
  <2> QED  BY <1>2, <2>2, <2>5 DEF Tells
<1> QED  BY <1>2, <1>4, <1>5, PairKept DEF In

LEMMA HeadingPair ==
  ASSUME PairInv, BackInv', NEW p \in Process, Heading(p)
  PROVE  PairInv'
<1> DEFINE t == tbt[p]
           line == Line("head", Head(t.work)[1])
           u == [t EXCEPT !.work = Tail(@), !.out = Append(@, line)]
<1>1. /\ Typed(t) /\ DOMAIN t = Field /\ t.pc = "compare" /\ t.work # <<>>
      /\ Set(p, u) /\ Head(t.work)[2] = 0 /\ UNCHANGED fs /\ Step(p)
  BY DEF PairInv, BackInv, ReadInv, TypeInv, TbtInv, Memories, IsMemory, Heading, Step
<1>2. t.out \in Seq(Printable) /\ t.work \in WorkOf(t.nb_files)
  BY <1>1 DEF Typed
<1>3. Head(t.work)[1] \in {"ctph", "simhash"}
  BY <1>1, <1>2 DEF WorkOf
<1>4. line \in Printable /\ line.kind = "head"
  <2>1. line \in Printable
    BY <1>3, LineIsPrintable, TextsOfKinds DEF Kinds
  <2> QED  BY <2>1 DEF Line
<1> HIDE DEF line
<1>5. Append(t.out, line) = t.out \o <<line>> /\ <<line>> \in Seq(Printable)
  <2>1. \A out \in Seq(Printable) : Append(out, line) = out \o <<line>>
    BY <1>4, AppendIsConcat
  <2> QED  BY <1>2, <1>4, <2>1
<1>6. Len(<<line>>) = 1 /\ <<line>>[1] = line /\ \A k \in 1 .. 1 : k = 1
  OBVIOUS
<1>7. NoEntries(<<line>>)
  BY <1>4, <1>6 DEF NoEntries, IsHash
<1>8. Scored(<<line>>, Rates(t, Head(t.work)[1], Head(t.work)[2]))
  <2>1. Scored(<<line>>, {})
    BY <1>4, <1>6, NoneScored
  <2> QED  BY <1>1, <2>1 DEF Rates
<1>9. u = [t EXCEPT !.work = Tail(t.work), !.out = t.out \o <<line>>]
  BY <1>5
<1> HIDE DEF u
<1> QED  BY <1>1, <1>5, <1>7, <1>8, <1>9, ListPair

LEMMA CompareNextPair ==
  ASSUME PairInv, BackInv', NEW p \in Process, CompareNext(p)
  PROVE  PairInv'
<1> DEFINE t == tbt[p]
<1>1. PICK section, i, percentage, order :
        /\ section = Head(t.work)[1] /\ i = Head(t.work)[2] /\ i # 0
        /\ percentage \in Percentages(t, section, i)
        /\ Comparison(t, section, i, percentage, order)
        /\ \A k \in 1 .. t.nb_files - 1 :
             percentage[order[k]] >= percentage[order[k + 1]]
        /\ \A k, l \in 1 .. t.nb_files : order[k] = order[l] => k = l
        /\ Set(p, [t EXCEPT !.work = Tail(@),
                            !.out = @ \o List(t, section, i, percentage, order)])
  BY CompareNextSorts DEF PairInv, BackInv, ReadInv
<1>2. /\ Typed(t) /\ DOMAIN t = Field /\ t.pc = "compare" /\ t.work # <<>>
      /\ UNCHANGED fs /\ Step(p)
  BY DEF PairInv, BackInv, ReadInv, TypeInv, TbtInv, Memories, IsMemory, CompareNext,
         Step
<1> DEFINE list == List(t, section, i, percentage, order)
           u == [t EXCEPT !.work = Tail(t.work), !.out = t.out \o list]
<1>3. Set(p, u)
  BY <1>1
<1>4. list \in Seq(Printable) /\ NoEntries(list)
  BY <1>1, ListFalls
<1>5. ASSUME t.settled, Alone(tbt, t.command.argument), Full(t)
      PROVE  Scored(list, Rates(t, section, i))
  <2>1. Apart(t) /\ Lists(t)
    BY <1>2, <1>5 DEF PairInv, Tells
  <2>2. Distinct(t.content, t.nb_files)
    BY <1>2, <1>5, <2>1, FullDistinct DEF Typed
  <2>3. section \in Range(Section[t.algorithm])
    <3>1. Head(t.work) \in Range(t.work)
      BY <1>2, <2>1, HeadDone DEF Typed, WorkOf, Lists
    <3>2. Head(t.work) \in Range(Section[t.algorithm]) \X (0 .. t.nb_files)
      BY <2>1, <3>1 DEF Lists, Jobs
    <3> QED  BY <1>1, <3>2
  <2>4. /\ \A j \in 1 .. t.nb_files : t.content[j] \in Entries
        /\ section \in HashKinds /\ i \in 1 .. t.nb_files
    BY <1>1 DEF Comparison
  <2>5. ASSUME NEW j \in 1 .. t.nb_files
        PROVE  t.content[j][section] \in Texts(section) \ {Unset, NullText}
    <3>1. t.content[j][section] \in Texts(section)
      <4>1. t.content[j][section] \in HashTexts(section)
        BY <2>4 DEF Entries, HashKinds
      <4>2. t.content[j][section] # Scrap
        BY <2>1, <2>4 DEF Apart, Clean
      <4> QED  BY <4>1, <4>2 DEF HashTexts
    <3>2. t.content[j][section] \notin {Unset, NullText}
      BY <1>5, <2>3 DEF Full
    <3> QED  BY <3>1, <3>2
  <2>6. ASSUME NEW j \in 1 .. t.nb_files
        PROVE  percentage[j] = Worth(section, t.content[i][section], t.content[j][section])
    <3> DEFINE text_1 == t.content[i][section]
               text_2 == t.content[j][section]
    <3>1. percentage[j] \in Likeness(section, text_1, text_2)
      BY <1>1 DEF Percentages
    <3>2. /\ text_1 \in Texts(section) \ {Unset, NullText}
          /\ text_2 \in Texts(section) \ {Unset, NullText}
      BY <2>4, <2>5
    <3> HIDE DEF text_1, text_2
    <3>3. Likeness(section, text_1, text_2) = {Worth(section, text_1, text_2)}
      BY <2>4, <3>2, LikenessIs
    <3>4. percentage[j] = Worth(section, text_1, text_2)
      BY <3>1, <3>3
    <3> QED  BY <3>4 DEF text_1, text_2
  <2> HIDE DEF t
  <2> QED  BY <1>1, <2>2, <2>6, ListScored
<1> HIDE DEF list
<1>6. /\ t.settled /\ Alone(tbt, t.command.argument) /\ Full(t) =>
           Scored(list, Rates(t, Head(t.work)[1], Head(t.work)[2]))
  BY <1>1, <1>5
<1>7. PICK v : v = u
  OBVIOUS
<1> QED  BY <1>2, <1>3, <1>4, <1>6, <1>7, ListPair

LEMMA ComparedPair ==
  ASSUME PairInv, BackInv', NEW p \in Process, Compared(p)
  PROVE  PairInv'
<1> DEFINE t == tbt[p]
           u == [t EXCEPT !.pc = "close"]
<1>1. /\ DOMAIN t = Field /\ t.pc = "compare" /\ t.work = <<>> /\ Set(p, u)
      /\ UNCHANGED fs /\ Nameless(t) /\ Step(p)
  BY DEF PairInv, BackInv, ReadInv, TypeInv, TbtInv, Memories, IsMemory, Compared,
         Goto, Step
<1>2. /\ u.command = t.command /\ u.OUTPUT = t.OUTPUT /\ u.pc = "close"
      /\ u.settled = t.settled /\ u.nb_files = t.nb_files
      /\ u.content = t.content /\ u.algorithm = t.algorithm
      /\ u.work = t.work /\ u.out = t.out
  BY <1>1 DEF Field
<1> HIDE DEF u
<1>3. Nameless(u)
  BY <1>1, <1>2 DEF Nameless
<1>4. ASSUME t.settled, Alone(tbt, t.command.argument)  PROVE Tells(u, In(p))
  <2>1. Apart(t) /\ Lists(t)
    BY <1>1, <1>4 DEF PairInv, Tells
  <2>2. Apart(u)
    BY <1>2, <2>1 DEF Apart, Clean
  <2>3. /\ Jobs(u) = Jobs(t) /\ (Full(u) <=> Full(t))
        /\ \A jobs : Wanted(u, jobs) = Wanted(t, jobs)
    BY <1>2 DEF Jobs, Full, Wanted, Rates, Rated
  <2>4. Lists(u)
    BY <1>1, <1>2, <2>1, <2>3 DEF Lists
  <2> QED  BY <1>2, <2>2, <2>4 DEF Tells
<1> QED  BY <1>1, <1>2, <1>3, <1>4, PairKept DEF In

-----------------------------------------------------------------------------
(***************************************************************************)
(* What has been listed in the end.                                        *)
(***************************************************************************)

(* The scores are those of the hashes of the executables.                  *)
LEMMA WorthIsExpected ==
  ASSUME NEW section \in HashKinds, NEW n \in Names, NEW m \in Names,
         Sample[n][section] # NullText, Sample[m][section] # NullText
  PROVE  Worth(section, Sample[n][section], Sample[m][section])
           = Expected(section, n, m)
<1>1. CASE section = "ctph"
  BY <1>1 DEF Worth, Expected
<1>2. CASE section = "simhash"
  <2>1. PICK a \in DOMAIN Bytes \ {NullText} : a = Sample[n].simhash
    BY <1>2, TbtAssumption DEF Names
  <2>2. PICK b \in DOMAIN Bytes \ {NullText} : b = Sample[m].simhash
    BY <1>2, TbtAssumption DEF Names
  <2>3. Worth(section, Sample[n][section], Sample[m][section])
          = compare_hash(Bytes[a], Bytes[b])
    BY <1>2, <2>1, <2>2 DEF Worth
  <2>4. Expected(section, n, m) = Alike[<<a, b>>]
    BY <1>2, <2>1, <2>2 DEF Expected
  <2> DEFINE differ == Differ(Bytes[a], Bytes[b])
             bits == 8 * SIM_HASH_SIZE
  <2>5. Alike[<<a, b>>] = IF 2 * differ >= bits THEN 0
                          ELSE (100 * Percent * (bits - 2 * differ)) \div bits
    <3>1. Range(<<a, b>>) = {a, b}
      BY DEF Range
    <3>2. <<a, b>> \in {pair \in (DOMAIN Bytes) \X (DOMAIN Bytes) :
                          NullText \notin Range(pair)}
      BY <3>1
    <3> QED  BY <3>2 DEF Alike
  <2>6. differ = Hamming(Bytes[a], Bytes[b])
    BY DifferIsHamming, TbtAssumption
  <2>7. differ \in 0 .. 8 * SIM_HASH_SIZE
    BY <2>6, HammingBounded
  <2> HIDE DEF differ
  <2>8. Rescaled(differ) = IF 2 * differ >= bits THEN 0
                           ELSE (100 * Percent * (bits - 2 * differ)) \div bits
    BY <2>7, RescaledIs
  <2>9. compare_hash(Bytes[a], Bytes[b]) = Rescaled(differ)
    BY <2>6 DEF compare_hash
  <2> QED  BY <2>3, <2>4, <2>5, <2>8, <2>9
<1> QED  BY <1>1, <1>2 DEF HashKinds

(* The hashes of an entry that has them all are those of its name.         *)
LEMMA EntryHashes ==
  ASSUME NEW t, t.nb_files \in Nat, Len(t.content) = t.nb_files + 1,
         t.algorithm \in DOMAIN Section,
         Distinct(t.content, t.nb_files), Clean(t), Matched(t.content), Full(t),
         NEW i \in 1 .. t.nb_files, NEW section \in Range(Section[t.algorithm])
  PROVE  /\ t.content[i].name \in Names \ {Unset} /\ section \in HashKinds
         /\ t.content[i][section] = Sample[t.content[i].name][section]
         /\ t.content[i][section] # NullText
<1>1. PICK nb \in Nat : nb = t.nb_files
  OBVIOUS
<1>2. i \in 1 .. Len(t.content)
  BY <1>1
<1>3. t.content[i].name \in Names \ {Unset}
  BY TbtAssumption DEF Distinct, Names
<1>4. section \in HashKinds
  BY DEF Section, HashKinds, Range
<1>5. t.content[i][section] \in {Unset, Sample[t.content[i].name][section]}
  BY <1>2, <1>3, <1>4 DEF Matched, Clean
<1>6. t.content[i][section] \notin {Unset, NullText}
  BY DEF Full
<1> QED  BY <1>3, <1>4, <1>5, <1>6

(* All pairs of entries, with what they have in common.                    *)
Pairs(t) ==
  LET names == {t.content[k].name : k \in 1 .. t.nb_files} \ {Unset}
  IN {r \in {[section |-> section, of |-> n, name |-> m,
              percentage |-> Expected(section, n, m)] :
               section \in Range(Section[t.algorithm]),
               n \in names, m \in names} :
        r.of # r.name /\ r.percentage # 0}

(* All lists together list all pairs.                                      *)
LEMMA WantedIsAll ==
  ASSUME NEW t, t.nb_files \in Nat, Len(t.content) = t.nb_files + 1,
         t.algorithm \in DOMAIN Section,
         Distinct(t.content, t.nb_files), Clean(t), Matched(t.content), Full(t)
  PROVE  Wanted(t, Jobs(t)) = Pairs(t)
<1> DEFINE names == {t.content[k].name : k \in 1 .. t.nb_files} \ {Unset}
           sections == Range(Section[t.algorithm])
           pair(section, n, m) == [section |-> section, of |-> n, name |-> m,
                                   percentage |-> Expected(section, n, m)]
           pairs == {pair(section, n, m) : section \in sections, n \in names, m \in names}
<1>1. PICK nb \in Nat : nb = t.nb_files
  OBVIOUS
<1>2. ASSUME NEW section \in sections, NEW i \in 1 .. nb, NEW j \in 1 .. nb
      PROVE  /\ t.content[i].name \in names /\ t.content[j].name \in names
             /\ Rated(t, section, i, j) =
                  pair(section, t.content[i].name, t.content[j].name)
  <2>1. PICK n \in Names, m \in Names : n = t.content[i].name /\ m = t.content[j].name
    BY <1>1, EntryHashes
  <2>2. /\ n # Unset /\ m # Unset /\ section \in HashKinds
        /\ t.content[i][section] = Sample[n][section]
        /\ t.content[j][section] = Sample[m][section]
        /\ Sample[n][section] # NullText /\ Sample[m][section] # NullText
    <3>1. ASSUME NEW k \in 1 .. nb
          PROVE  /\ t.content[k].name \in Names \ {Unset} /\ section \in HashKinds
                 /\ t.content[k][section] = Sample[t.content[k].name][section]
                 /\ t.content[k][section] # NullText
      BY <1>1, EntryHashes
    <3>2. /\ t.content[i].name \in Names \ {Unset} /\ section \in HashKinds
          /\ t.content[i][section] = Sample[t.content[i].name][section]
          /\ t.content[i][section] # NullText
      BY <3>1
    <3>3. /\ t.content[j].name \in Names \ {Unset}
          /\ t.content[j][section] = Sample[t.content[j].name][section]
          /\ t.content[j][section] # NullText
      BY <3>1
    <3> QED  BY <2>1, <3>2, <3>3
  <2>3. Worth(section, t.content[i][section], t.content[j][section])
          = Expected(section, n, m)
    BY <2>2, WorthIsExpected
  <2> QED  BY <1>1, <2>1, <2>2, <2>3 DEF Rated
<1>3. ASSUME NEW r \in Wanted(t, Jobs(t))  PROVE r \in pairs /\ Shown(r)
  <2>1. PICK job \in Jobs(t) : r \in Rates(t, job[1], job[2])
    BY DEF Wanted
  <2>2. PICK section \in sections, i \in 0 .. nb : job = <<section, i>>
    BY <1>1 DEF Jobs
  <2>3. r \in Rates(t, section, i)
    BY <2>1, <2>2
  <2>4. i \in 1 .. nb
    BY <2>3 DEF Rates
  <2>5. PICK j \in 1 .. nb : r = Rated(t, section, i, j) /\ Shown(r)
    BY <1>1, <2>3, <2>4 DEF Rates
  <2> HIDE DEF pair, names, sections
  <2>6. /\ r = pair(section, t.content[i].name, t.content[j].name)
        /\ t.content[i].name \in names /\ t.content[j].name \in names
    BY <1>2, <2>4, <2>5
  <2> QED  BY <2>5, <2>6
<1>4. ASSUME NEW r \in pairs, Shown(r)  PROVE r \in Wanted(t, Jobs(t))
  <2>1. PICK section \in sections, n \in names, m \in names : r = pair(section, n, m)
    OBVIOUS
  <2>2. PICK i \in 1 .. nb : t.content[i].name = n
    BY <1>1
  <2>3. PICK j \in 1 .. nb : t.content[j].name = m
    BY <1>1
  <2>4. r = Rated(t, section, i, j)
    <3> HIDE DEF pair, names, sections, pairs
    <3>1. Rated(t, section, i, j) = pair(section, t.content[i].name, t.content[j].name)
      BY <1>2
    <3> QED  BY <2>1, <2>2, <2>3, <3>1
  <2>5. i # 0 /\ i \in 0 .. nb
    OBVIOUS
  <2>6. r \in Rates(t, section, i)
    BY <1>1, <1>4, <2>4, <2>5 DEF Rates
  <2>7. <<section, i>> \in Jobs(t) /\ <<section, i>>[1] = section /\ <<section, i>>[2] = i
    BY <1>1, <2>5 DEF Jobs
  <2> QED  BY <2>6, <2>7 DEF Wanted
<1>5. Pairs(t) = {r \in pairs : r.of # r.name /\ r.percentage # 0}
  BY DEF Pairs
<1> HIDE DEF pairs
<1> QED  BY <1>3, <1>4, <1>5 DEF Shown

(* The scores printed, by the places of their lines.                       *)
LEMMA ScoredListed ==
  ASSUME NEW t, t.out \in Seq(Printable), NEW texts, Scored(t.out, texts)
  PROVE  IsInjective(Listed(t)) /\ Range(Listed(t)) = texts
<1> DEFINE places == {k \in 1 .. Len(t.out) : t.out[k].kind = "score"}
           listed == [k \in places |-> t.out[k].text]
<1>1. Listed(t) = listed
  <2>1. DOMAIN t.out = 1 .. Len(t.out)
    OBVIOUS
  <2> QED  BY <2>1 DEF Listed
<1>2. DOMAIN listed = places /\ \A k \in places : listed[k] = t.out[k].text
  OBVIOUS
<1>3. \A k, l \in places : t.out[k].text = t.out[l].text => k = l
  BY DEF Scored
<1>4. \A k \in places : t.out[k].text \in texts
  BY DEF Scored
<1>5. \A r \in texts : \E k \in places : t.out[k].text = r
  BY DEF Scored
<1> HIDE DEF listed, places
<1>6. IsInjective(listed)
  BY <1>2, <1>3 DEF IsInjective
<1>7. Range(listed) = texts
  <2>1. \A x \in Range(listed) : x \in texts
    BY <1>2, <1>4 DEF Range
  <2>2. \A x \in texts : x \in Range(listed)
    BY <1>2, <1>5 DEF Range
  <2> QED  BY <2>1, <2>2
<1> QED  BY <1>1, <1>6, <1>7

-----------------------------------------------------------------------------

(* Before any step nothing has been printed, and nobody reads.             *)
THEOREM PairInvInit ==
  Init => PairInv
<1> SUFFICES ASSUME Init  PROVE PairInv
  OBVIOUS
<1>1. BackInv
  BY BackInvInit
<1>2. \A p \in Process : tbt[p].out = <<>> /\ ~tbt[p].settled
  BY DEF Init, Begin
<1>3. NoEntries(<<>>)
  <2>1. \A k \in 1 .. Len(<<>>) : FALSE
    OBVIOUS
  <2> QED  BY <2>1 DEF NoEntries
<1> QED  BY <1>1, <1>2, <1>3 DEF PairInv, Nameless

LEMMA PairInvStep ==
  ASSUME PairInv, BackInv', NEW p \in Process, Step(p)
  PROVE  PairInv'
<1>1. CASE Access(p)        BY <1>1, AccessPair
<1>2. CASE Create(p)        BY <1>2, CreatePair
<1>3. CASE Stat(p)          BY <1>3, StatPair
<1>4. CASE treat_dir(p)     BY <1>4, TreatPair
<1>5. CASE Fopen(p)         BY <1>5, FopenPair
<1>6. CASE CountLine(p)     BY <1>6, CountLinePair
<1>7. CASE CountEnd(p)      BY <1>7, CountEndPair
<1>8. CASE WrongNumber(p)   BY <1>8, ExitPair DEF WrongNumber
<1>9. CASE ParseName(p)     BY <1>9, ParseNamePair
<1>10. CASE ParseHash(p)    BY <1>10, ParseHashPair
<1>11. CASE ParseNothing(p) BY <1>11, ParseNothingPair
<1>12. CASE Choose(p)       BY <1>12, ChoosePair
<1>13. CASE Heading(p)      BY <1>13, HeadingPair
<1>14. CASE CompareNext(p)  BY <1>14, CompareNextPair
<1>15. CASE Compared(p)     BY <1>15, ComparedPair
<1>16. CASE close_output(p) BY <1>16, ExitPair DEF close_output
<1> QED
  BY <1>1, <1>2, <1>3, <1>4, <1>5, <1>6, <1>7, <1>8, <1>9, <1>10, <1>11,
     <1>12, <1>13, <1>14, <1>15, <1>16 DEF Step

(* Every step of a reader takes entries of different names, or leaves one  *)
(* without a hash, and lists what is not left to do.                       *)
THEOREM PairInvNext ==
  PairInv /\ [Next]_vars => PairInv'
<1> SUFFICES ASSUME PairInv, [Next]_vars  PROVE PairInv'
  OBVIOUS
<1>1. BackInv'
  BY BackInvNext DEF PairInv
<1>2. ASSUME NEW p \in Process, Step(p)  PROVE PairInv'
  BY <1>1, <1>2, PairInvStep
<1>3. ASSUME NEW p \in Process, Flush(p)  PROVE PairInv'
  BY <1>1, <1>3, FlushPair
<1>4. ASSUME NEW p \in Process, Killed(p)  PROVE PairInv'
  BY <1>1, <1>4, GotoPair DEF Killed
<1>5. CASE UNCHANGED vars
  BY <1>1, <1>5 DEF PairInv, Nameless, Tells, Alone, Sole, In, vars
<1> QED  BY <1>2, <1>3, <1>4, <1>5 DEF Next, Done

(* For any number of runs and any hash files that name each executable     *)
(* once: a comparison that has succeeded, of a file nobody was writing and *)
(* with no hash missing, has listed every ordered pair of entries with the *)
(* likeness of their hashes, exactly once in each section, and no other    *)
(* pair (src/tbt.c:91 and 113, src/simhash.c:142).                         *)
THEOREM EveryPairIsListed ==
  Spec => []ListsEveryPair
<1>1. ASSUME PairInv  PROVE ListsEveryPair
  <2>1. ASSUME NEW p \in Process, tbt[p].pc = "close", Full(tbt[p]), tbt[p].settled,
               OneWriter(tbt[p].command.argument)
        PROVE  IsInjective(Listed(tbt[p])) /\ Range(Listed(tbt[p])) = Pairs(tbt[p])
    <3> DEFINE t == tbt[p]
    <3>1. Alone(tbt, t.command.argument)
      BY <2>1 DEF OneWriter, Writers, Alone, Sole
    <3>2. Apart(t) /\ Clean(t) /\ Lists(t)
      BY <1>1, <2>1, <3>1 DEF PairInv, Tells, Apart
    <3>3. Matched(t.content)
      BY <1>1, <2>1, <3>1, AloneIsTidy DEF Reader
    <3>4. /\ t.nb_files \in Nat /\ t.algorithm \in DOMAIN Section
          /\ t.out \in Seq(Printable)
      BY <1>1 DEF PairInv, BackInv, ReadInv, TypeInv, TbtInv, Memories, IsMemory, Typed
    <3>5. Distinct(t.content, t.nb_files)
      BY <2>1, <3>2, <3>4, FullDistinct
    <3>6. t.work = <<>> /\ Len(t.content) = t.nb_files + 1
      BY <2>1, <3>2 DEF Lists
    <3>7. Jobs(t) \ Range(t.work) = Jobs(t)
      <4>1. Range(<<>>) = {}
        BY DEF Range
      <4> QED  BY <3>6, <4>1
    <3>8. Scored(t.out, Wanted(t, Jobs(t)))
      BY <2>1, <3>2, <3>7 DEF Lists
    <3>9. IsInjective(Listed(t)) /\ Range(Listed(t)) = Wanted(t, Jobs(t))
      BY <3>4, <3>8, ScoredListed
    <3>10. Wanted(t, Jobs(t)) = Pairs(t)
      BY <2>1, <3>2, <3>3, <3>4, <3>5, <3>6, WantedIsAll
    <3> QED  BY <3>9, <3>10
  <2>2. ListsEveryPair <=>
          \A p \in Process :
            /\ tbt[p].command.mode = "compare" /\ tbt[p].pc = "close" /\ Full(tbt[p])
            /\ tbt[p].settled /\ OneWriter(tbt[p].command.argument)
            => IsInjective(Listed(tbt[p])) /\ Range(Listed(tbt[p])) = Pairs(tbt[p])
    BY DEF ListsEveryPair, Full, Pairs
  <2> QED  BY <2>1, <2>2
<1> QED  BY <1>1, PairInvInit, PairInvNext, PTL DEF Spec

=============================================================================
