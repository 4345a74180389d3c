------------------------------ MODULE Fastrand ------------------------------
(***************************************************************************)
(* Rng.u16 (src/src/deps/fastrand.ts): a port out of an inclusive range,   *)
(* by Lemire's method, as a function of the words that the generator       *)
(* yields.  The wyrand step may yield any word.  The widths are constants. *)
(***************************************************************************)
EXTENDS Integers, Sequences

CONSTANTS
  PortCount,  \* 2^16 in the code
  WordCount   \* 2^32 in the code, and 2^64 for the full range

ASSUME CountAssumption ==
  PortCount \in Nat \ {0} /\ WordCount \in Nat /\ WordCount >= PortCount

Port == 0 .. PortCount - 1
Word == 0 .. WordCount - 1

Span(low, high) == high - low + 1

Hi(r, n) == (r * n) \div WordCount
Lo(r, n) == (r * n) % WordCount

\* Mutant: the remainder of the wrong difference.
ThresholdOff(n) == (WordCount - 1) % n

\* 2^32 mod n, computed without leaving 32 bits.
Threshold(n) == ((WordCount - n) % WordCount) % n

\* The words on which the first draw returns, and those on which a later one does.
First(n) == {r \in Word : Lo(r, n) >= n \/ Lo(r, n) >= Threshold(n)}
Later(n) == {r \in Word : Lo(r, n) >= Threshold(n)}

\* The draw that genModU32 returns from; 0 if the words do not suffice.
Accepts(words, i, n) == words[i] \in (IF i = 1 THEN First(n) ELSE Later(n))
LastDraw(words, n) ==
  IF \E i \in DOMAIN words : Accepts(words, i, n)
  THEN CHOOSE i \in DOMAIN words :
         Accepts(words, i, n) /\ \A j \in 1 .. i - 1 : ~Accepts(words, j, n)
  ELSE 0

\* The ports u16 may return: none for an empty range, which throws, nor while
\* the loop goes on.
U16(low, high, words) ==
  LET n == Span(low, high)
      draw == LastDraw(words, n)
  IN
  IF low > high THEN {}
  ELSE IF low = 0 /\ high = PortCount - 1 THEN {words[1] % PortCount}
  ELSE IF draw = 0 THEN {} ELSE {low + Hi(words[draw], n)}
=============================================================================
