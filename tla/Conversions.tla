---------------------------- MODULE Conversions -----------------------------
(***************************************************************************)
(* Conversions that have an inverse: the times of TimeConvert              *)
(* (lib/sys/timeconvert.cpp) and the netmasks of Ipv4Address               *)
(* (lib/communication/ipv4address.cpp), with words of W bits where the     *)
(* code has 32, and the units and the offset in proportion.  Times given   *)
(* as double are left out.                                                 *)
(***************************************************************************)
EXTENDS Integers

CONSTANTS
  W,              \* bits of a word
  Micro, Nano,    \* 1000000 and 1000000000: units in a second
  ntpSecondOffset \* seconds from the epoch of ntp to the one of unix

(* 2^n, as a function, so that it can be reasoned about.                   *)
Power2[n \in 0..(2 * W)] == IF n = 0 THEN 1 ELSE 2 * Power2[n - 1]

ASSUME ConversionsAssumption ==
  /\ W \in Nat
  /\ {Micro, Nano} \subseteq 1..(Power2[W] - 1)
  /\ ntpSecondOffset \in 0..(Power2[W] - 1)

VARIABLE input \* what is converted

word(n)  == n % Power2[W]     \* the cast to uint32_t
dword(n) == n % Power2[2 * W] \* the arithmetic of uint64_t

-----------------------------------------------------------------------------
(* microseconds2Ntpfraction(), nanoseconds2Ntpfraction()                   *)
Ntpfraction(n, unit) == word(dword(n * Power2[W]) \div unit)

(* nanoseconds2NtpStruct(): the seconds stay in what is shifted.           *)
nanoseconds2NtpStruct(n) ==
  [seconds |-> word(n \div Nano), fractions |-> word(dword(n * Power2[W]) \div Nano)]

(* Mutant of ntpfraction2nanoseconds: it is rounded down.                  *)
ntpfraction2nanosecondsDown(f) == word(dword(f * Nano) \div Power2[W])

ntpfraction2nanoseconds(f) == word(dword((f + 1) * Nano) \div Power2[W])

(* Here 1 is added to a word, which wraps for the last fraction.           *)
ntpfraction2microseconds(f) == word(dword(word(f + 1) * Micro) \div Power2[W])

(* The seconds of unixtime2Ntp() and ntp2double().                         *)
unixtime2Ntp(s) == word(s + ntpSecondOffset)
ntp2unixtime(s) == s - ntpSecondOffset

-----------------------------------------------------------------------------
(* A netmask is a word; bit 0 is its highest.                              *)
Bit(n, pos) == (n \div Power2[W - 1 - pos]) % 2

(* The loop that shifts a 1 in for each of the prefix bits.                *)
getNetmaskFromPrefix(prefix) ==
  LET subnet[count \in 0..W] ==
        IF count = 0 THEN 0
        ELSE word(2 * subnet[count - 1]) + (IF count <= prefix THEN 1 ELSE 0)
  IN  subnet[W]

(* The leading ones, or -1 if another one follows behind the gap.          *)
getPrefixFromNetmask(n) ==
  LET prefix == CHOOSE p \in 0..W : /\ \A pos \in 0..(p - 1) : Bit(n, pos) = 1
                                    /\ p < W => Bit(n, p) = 0
  IN  IF \E pos \in (prefix + 1)..(W - 1) : Bit(n, pos) = 1 THEN -1 ELSE prefix

-----------------------------------------------------------------------------
ConversionsInit == input = -1 \* nothing yet

(* A word is converted.                                                    *)
Convert == input' \in 0..(Power2[W] - 1)

ConversionsSpec == ConversionsInit /\ [][Convert]_input

(* What one conversion makes, the other takes back: times within a second, *)
(* seconds up to the end of the ntp era, and every netmask without a gap.  *)
(* A fraction comes back to within a unit, except for the last one, which  *)
(* becomes 0 microseconds, and as many nanoseconds as a whole second has.  *)
(* nanoseconds2NtpStruct() agrees with the conversion of its parts below   *)
(* 2^W (4.3 seconds), where the shift begins to overflow.                  *)
RoundTrip ==
  input \in Nat =>
    /\ input < Micro => ntpfraction2microseconds(Ntpfraction(input, Micro)) = input
    /\ input < Nano => ntpfraction2nanoseconds(Ntpfraction(input, Nano)) = input
    /\ nanoseconds2NtpStruct(input) = [seconds   |-> input \div Nano,
                                       fractions |-> Ntpfraction(input % Nano, Nano)]
    /\ input # Power2[W] - 1 =>
         /\ input - Ntpfraction(ntpfraction2nanoseconds(input), Nano)
              \in -1..(Power2[W] \div Nano)
         /\ input - Ntpfraction(ntpfraction2microseconds(input), Micro)
              \in -1..(Power2[W] \div Micro)
    /\ input + ntpSecondOffset < Power2[W] => ntp2unixtime(unixtime2Ntp(input)) = input
    /\ input <= W => getPrefixFromNetmask(getNetmaskFromPrefix(input)) = input
    /\ LET prefix == getPrefixFromNetmask(input)
       IN  IF prefix = -1 THEN \A p \in 0..W : getNetmaskFromPrefix(p) # input
           ELSE getNetmaskFromPrefix(prefix) = input
=============================================================================
