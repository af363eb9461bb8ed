------------------------------- MODULE SecPlus -------------------------------
(***************************************************************************)
(* The decoder of Security+ 1.0 (src/src/devices/secplus_v1.c), which is   *)
(* not stateless: a message comes in two bursts, a package may hold one of *)
(* them, and the half that was heard first waits in static variables for   *)
(* the other one.  Its age is the difference of two readings of the wall   *)
(* clock (timeval_subtract, src/src/compat_time.c).                        *)
(*                                                                         *)
(* A half is what find_next and secplus_v1_decode_v1_half find in a row:   *)
(* its first digit says which half it is, the others belong to a press of  *)
(* the button.  The clock never goes back and reads a second or more, as   *)
(* tv_sec = 0 stands for an empty cache.                                   *)
(***************************************************************************)
EXTENDS Integers, Sequences

CONSTANTS
  USEC,               \* microseconds of a second
  CACHE_MAX_AGE,      \* 800000
  PressPause,         \* time between the bursts of two presses of the button
  MaxBursts,          \* bound: bursts sent
  MaxClock            \* bound: time

ASSUME SecPlusAssumption ==
  /\ USEC \in Nat \ {0} /\ CACHE_MAX_AGE \in 0 .. USEC /\ PressPause \in Nat
  /\ MaxBursts \in Nat /\ MaxClock \in Nat

VARIABLES
  clock,              \* in microseconds
  cached_result,      \* the number of the burst whose half is kept
  cached_tv,          \* when it was kept
  bursts,             \* what was sent: sequence of [half, press, at]
  heard,              \* auxiliary: the numbers of the bursts that were decoded, in order
  messages            \* auxiliary: the pairs of bursts that gave a message

SecPlusVars == <<clock, cached_result, cached_tv, bursts, heard, messages>>

NoTime == [tv_sec |-> 0, tv_usec |-> 0]

SecPlusInit ==
  /\ clock \in USEC .. 2 * USEC - 1
  /\ cached_result = 0 /\ cached_tv = NoTime
  /\ bursts = <<>> /\ heard = <<>> /\ messages = {}

gettimeofday == [tv_sec |-> clock \div USEC, tv_usec |-> clock % USEC]

\* The carry goes to a copy of y, and the fields of y itself are subtracted.
timeval_subtract(x, y) ==
  [tv_sec |-> x.tv_sec - y.tv_sec, tv_usec |-> x.tv_usec - y.tv_usec]

Half(b) == bursts'[b].half

\* Mutant: the microseconds are not compared.
SameSecond(age) == age.tv_sec = 0

Fresh(age) == age.tv_sec = 0 /\ age.tv_usec < CACHE_MAX_AGE

HasCache == cached_tv.tv_sec # 0

\* The cached half and the one of this burst make a message.
Joins(b) ==
  /\ HasCache /\ Fresh(timeval_subtract(gettimeofday, cached_tv))
  /\ Half(b) # Half(cached_result)

\* Mutant: a half that was used stays in the cache.
CacheKept(b) ==
  IF Joins(b)
    THEN UNCHANGED <<cached_result, cached_tv>>
    ELSE cached_result' = b /\ cached_tv' = gettimeofday

\* A cached half is cleared because it is expired or used; a single half is cached.
Cache(b) ==
  IF Joins(b)
    THEN cached_result' = 0 /\ cached_tv' = NoTime
    ELSE cached_result' = b /\ cached_tv' = gettimeofday

\* The callback gets a row with the halves of these bursts.  The search stops at
\* the first one it can decode; a row without any changes nothing.
secplus_v1_callback(row) ==
  IF row = <<>> THEN UNCHANGED <<cached_result, cached_tv, heard, messages>>
    ELSE LET b == Head(row)
         IN  /\ heard' = Append(heard, b)
             /\ messages' = IF Joins(b) THEN messages \cup {{cached_result, b}} ELSE messages
             /\ Cache(b)

-----------------------------------------------------------------------------
(* The transmitter sends the halves in turn while its button is pressed.    *)

Sent == Len(bursts)

Burst(half, press) == [half |-> half, press |-> press, at |-> clock]

NextOfPress == Burst(3 - bursts[Sent].half, bursts[Sent].press)

\* The next press starts a while after the last one with the first half.
NextPress ==
  IF Sent = 0 THEN {Burst(1, 1)}
    ELSE {Burst(1, p) : p \in {bursts[Sent].press + 1} \cap
                              {q \in Nat : clock >= bursts[Sent].at + PressPause}}

NextBursts == NextPress \cup (IF Sent = 0 THEN {} ELSE {NextOfPress})

\* A burst is received or lost.
SendBurst ==
  /\ Sent < MaxBursts
  /\ \E burst \in NextBursts : bursts' = Append(bursts, burst)
  /\ \E row \in {<<>>, <<Sent + 1>>} : secplus_v1_callback(row)
  /\ UNCHANGED clock

\* Two bursts may come as one row, of which either or both can be decoded.
SendPair ==
  /\ Sent + 1 < MaxBursts
  /\ \E burst \in NextBursts :
       bursts' = bursts \o <<burst, [burst EXCEPT !.half = 3 - @]>>
  /\ \E row \in {<<Sent + 1, Sent + 2>>, <<Sent + 2>>} : secplus_v1_callback(row)
  /\ UNCHANGED clock

Tick ==
  /\ clock < MaxClock /\ clock' = clock + 1
  /\ UNCHANGED <<cached_result, cached_tv, bursts, heard, messages>>

SecPlusNext == SendBurst \/ SendPair \/ Tick

SecPlusSpec == SecPlusInit /\ [][SecPlusNext]_SecPlusVars

-----------------------------------------------------------------------------
(* Safety.                                                                  *)

SecPlusTyped ==
  /\ clock \in Nat
  /\ bursts \in Seq([half : 1 .. 2, press : Nat \ {0}, at : Nat])
  /\ cached_result \in 0 .. Sent /\ (HasCache => cached_result # 0)
  /\ cached_tv \in [tv_sec : Nat, tv_usec : 0 .. USEC - 1]
  /\ heard \in Seq(1 .. Sent) /\ messages \in SUBSET SUBSET (1 .. Sent)

\* Whatever bursts are lost, the halves of a message are the first and the second half
\* of one press, if the button is not pressed again within the age of the cache.
SamePress ==
  PressPause >= CACHE_MAX_AGE =>
    \A m \in messages :
      /\ {bursts[b].half : b \in m} = {1, 2}
      /\ \A b \in m, c \in m : bursts[b].press = bursts[c].press

\* No half is reported in two messages: a long press gives one message for two bursts.
UsedOnce == \A m \in messages, n \in messages : m # n => m \cap n = {}

\* A half is given up only when it is expired or used ("clear cache because it is
\* expired or used", secplus_v1.c:233, with a time difference that is "certainly
\* positive", compat_time.c:54): of two halves that follow each other within
\* CACHE_MAX_AGE one is in a message.
HalvesJoined ==
  \A k \in 1 .. Len(heard) - 1 :
    LET b == heard[k]
        c == heard[k + 1]
    IN  bursts[b].half # bursts[c].half /\ bursts[c].at - bursts[b].at < CACHE_MAX_AGE
          => \E m \in messages : b \in m \/ c \in m
=============================================================================
