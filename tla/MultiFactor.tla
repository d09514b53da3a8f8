------------------------------- MODULE MultiFactor -------------------------------
(***************************************************************************)
(* The second factor of one user: TOTP codes (src/araxys/mfa/totp.py) and  *)
(* recovery codes (src/araxys/mfa/manager.py, dependencies.py).  The code  *)
(* of a time step is its counter here: equal codes of different counters   *)
(* are left out.                                                           *)
(*                                                                         *)
(* The library keeps nothing: the application loads the list of hashed     *)
(* recovery codes, has verify_recovery_code() take one out, and saves what *)
(* is left, each a step of its own among the user's concurrent requests.   *)
(***************************************************************************)
EXTENDS Integers, SequencesExt

CONSTANTS
    Period,        \* period_seconds
    DriftWindow,   \* window
    MaxEpoch,      \* bound on the time
    CodeCount,     \* recovery_code_count
    MaxSetups,     \* bound on the calls of setup()
    Recoveries     \* concurrent requests with a recovery code

ASSUME MultiFactorAssumption ==
    {Period, MaxEpoch, CodeCount, MaxSetups} \subseteq Nat \ {0} /\ DriftWindow \in Nat

VARIABLES
    epoch,        \* int(time.time())
    setups,       \* calls of setup() so far
    recovery,     \* external: the stored list of recovery codes
    redemption,   \* where a request with a recovery code stands
    \* history
    used,         \* how often each code was accepted: never, once, more often
    overwritten   \* a save put back what was saved since its list was read

factorVars == <<epoch, setups, recovery, redemption, used, overwritten>>

\* The n-th set-up hands out CodeCount fresh codes.
Codes(n) == [i \in 1..CodeCount |-> (n - 1) * CodeCount + i]
AllCodes == 1..MaxSetups * CodeCount
NoRequest == [at |-> "idle", code |-> 0, list |-> <<>>, basis |-> <<>>]

FactorTypeOK ==
    /\ epoch \in 0..MaxEpoch
    /\ setups \in 0..MaxSetups
    /\ Len(recovery) <= CodeCount /\ ToSet(recovery) \subseteq AllCodes
    /\ \A r \in Recoveries : redemption[r].at \in {"idle", "loaded", "verified"}
    /\ used \in [AllCodes -> 0..2]
    /\ overwritten \in BOOLEAN

FactorInit ==
    /\ epoch = 0
    /\ setups = 0
    /\ recovery = <<>>
    /\ redemption = [r \in Recoveries |-> NoRequest]
    /\ used = [c \in AllCodes |-> 0]
    /\ overwritten = FALSE

-----------------------------------------------------------------------------
(* TOTP *)

EpochPasses ==
    /\ epoch < MaxEpoch
    /\ epoch' = epoch + 1
    /\ UNCHANGED <<setups, recovery, redemption, used, overwritten>>

Counter(timestamp) == timestamp \div Period

\* The mutant forgets that range() excludes its end.
Offsets_Short == -DriftWindow..DriftWindow - 1

Offsets == -DriftWindow..DriftWindow

VerifyTotp(code) == \E o \in Offsets : Counter(epoch + o * Period) = code

-----------------------------------------------------------------------------
(* Recovery codes *)

\* setup(): the application stores the new list in place of the old one.
Setup ==
    /\ setups < MaxSetups
    /\ setups' = setups + 1
    /\ recovery' = Codes(setups + 1)
    /\ UNCHANGED <<epoch, redemption, used, overwritten>>

\* The application reads the list for a code the user holds.
LoadCodes(r, c) ==
    /\ redemption[r] = NoRequest
    /\ redemption' = [redemption EXCEPT ![r] = [at |-> "loaded", code |-> c,
                                          list |-> recovery, basis |-> recovery]]
    /\ UNCHANGED <<epoch, setups, recovery, used, overwritten>>

\* The mutant drops the wrong end of the list.
CodesWithout_Shifted(list, i) == SubSeq(list, 1, i) \o SubSeq(list, i + 1, Len(list))

CodesWithout(list, i) == RemoveAt(list, i)

\* verify_recovery_code(): 401, or the list without the code's first match.
VerifyRecovery(r) ==
    LET q == redemption[r]
        matches == {i \in DOMAIN q.list : q.list[i] = q.code} IN
    /\ q.at = "loaded"
    /\ redemption' = [redemption EXCEPT ![r] =
           IF matches = {} THEN NoRequest
           ELSE [q EXCEPT !.at = "verified",
                          !.list = CodesWithout(q.list, CHOOSE i \in matches :
                                                   \A j \in matches : i <= j)]]
    /\ UNCHANGED <<epoch, setups, recovery, used, overwritten>>

\* The application saves what is left, and lets the user in.
SaveCodes(r) ==
    LET q == redemption[r] IN
    /\ q.at = "verified"
    /\ recovery' = q.list
    /\ used' = [used EXCEPT ![q.code] = IF @ = 0 THEN 1 ELSE 2]
    /\ overwritten' = (overwritten \/ recovery # q.basis)
    /\ redemption' = [redemption EXCEPT ![r] = NoRequest]
    /\ UNCHANGED <<epoch, setups>>

FactorNext ==
    \/ EpochPasses \/ Setup
    \/ \E r \in Recoveries :
           \/ \E c \in 1..setups * CodeCount : LoadCodes(r, c)
           \/ VerifyRecovery(r) \/ SaveCodes(r)

FactorSpec == FactorInit /\ [][FactorNext]_factorVars

-----------------------------------------------------------------------------
(* Properties *)

\* A device whose clock is off by no more than Window periods shows a code
\* that is accepted; one off by another whole period and more does not.
DriftTolerated ==
    \A drift \in -(DriftWindow + 2) * Period..(DriftWindow + 2) * Period :
        LET code == Counter(epoch + drift) IN
        /\ drift \in -DriftWindow * Period..DriftWindow * Period => VerifyTotp(code)
        /\ VerifyTotp(code) =>
               drift \in 1 - (DriftWindow + 1) * Period..(DriftWindow + 1) * Period - 1

\* A recovery code is accepted once, and none of an earlier set-up is left in
\* the list, unless a request saved its list over a change it had not read.
RecoveryOnce ==
    ~overwritten =>
        /\ \A c \in AllCodes : used[c] <= 1
        /\ \A c \in ToSet(recovery) : c \in ToSet(Codes(setups)) /\ used[c] = 0

\* Both kinds of second factor.
CodesHonoured == DriftTolerated /\ RecoveryOnce

=============================================================================
