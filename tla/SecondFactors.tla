------------------------------ MODULE SecondFactors ------------------------------
(***************************************************************************)
(* What a user shows besides the password: the codes of src/araxys/mfa and *)
(* the responses of src/araxys/webauthn.  They share no state.             *)
(***************************************************************************)
EXTENDS MultiFactor, WebAuthn

\* A code and a response to a challenge are honoured as their owner would wish.
FactorsHonoured == CodesHonoured /\ ResponseOnce

=============================================================================
