-------------------------- MODULE AccountFindings --------------------------
(***************************************************************************)
(* What the documentation says of accounts and the code does not do.       *)
(***************************************************************************)
EXTENDS MCAccounts

\* "First registered user automatically becomes super admin", the others do
\* not (README.md:18): two first sign-ups may both count no super admin.
OneSuperAdmin ==
  \A u, v \in Emails : SuperAdmin(u) /\ SuperAdmin(v) => u = v

\* "Password update logs out all other sessions" (README.md:27): a sign-in that
\* checked the replaced password creates its session after they were deleted.
OthersLoggedOut == SessionsKnowPassword
=============================================================================
