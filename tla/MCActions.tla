----------------------------- MODULE MCActions -----------------------------
EXTENDS Actions, TLC

CONSTANTS parcel, plan, delivered, unknown, verified, revoked

\* The old layout knows of the parcel.
MCLegacy == (parcel :> delivered) @@ (plan :> Nothing)

=============================================================================
