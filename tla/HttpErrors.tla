----------------------------- MODULE HttpErrors -----------------------------
(* The answers that are not a result, by what they tell the client.        *)
EXTENDS Absent

CONSTANTS Invalid,     \* 422: the request, or the files it is computed from
          NotFound,    \* 404
          Conflict,    \* 409: what was asked for together cannot be added
          TooLarge,    \* 413
          BadGateway,  \* 502
          Unavailable, \* 503
          Raises       \* 500: an exception no handler catches
=============================================================================
