----------------------------- MODULE ErrorHandler -----------------------------
(***************************************************************************)
(* algorand_error_handler: how an AlgorandError that a route lets through  *)
(* becomes the status of the response.  An upstream failure is its HTTP    *)
(* status, or NoStatus when no answer was obtained.                        *)
(***************************************************************************)
EXTENDS Integers

NoStatus == 0                                            \* exc.status is None

\* One failure of each class the handler tells apart, and both kinds of 502.
Failures == {NoStatus, 400, 404, 429, 500}

AttributedMutant(failure) ==          \* a rejected request is a broken upstream
    IF failure \in {404, 429} THEN failure ELSE 502

Attributed(failure) ==
    CASE failure \in {404, 429} -> failure
      [] failure \in 400 .. 499 \ {404, 429} -> 400
      [] OTHER -> 502

\* The upstream, not the request and not its timing, is at fault.
Genuine(failure) == failure = NoStatus \/ failure >= 500
==============================================================================
