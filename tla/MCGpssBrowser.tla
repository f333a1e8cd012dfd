---------------------------- MODULE MCGpssBrowser ----------------------------
(* Searches of one to three pages that change once under the browser. *)
EXTENDS GpssBrowserProperties
===============================================================================
