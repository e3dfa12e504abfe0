----------------------------- MODULE MCWebView ------------------------------
(* A small instance of WebView for TLC.                                    *)
EXTENDS WebView, TLC

CONSTANTS ManySheets, FewSheets, Many, Few

(* A page with more sheets than the queue, the tasks and the answers take, *)
(* and a page with few.                                                    *)
MCSheets == [u \in Url |-> IF u \in ManySheets THEN Many ELSE IF u \in FewSheets THEN Few ELSE 0]
=============================================================================
