------------------------------ MODULE MCCrawler ------------------------------
(***************************************************************************)
(* A small site for TLC: the start page links to two others, one of which  *)
(* links back and on to one that is gone; one is not linked to at all.     *)
(***************************************************************************)
EXTENDS Crawler

CONSTANTS home, news, about, gone, orphan, torn, t1, t2, t3

MCUrl == {home, news, about, gone, orphan, torn}

MCLinks ==
  [u \in MCUrl |->
     CASE u = home   -> <<news, about>>
       [] u = news   -> <<home, gone, about>>
       [] u = about  -> <<news>>
       [] u = orphan -> <<home>>
       [] OTHER      -> <<>>]

\* A smaller one for reads that return part of a page.
SmallUrl == {home, news, gone, orphan, torn}

SmallLinks == [u \in SmallUrl |-> CASE u = home   -> <<news, gone>>
                                    [] u = news   -> <<home, gone>>
                                    [] u = orphan -> <<home>>
                                    [] OTHER      -> <<>>]
=============================================================================
