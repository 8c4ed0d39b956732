---------------------------- MODULE MCZoomWindow ----------------------------
(* ZoomWindow on the versions around the fix: 3.6, 3.7b, 3.7c, 2.9, 4.0 and a
   development build's.                                                      *)
EXTENDS ZoomWindow

MCVersions == {<<3, 6, 0>>, <<3, 7, 2>>, <<3, 7, 3>>, <<2, 9, 4>>, <<4, 0, 0>>, Unparsed}
=============================================================================
