------------------------------- MODULE MCIov -------------------------------
(* Iov with arrays and limits scaled down so that a three-buffer reply    *)
(* grows the iov and msghdr arrays, fills a msghdr to IOV_MAX, and splits *)
(* a buffer at MAX_PAYLOAD_SIZE.                                          *)
EXTENDS Iov

MCFragLens == {1, 4}

=============================================================================
