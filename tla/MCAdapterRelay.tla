---------------------------- MODULE MCAdapterRelay ----------------------------
\* Two subscriptionIds, three subscriptions (so that one of the ids is used
\* again), two updates for each in queues of one: an update may be in the queue,
\* in the relay's hands or dropped when its subscription is ended.
EXTENDS AdapterRelay
=============================================================================
